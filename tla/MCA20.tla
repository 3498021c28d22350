------------------------------- MODULE MCA20 -------------------------------
(***************************************************************************)
(* Machines for A20.  Timeout = 2 polls: enough for the controller to be  *)
(* fast (it answers before the first poll), late (before the second) or   *)
(* too slow (after the wait gave up).                                     *)
(***************************************************************************)
EXTENDS A20, TLC

Machine(on, c, w, key, sc, bi, fast, hi) ==
    [on |-> on, kbc |-> c, wired |-> w, key |-> key, scancode |-> sc, bios |-> bi,
     fast |-> fast, hi |-> hi]

(* Every combination of the methods that work (a controller whose output *)
(* port does not drive the line included), with the word at 0x107dfe    *)
(* equal to 0x1234 or not, and no key pending.                             *)
MCMachines ==
    {Machine(on, c, w, FALSE, 0, bi, fast, hi) :
        on \in BOOLEAN, c \in BOOLEAN, w \in BOOLEAN, bi \in BOOLEAN, fast \in BOOLEAN,
        hi \in {0, 4660}}

(* A controller with a key (the make code of Enter, 0x1c) in its output   *)
(* buffer when a20_enable starts, and neither the BIOS nor port 0x92.      *)
MCMachinesKey == {Machine(FALSE, TRUE, TRUE, TRUE, 28, FALSE, FALSE, 0)}

=============================================================================
