-------------------------------- MODULE A20 --------------------------------
(***************************************************************************)
(* a20_enable and a20_check of common/sys/a20.s2.c against a machine: the *)
(* A20 line is open when one of its gates is (the BIOS's, bit 1 of the    *)
(* keyboard controller's output port, bit 1 of port 0x92).  The keyboard  *)
(* controller (KBC) is a device of its own that takes the bytes written   *)
(* to ports 0x64 and 0x60 when it gets round to them, with no bound on    *)
(* how long that takes; a20_kbc_wait polls its status at most Timeout     *)
(* times.  Bytes are numbers 0 .. 255; a bit is read with Bit.            *)
(***************************************************************************)
EXTENDS Naturals, Sequences

CONSTANTS
    Machines,   \* the hardware a20_enable may run on
    Timeout     \* A20_KBC_TIMEOUT

ASSUME TimeoutAssumption == Timeout \in Nat \ {0}

(* What a machine is: flags, the scancode of a pending key (a byte) and   *)
(* the word at 0x107dfe (a uint16_t).                                      *)
ASSUME MachinesAssumption ==
    /\ Machines \subseteq [on : BOOLEAN, kbc : BOOLEAN, wired : BOOLEAN, key : BOOLEAN,
                           scancode : 0 .. 255, bios : BOOLEAN, fast : BOOLEAN,
                           hi : Nat]
    /\ \A m \in Machines : m.hi < 65536

VARIABLES
    hw,       \* the machine: A20 open at entry, kbc present and wired to the line, a key pending, BIOS and port 0x92 support, the word at 0x107dfe
    bios,     \* the BIOS's gate
    outport,  \* the KBC's output port: bit 0 is the CPU reset line (0 = reset), bit 1 the A20 gate
    p92,      \* port 0x92: bit 0 resets the CPU, bit 1 is the A20 gate
    ibf,      \* the byte in the KBC's input buffer and its port (0x64 or 0x60), or NoIn
    obf,      \* the byte in the KBC's output buffer, or None
    expect,   \* the KBC waits for the data byte of command 0xd1
    kbd,      \* the keyboard interface is enabled
    reset,    \* the machine was reset
    pc, k, i, b, res   \* a20_enable: where it is, the KBC step, the poll count, the byte read, the result

vars == <<hw, bios, outport, p92, ibf, obf, expect, kbd, reset, pc, k, i, b, res>>

None == 256
Bit(x, n) == (x \div (2 ^ n)) % 2

(* The line is open when one of the gates is (the controller's only when  *)
(* its output port is wired to the line).  A missing port 0x92 reads 0xff *)
(* and ignores writes.                                                     *)
Port92 == IF hw.fast THEN p92 ELSE 255
Enabled == bios \/ (hw.wired /\ Bit(outport, 1) = 1) \/ (hw.fast /\ Bit(p92, 1) = 1)

(* a20_check: write 0x1234 at 0x7dfe and compare with 0x107dfe, then the  *)
(* complement; the words differ only when the line is open (they are one  *)
(* word when it is closed).  The word at 0x7dfe is restored.              *)
A20CheckOnce(en) == en /\ hw.hi # 4660
A20Check(en) == en /\ (hw.hi # 4660 \/ hw.hi # 60875)   \* 0x1234, then 0xedcb

(* The keyboard controller method, one entry per statement of a20_enable:  *)
(* a20_kbc_wait(mask, expected), a command to port 0x64, reading or        *)
(* writing port 0x60.                                                      *)
W(mask, exp) == [op |-> "wait", mask |-> mask, exp |-> exp, v |-> 0]
Cmd(v) == [op |-> "cmd", mask |-> 0, exp |-> 0, v |-> v]
KbcProgNoObfWait ==
    << W(2, 0), Cmd(173), W(2, 0), Cmd(208), [op |-> "read", mask |-> 0, exp |-> 0, v |-> 0],
       W(2, 0), Cmd(209), W(2, 0), [op |-> "data", mask |-> 0, exp |-> 0, v |-> 0],
       W(2, 0), Cmd(174), W(2, 0) >>
KbcProg ==
    << W(2, 0), Cmd(173), W(2, 0), Cmd(208), W(1, 1), [op |-> "read", mask |-> 0, exp |-> 0, v |-> 0],
       W(2, 0), Cmd(209), W(2, 0), [op |-> "data", mask |-> 0, exp |-> 0, v |-> 0],
       W(2, 0), Cmd(174), W(2, 0) >>

(* Port 0x64 reads the status: bit 0 output buffer full, bit 1 input      *)
(* buffer full; with no controller it reads 0xff.                          *)
NoIn == [port |-> 0, v |-> 0]
Status == IF ~hw.kbc THEN 255
          ELSE (IF obf # None THEN 1 ELSE 0) + (IF ibf # NoIn THEN 2 ELSE 0)
Ready(w) == (Status \div w.mask) % 2 = w.exp

Init ==
    /\ hw \in Machines
    /\ bios = hw.on /\ outport = 221 /\ p92 = 0   \* 0xdd: A20 closed, no reset
    /\ ibf = NoIn /\ expect = FALSE /\ kbd = TRUE /\ reset = FALSE
    /\ obf = IF hw.key THEN hw.scancode ELSE None
    /\ pc = "start" /\ k = 1 /\ i = 0 /\ b = 0 /\ res = FALSE

Return(r) == pc' = "done" /\ res' = r

(* a20_enable, lines 47-48: the line may be open already.                 *)
Start ==
    /\ pc = "start"
    /\ IF A20Check(Enabled) THEN Return(TRUE) ELSE pc' = "bios" /\ UNCHANGED res
    /\ UNCHANGED <<hw, bios, outport, p92, ibf, obf, expect, kbd, reset, k, i, b>>

(* Lines 51-56: int 0x15, ax = 0x2401, then the check again.               *)
BiosMethod ==
    /\ pc = "bios"
    /\ bios' = hw.bios
    /\ IF A20Check(hw.bios \/ Enabled) THEN Return(TRUE) ELSE pc' = "kbc" /\ UNCHANGED res
    /\ UNCHANGED <<hw, outport, p92, ibf, obf, expect, kbd, reset, k, i, b>>

(* One poll of a20_kbc_wait: go on when the status matches, poll again    *)
(* while polls are left, or give up and go to kbc_failed.                  *)
PollOnce(w) ==
    IF Ready(w) THEN k' = k + 1 /\ i' = 0 /\ UNCHANGED pc
    ELSE IF i + 1 < Timeout THEN i' = i + 1 /\ UNCHANGED <<pc, k>>
    ELSE pc' = "fast" /\ i' = 0 /\ UNCHANGED k
PollLate(w) ==
    IF Ready(w) THEN k' = k + 1 /\ i' = 0 /\ UNCHANGED pc
    ELSE IF i + 1 <= Timeout THEN i' = i + 1 /\ UNCHANGED <<pc, k>>
    ELSE pc' = "fast" /\ i' = 0 /\ UNCHANGED k
PollNoTimeout(w) ==
    IF Ready(w) THEN k' = k + 1 /\ i' = 0 /\ UNCHANGED pc ELSE UNCHANGED <<pc, k, i>>
Poll(w) == PollOnce(w)

(* inb(0x60) takes the output buffer; an empty buffer reads whatever the  *)
(* port last latched.                                                      *)
(* b | 2                                                                   *)
Or2Missing(x) == x
Or2(x) == IF Bit(x, 1) = 1 THEN x ELSE x + 2

ReadData ==
    /\ b' \in IF obf # None THEN {obf} ELSE {0, 255}
    /\ obf' = None

(* Lines 59-71: one statement of the keyboard controller method.          *)
KbcStep ==
    /\ pc = "kbc" /\ k <= Len(KbcProg)
    /\ LET s == KbcProg[k] IN
         CASE s.op = "wait" -> Poll(s) /\ UNCHANGED <<ibf, obf, b>>
           [] s.op = "cmd"  -> ibf' = [port |-> 100, v |-> s.v] /\ k' = k + 1 /\ UNCHANGED <<pc, i, obf, b>>
           [] s.op = "read" -> ReadData /\ k' = k + 1 /\ UNCHANGED <<pc, i, ibf>>
           [] s.op = "data" -> ibf' = [port |-> 96, v |-> Or2(b)] /\ k' = k + 1 /\ UNCHANGED <<pc, i, obf, b>>
    /\ UNCHANGED <<hw, bios, outport, p92, expect, kbd, reset, res>>

(* Lines 73-74: after the sequence, the check; on failure fall through to *)
(* kbc_failed.                                                             *)
KbcCheck ==
    /\ pc = "kbc" /\ k > Len(KbcProg)
    /\ IF A20Check(Enabled) THEN Return(TRUE) ELSE pc' = "fast" /\ UNCHANGED res
    /\ UNCHANGED <<hw, bios, outport, p92, ibf, obf, expect, kbd, reset, k, i, b>>

(* Lines 79-89, fast A20: when bit 1 of port 0x92 is clear, write it back *)
(* with bit 0 (the reset) cleared and bit 1 set; then the last check.      *)
FastA20 ==
    /\ pc = "fast"
    /\ LET v == Port92
            w == (v - Bit(v, 0)) + 2
            open == Bit(v, 1) = 0 /\ hw.fast
        IN  /\ p92' = IF open THEN w ELSE p92
            /\ reset' = (reset \/ (open /\ Bit(w, 0) = 1))
            /\ b' = IF Bit(v, 1) = 0 THEN w ELSE v
            /\ Return(A20Check(Enabled \/ (open /\ Bit(w, 1) = 1)))
    /\ UNCHANGED <<hw, bios, outport, ibf, obf, expect, kbd, k, i>>

(* The keyboard controller takes the byte in its input buffer: 0xad and   *)
(* 0xae disable and enable the keyboard, 0xd0 puts the output port in the *)
(* output buffer once that is empty, 0xd1 makes the next byte written to  *)
(* 0x60 the new output port (0 in bit 0 resets the machine).  A byte to   *)
(* 0x60 with no 0xd1 before it goes to the keyboard, and other commands   *)
(* are not sent here: neither changes what is modelled.                   *)
KbcConsume ==
    /\ hw.kbc /\ ibf # NoIn
    /\ ibf' = NoIn
    /\ CASE ibf.port = 96 /\ expect ->
                outport' = ibf.v /\ expect' = FALSE /\ reset' = (reset \/ Bit(ibf.v, 0) = 0)
                /\ UNCHANGED <<obf, kbd>>
          [] ibf.port = 100 /\ ibf.v = 173 -> kbd' = FALSE /\ UNCHANGED <<outport, expect, reset, obf>>
          [] ibf.port = 100 /\ ibf.v = 174 -> kbd' = TRUE /\ UNCHANGED <<outport, expect, reset, obf>>
          [] ibf.port = 100 /\ ibf.v = 208 -> obf = None /\ obf' = outport /\ UNCHANGED <<outport, expect, reset, kbd>>
          [] ibf.port = 100 /\ ibf.v = 209 -> expect' = TRUE /\ UNCHANGED <<outport, reset, obf, kbd>>
          [] OTHER -> UNCHANGED <<outport, expect, reset, obf, kbd>>
    /\ UNCHANGED <<hw, bios, p92, pc, k, i, b, res>>

Cpu == Start \/ BiosMethod \/ KbcStep \/ KbcCheck \/ FastA20

(* After a20_enable returned nothing of it runs; the controller may still *)
(* have work.                                                              *)
Returned == pc = "done" /\ UNCHANGED vars

Next == Cpu \/ KbcConsume \/ Returned

(* The controller gets no fairness: it may be slower than any timeout.     *)
Spec == Init /\ [][Next]_vars /\ WF_vars(Cpu)

-----------------------------------------------------------------------------
(* The type of every variable; the poll count stays below the timeout.     *)
TypeOK ==
    /\ bios \in BOOLEAN /\ outport \in 0 .. 255 /\ p92 \in 0 .. 255
    /\ ibf \in {NoIn} \cup [port : {96, 100}, v : 0 .. 255]
    /\ obf \in 0 .. 256 /\ expect \in BOOLEAN /\ kbd \in BOOLEAN /\ reset \in BOOLEAN
    /\ pc \in {"start", "bios", "kbc", "fast", "done"}
    /\ k \in 1 .. Len(KbcProg) + 1 /\ i \in 0 .. Timeout - 1 /\ b \in 0 .. 255
    /\ res \in BOOLEAN

(* a20_enable never resets the machine: the byte it writes to the         *)
(* controller's output port keeps bit 0 set, and the one it writes to     *)
(* port 0x92 has it clear (lines 64-68 and 79-83).                          *)
NoReset == ~reset

(* When a20_enable returns, its result says whether the A20 line is open  *)
(* at that moment: a20_check's two comparisons tell an open line from a   *)
(* closed one whatever the word at 0x107dfe holds (lines 20-41).           *)
ResultAccurate == [][pc # "done" /\ pc' = "done" => res' = Enabled']_vars

(* a20_enable returns, with or without a keyboard controller and however  *)
(* slow it is: every a20_kbc_wait gives up after Timeout polls.            *)
EnableReturns == pc # "done" ~> pc = "done"
=============================================================================
