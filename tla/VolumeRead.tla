---------------------------- MODULE VolumeRead ----------------------------
(***************************************************************************)
(* What volume_read(vol, buf, loc, count) promises its callers (spec       *)
(* section 4.1 and testable properties 1 and 2): a call either fails, or   *)
(* it succeeds and the buffer then holds exactly the units loc ..          *)
(* loc + count - 1 of the volume, whatever the cache held before.  The    *)
(* cache does not appear: a successful read is as if it had gone to the   *)
(* disk.  Units and data are as in VolumeCache: the unit of the volume at  *)
(* offset x lies at disk address first_sect + x and holds that address.   *)
(***************************************************************************)
EXTENDS Integers

CONSTANTS MaxLoc, MaxCount, Garbage

VARIABLES
    vol,     \* the volume's geometry, as in VolumeCache
    rpc,     \* "idle" or "busy": is a call in progress?
    rloc,    \* the call's loc
    rcount,  \* the call's count
    rok,     \* what the last call returned
    rdata    \* the caller's buffer once the last call returned

avars == <<vol, rpc, rloc, rcount, rok, rdata>>

NoData == [i \in {} |-> Garbage]

(* The unit at offset x of the volume, and whether the disk has it.       *)
VolumeUnit(x) == vol.first + x
OnDisk(x) == vol.first + x < vol.disk * vol.ssize

AInit ==
    /\ rpc = "idle"
    /\ rloc = 0
    /\ rcount = 0
    /\ rok = FALSE
    /\ rdata = NoData

Request(l, c) ==
    /\ rpc = "idle"
    /\ rpc' = "busy"
    /\ rloc' = l
    /\ rcount' = c
    /\ rdata' = NoData
    /\ UNCHANGED <<vol, rok>>

(* A failed call leaves anything in the buffer; a successful one leaves   *)
(* the units of the volume, all of which are on the disk.                 *)
Complete ==
    /\ rpc = "busy"
    /\ rpc' = "idle"
    /\ rok' \in BOOLEAN
    /\ rdata' \in [0 .. (rcount - 1) -> Nat \cup {Garbage}]
    /\ rok' => \A i \in 0 .. (rcount - 1) :
                  OnDisk(rloc + i) /\ rdata'[i] = VolumeUnit(rloc + i)
    /\ UNCHANGED <<vol, rloc, rcount>>

ANext ==
    \/ \E l \in 0 .. MaxLoc, c \in 0 .. MaxCount : Request(l, c)
    \/ Complete

ASpec == AInit /\ [][ANext]_avars

=============================================================================
