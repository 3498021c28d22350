------------------------- MODULE VolumeCacheProofs -------------------------
(***************************************************************************)
(* Proofs about the volume byte reader (VolumeCache), for every volume     *)
(* geometry and every bound on the caller's requests.                      *)
(***************************************************************************)
EXTENDS VolumeCache, TLAPS

(* The arithmetic facts about the volume that every step relies on.       *)
LEMMA GeometryFacts ==
    ASSUME vol \in Volumes
    PROVE  /\ vol.first \in Nat
           /\ vol.count \in Nat \cup {-1}
           /\ vol.ssize \in Nat \ {0}
           /\ vol.xfer \in Nat \ {0}
           /\ vol.optical \in BOOLEAN
           /\ vol.disk \in Nat
           /\ BlockSize \in Nat \ {0}
           /\ DiskEnd \in Nat
<1>1. vol \in Geometry
  BY VolumesAssumption
<1>2. /\ vol.first \in Nat
      /\ vol.count \in Nat \cup {-1}
      /\ vol.ssize \in Nat \ {0}
      /\ vol.xfer \in Nat \ {0}
      /\ vol.optical \in BOOLEAN
      /\ vol.disk \in Nat
  BY <1>1 DEF Geometry
<1>3. BlockSize \in Nat \ {0} /\ DiskEnd \in Nat
  BY <1>2 DEF BlockSize, DiskEnd
<1>4. QED
  BY <1>2, <1>3

(* Where volume_read() stands in its loop: the block and the offset of the *)
(* next unit, and the disk address of a cache index, are natural numbers.  *)
LEMMA PositionFacts ==
    ASSUME vol \in Volumes, loc \in Nat, progress \in Nat
    PROVE  /\ CurBlock \in Nat
           /\ CurOffset \in 0 .. (BlockSize - 1)
           /\ \A b \in Nat : ReadSector(b) \in Nat
           /\ \A b \in Nat, i \in Nat : Addr(b, i) \in Nat
<1>1. BlockSize \in Nat \ {0} /\ vol.first \in Nat /\ vol.ssize \in Nat \ {0}
      /\ vol.xfer \in Nat \ {0}
  BY GeometryFacts
<1>2. CurBlock \in Nat /\ CurOffset \in 0 .. (BlockSize - 1)
  BY <1>1 DEF CurBlock, CurOffset
<1>3. \A b \in Nat : ReadSector(b) \in Nat
  BY <1>1 DEF ReadSector
<1>4. \A b \in Nat, i \in Nat : Addr(b, i) \in Nat
  BY <1>1, <1>3 DEF Addr
<1>5. QED
  BY <1>2, <1>3, <1>4

-----------------------------------------------------------------------------
(* The type invariant, strengthened by the one fact about the retry loop   *)
(* it needs: while a disk read is pending at least one sector is asked.    *)
(* The Boolean result ok is kept apart: Zenon handles Boolean-valued       *)
(* variables, SMT the arithmetic of the other conjuncts.                   *)
DataOK ==
    /\ vol \in Volumes
    /\ cacheStatus \in {"NOT_READY", "READY"}
    /\ cachedBlock \in Nat
    /\ cache \in [CacheIdx -> Unit]
    /\ pc \in {"idle", "check", "loop", "disk", "copy"}
    /\ loc \in Nat
    /\ count \in Nat
    /\ progress \in Nat
    /\ xfer \in 0 .. vol.xfer
    /\ buf \in [0 .. (count - 1) -> Unit]
    /\ pc = "disk" => xfer \in 1 .. vol.xfer
    /\ pc \in {"disk", "copy"} => progress < count

TypeInv == DataOK /\ ok \in BOOLEAN

LEMMA TypeInit == Init => TypeInv
<1> SUFFICES ASSUME Init PROVE TypeInv
  OBVIOUS
<1>1. vol \in Volumes
  BY DEF Init
<1>2. vol.xfer \in Nat \ {0}
  BY <1>1, GeometryFacts
<1>3. ok \in BOOLEAN
  BY Zenon DEF Init
<1>4. DataOK
  BY <1>1, <1>2 DEF Init, DataOK, Unit, CacheIdx
<1>5. QED
  BY <1>3, <1>4 DEF TypeInv

(* volume_read()'s result stays a Boolean.                                 *)
LEMMA OkBoolean == ok \in BOOLEAN /\ [Next]_vars => ok' \in BOOLEAN
<1> SUFFICES ASSUME ok \in BOOLEAN, [Next]_vars PROVE ok' \in BOOLEAN
  OBVIOUS
<1>1. ASSUME NEW l, NEW c, Call(l, c) PROVE ok' \in BOOLEAN
  BY <1>1, Zenon DEF Call
<1>2. CASE Check
  BY <1>2, Zenon DEF Check, Return
<1>3. CASE Finish \/ CacheHit \/ CacheMiss \/ DiskSuccess \/ DiskNoMedia
  BY <1>3, Zenon DEF Finish, CacheHit, CacheMiss, DiskSuccess, DiskNoMedia,
                     Return
<1>4. CASE DiskFailure
  BY <1>4, Zenon DEF DiskFailure, Return
<1>5. CASE Copy \/ UNCHANGED vars
  BY <1>5, Zenon DEF Copy, vars
<1>6. QED
  BY <1>1, <1>2, <1>3, <1>4, <1>5 DEF Next, Internal, DiskRead

(* Each case first reads the action's effect on the other variables off   *)
(* its definition with Zenon, then lets SMT do the arithmetic.            *)
LEMMA DataStep == DataOK /\ [Next]_vars => DataOK'
<1> SUFFICES ASSUME DataOK, [Next]_vars PROVE DataOK'
  OBVIOUS
<1>1. /\ vol \in Volumes
      /\ loc \in Nat /\ count \in Nat /\ progress \in Nat
      /\ xfer \in Nat /\ xfer <= vol.xfer
  BY DEF DataOK
<1>2. /\ BlockSize \in Nat \ {0}
      /\ vol.xfer \in Nat \ {0} /\ vol.ssize \in Nat \ {0}
      /\ CurBlock \in Nat
      /\ CurOffset \in 0 .. (BlockSize - 1)
  BY <1>1, GeometryFacts, PositionFacts
<1>3. /\ cache \in [CacheIdx -> Unit]
      /\ buf \in [0 .. (count - 1) -> Unit]
  BY DEF DataOK
<1>4. /\ pc = "disk" => xfer >= 1
      /\ pc \in {"disk", "copy"} => progress < count
  BY DEF DataOK
<1>0. vol' = vol => CacheIdx' = CacheIdx
  BY Zenon DEF CacheIdx, BlockSize
<1>5. ASSUME NEW l \in 0 .. MaxLoc, NEW c \in 0 .. MaxCount, Call(l, c)
      PROVE  DataOK'
  <2>1. /\ pc' = "check" /\ loc' = l /\ count' = c
        /\ buf' = [i \in 0 .. (c - 1) |-> Garbage]
        /\ UNCHANGED <<vol, cacheStatus, cachedBlock, cache, progress, xfer>>
    BY <1>5, Zenon DEF Call
  <2>2. /\ loc' \in Nat /\ count' \in Nat
        /\ buf' \in [0 .. (count' - 1) -> Unit]
    BY <2>1, BoundsAssumption DEF Unit
  <2>3. QED
    BY <1>0, <1>3, <2>1, <2>2, Zenon DEF DataOK
<1>6. CASE Check
  <2>1. /\ pc' \in {"idle", "loop"} /\ progress' \in {progress, 0}
        /\ UNCHANGED <<vol, cacheStatus, cachedBlock, cache, loc, count, xfer,
                       buf>>
    BY <1>6, Zenon DEF Check, Return
  <2>2. progress' \in Nat
    BY <1>1, <2>1
  <2>3. QED
    BY <1>0, <2>1, <2>2, Zenon DEF DataOK
<1>7. CASE Finish \/ CacheHit
  <2>1. /\ pc' = "idle" \/ (pc' = "copy" /\ progress < count)
        /\ UNCHANGED <<vol, cacheStatus, cachedBlock, cache, loc, count,
                       progress, xfer, buf>>
    BY <1>7, Zenon DEF Finish, CacheHit, Return
  <2>2. QED
    BY <1>0, <2>1, Zenon DEF DataOK
<1>8. CASE CacheMiss
  <2>1. /\ UNCHANGED <<vol, cachedBlock, cache, loc, count, progress, buf>>
        /\ cacheStatus' = "NOT_READY"
        /\ \/ pc' = "idle" /\ xfer' = xfer
           \/ pc' = "disk" /\ xfer' = vol.xfer
        /\ progress < count
    BY <1>8, Zenon DEF CacheMiss, Return
  <2>2. vol.xfer \in 0 .. vol.xfer /\ vol.xfer \in 1 .. vol.xfer
    BY <1>2
  <2>3. QED
    BY <1>0, <2>1, <2>2, Zenon DEF DataOK
<1>9. CASE DiskSuccess
  <2>1. \A i \in CacheIdx : Addr(CurBlock, i) \in Nat
    <3>1. SUFFICES ASSUME NEW i \in CacheIdx PROVE Addr(CurBlock, i) \in Nat
      OBVIOUS
    <3>2. i \in Nat
      BY <1>2 DEF CacheIdx
    <3>3. QED
      BY <1>1, <1>2, <3>2, PositionFacts
  <2>2. Fill(CurBlock, xfer) \in [CacheIdx -> Unit]
    BY <1>3, <2>1 DEF Fill, Unit
  <2>3. /\ cache' = Fill(CurBlock, xfer)
        /\ cacheStatus' = "READY" /\ cachedBlock' = CurBlock /\ pc' = "copy"
        /\ UNCHANGED <<vol, loc, count, progress, xfer, buf>>
        /\ pc = "disk"
    BY <1>9, Zenon DEF DiskSuccess, DiskOutcome
  <2>4. QED
    BY <1>0, <1>2, <2>2, <2>3, Zenon DEF DataOK
<1>10. CASE DiskNoMedia
  <2>1. pc' = "idle" /\ UNCHANGED <<vol, cacheStatus, cachedBlock, cache, loc,
                                    count, progress, xfer, buf>>
    BY <1>10, Zenon DEF DiskNoMedia, Return
  <2>2. QED
    BY <1>0, <2>1, Zenon DEF DataOK
<1>11. CASE DiskFailure
  <2>1. Clobber(xfer) \in [CacheIdx -> Unit]
    BY <1>3, GarbageAssumption DEF Clobber, Unit
  <2>2. /\ cache' \in {cache, Clobber(xfer)}
        /\ xfer' = xfer - 1
        /\ pc = "disk"
        /\ \/ pc' = "idle"
           \/ pc' = "disk" /\ xfer - 1 # 0
        /\ UNCHANGED <<vol, cacheStatus, cachedBlock, loc, count, progress, buf>>
    BY <1>11, Zenon DEF DiskFailure, DiskOutcome, Return
  <2>3. /\ xfer' = xfer - 1 /\ pc = "disk"
        /\ pc' = "disk" => xfer - 1 # 0
    BY <2>2, Zenon
  <2>4. /\ xfer' \in 0 .. vol.xfer
        /\ pc' = "disk" => xfer' \in 1 .. vol.xfer
    BY <1>1, <1>2, <1>4, <2>3
  <2>5. QED
    BY <1>0, <1>3, <2>1, <2>2, <2>4, Zenon DEF DataOK
<1>12. CASE Copy
  <2>1. /\ buf' = [i \in DOMAIN buf |->
                     IF progress <= i /\ i < progress + Chunk
                     THEN cache[CurOffset + (i - progress)] ELSE buf[i]]
        /\ progress' = progress + Chunk
        /\ pc' = "loop"
        /\ UNCHANGED <<vol, cacheStatus, cachedBlock, cache, loc, count, xfer>>
    BY <1>12, Zenon DEF Copy
  <2>2. pc = "copy"
    BY <1>12 DEF Copy
  <2>3. /\ Chunk \in Nat /\ CurOffset + Chunk <= BlockSize
        /\ progress + Chunk \in Nat
    BY <1>1, <1>2, <1>4, <2>2 DEF Chunk
  <2>4. \A i \in 0 .. (count - 1) :
           progress <= i /\ i < progress + Chunk
              => CurOffset + (i - progress) \in CacheIdx
    BY <1>1, <1>2, <2>3 DEF CacheIdx
  <2>5. buf' \in [0 .. (count - 1) -> Unit]
    BY <1>3, <2>1, <2>4
  <2>6. QED
    BY <1>0, <2>1, <2>3, <2>5, Zenon DEF DataOK
<1>13. CASE UNCHANGED vars
  BY <1>0, <1>13, Zenon DEF vars, DataOK
<1>14. QED
  BY <1>5, <1>6, <1>7, <1>8, <1>9, <1>10, <1>11, <1>12, <1>13
     DEF Next, Internal, DiskRead

LEMMA TypeStep == TypeInv /\ [Next]_vars => TypeInv'
BY DataStep, OkBoolean DEF TypeInv

(* Type correctness of the volume reader: whatever the geometry and        *)
(* whatever the disk answers, volume_read() keeps its cache one block of   *)
(* units, its buffer count units long, and its retry counter in range.    *)
THEOREM TypeCorrect == Spec => []TypeOK
<1>1. Init => TypeInv
  BY TypeInit
<1>2. TypeInv /\ [Next]_vars => TypeInv'
  BY TypeStep
<1>3. TypeInv => TypeOK
  BY DEF TypeInv, DataOK, TypeOK
<1>4. QED
  BY <1>1, <1>2, <1>3, PTL DEF Spec

-----------------------------------------------------------------------------
(* Cache coherence.  It is not inductive on its own: a failed read inside  *)
(* the retry loop may scribble over the cache, and a short successful read *)
(* fills only the head of the block.  Two facts about the retry loop make  *)
(* it inductive: the cache is NOT_READY while the loop runs, and the loop  *)
(* asks for fewer than fastest_xfer_size sectors only after the longer     *)
(* read ran past the end of the disk (on a disk without transient errors   *)
(* that is the only reason disk_read_sectors() fails in range).            *)
RetryInv ==
    /\ pc = "disk" => cacheStatus = "NOT_READY"
    /\ pc = "disk" /\ xfer < vol.xfer =>
          ReadSector(CurBlock) + xfer + 1 > vol.disk

CohInv == DataOK /\ CacheCoherent /\ RetryInv

(* The arithmetic of a short read: if the first x of vx sectors of a block *)
(* at sector rs were read, and x sectors reach the end d of the disk       *)
(* exactly, every unit past the first x sectors lies beyond the disk.      *)
LEMMA FillTail ==
    ASSUME NEW rs \in Nat, NEW x \in Nat, NEW vx \in Nat, NEW s \in Nat \ {0},
           NEW d \in Nat, NEW i \in Nat,
           x * s <= i, i < vx * s, rs + x <= d, x < vx => rs + x + 1 > d
    PROVE  rs * s + i >= d * s
<1>1. x < vx
  <2>1. SUFFICES ASSUME x >= vx PROVE FALSE
    OBVIOUS
  <2>2. x * s >= vx * s
    BY <2>1
  <2>3. QED
    BY <2>2
<1>2. rs + x = d
  BY <1>1
<1>3. d * s = rs * s + x * s
  BY <1>2
<1>4. QED
  BY <1>3

LEMMA CohInit == Init => CacheCoherent /\ RetryInv
BY Zenon DEF Init, CacheCoherent, RetryInv

LEMMA CohStep ==
    ASSUME ~Transient, DataOK, CacheCoherent, RetryInv, [Next]_vars
    PROVE  CacheCoherent' /\ RetryInv'
<1>1. /\ vol \in Volumes
      /\ loc \in Nat /\ progress \in Nat
      /\ xfer \in Nat /\ xfer <= vol.xfer
  BY DEF DataOK
<1>2. /\ vol.xfer \in Nat \ {0} /\ vol.ssize \in Nat \ {0} /\ vol.disk \in Nat
      /\ CurBlock \in Nat
      /\ ReadSector(CurBlock) \in Nat
  BY <1>1, GeometryFacts, PositionFacts
(* Steps that leave the cache alone and do not enter the retry loop.     *)
<1>3. ASSUME pc' # "disk",
             UNCHANGED <<vol, cacheStatus, cachedBlock, cache>>
      PROVE  CacheCoherent' /\ RetryInv'
  BY <1>3, Zenon DEF CacheCoherent, RetryInv, CacheIdx, BlockSize, Addr,
                     ReadSector, DiskEnd
<1>4. ASSUME NEW l, NEW c, Call(l, c) PROVE CacheCoherent' /\ RetryInv'
  BY <1>3, <1>4, Zenon DEF Call
<1>5. CASE Check \/ Finish \/ CacheHit \/ DiskNoMedia \/ Copy
  <2>1. pc' # "disk" /\ UNCHANGED <<vol, cacheStatus, cachedBlock, cache>>
    BY <1>5, Zenon DEF Check, Finish, CacheHit, DiskNoMedia, Copy, Return
  <2>2. QED
    BY <1>3, <2>1
<1>6. CASE CacheMiss
  <2>1. /\ cacheStatus' = "NOT_READY" /\ vol' = vol
        /\ pc' = "idle" \/ (pc' = "disk" /\ xfer' = vol.xfer)
    BY <1>6, Zenon DEF CacheMiss, Return
  <2>2. pc' = "disk" => ~(xfer' < vol'.xfer)
    BY <1>2, <2>1
  <2>3. QED
    BY <2>1, <2>2, Zenon DEF CacheCoherent, RetryInv
<1>7. CASE DiskFailure
  <2>1. /\ pc = "disk" /\ xfer' = xfer - 1
        /\ "FAILURE" \in DiskOutcomes(ReadSector(CurBlock), xfer)
        /\ UNCHANGED <<vol, cacheStatus, loc, progress>>
    BY <1>7, Zenon DEF DiskFailure, DiskOutcome
  <2>2. ReadSector(CurBlock)' = ReadSector(CurBlock)
    BY <2>1, Zenon DEF ReadSector, CurBlock, BlockSize
  <2>3. ~(ReadSector(CurBlock) + xfer <= vol.disk)
    BY <2>1, Zenon DEF DiskOutcomes
  <2>4. ReadSector(CurBlock) + (xfer - 1) + 1 > vol.disk
    BY <1>1, <1>2, <2>3
  <2>5. cacheStatus' = "NOT_READY"
    BY <2>1, Zenon DEF RetryInv
  <2>6. QED
    BY <2>1, <2>2, <2>4, <2>5, Zenon DEF CacheCoherent, RetryInv
<1>8. CASE DiskSuccess
  <2>1. /\ pc = "disk" /\ pc' = "copy"
        /\ cache' = Fill(CurBlock, xfer)
        /\ cacheStatus' = "READY" /\ cachedBlock' = CurBlock
        /\ "SUCCESS" \in DiskOutcomes(ReadSector(CurBlock), xfer)
        /\ vol' = vol
    BY <1>8, Zenon DEF DiskSuccess, DiskOutcome
  <2>2. ReadSector(CurBlock) + xfer <= vol.disk
    BY <2>1, Zenon DEF DiskOutcomes
  <2>3. xfer < vol.xfer => ReadSector(CurBlock) + xfer + 1 > vol.disk
    BY <2>1, Zenon DEF RetryInv
  <2>4. \A i \in CacheIdx :
           Addr(CurBlock, i) < DiskEnd =>
              Fill(CurBlock, xfer)[i] = Addr(CurBlock, i)
    <3>1. SUFFICES ASSUME NEW i \in CacheIdx, Addr(CurBlock, i) < DiskEnd
                   PROVE  Fill(CurBlock, xfer)[i] = Addr(CurBlock, i)
      OBVIOUS
    <3>2. i \in Nat /\ i < vol.xfer * vol.ssize
      BY <1>2 DEF CacheIdx, BlockSize
    <3>3. ~(xfer * vol.ssize <= i)
      <4>1. SUFFICES ASSUME xfer * vol.ssize <= i PROVE FALSE
        OBVIOUS
      <4>2. ReadSector(CurBlock) * vol.ssize + i >= vol.disk * vol.ssize
        BY <1>1, <1>2, <2>2, <2>3, <3>2, <4>1, FillTail
      <4>3. QED
        BY <1>2, <3>1, <3>2, <4>2 DEF Addr, DiskEnd
    <3>4. i < xfer * vol.ssize
      BY <1>1, <1>2, <3>2, <3>3
    <3>5. QED
      BY <3>1, <3>4 DEF Fill
  <2>5. QED
    BY <2>1, <2>4, Zenon DEF CacheCoherent, RetryInv, CacheIdx, BlockSize,
                             Addr, ReadSector, DiskEnd
<1>9. CASE UNCHANGED vars
  <2>1. UNCHANGED <<vol, cacheStatus, cachedBlock, cache, pc, loc, progress, xfer>>
    BY <1>9 DEF vars
  <2>2. QED
    BY <2>1, Zenon DEF CacheCoherent, RetryInv, CacheIdx, BlockSize, Addr,
                       ReadSector, DiskEnd, CurBlock
<1>10. QED
  BY <1>4, <1>5, <1>6, <1>7, <1>8, <1>9 DEF Next, Internal, DiskRead

(* Cache coherence of cache_block() and volume_read(), for every volume    *)
(* geometry, on a disk whose reads fail only past its end or for want of   *)
(* a medium: whenever the cache is marked READY it holds the units of the  *)
(* cached block, even after the retry loop read only part of it.           *)
THEOREM CacheCoherence == ASSUME ~Transient PROVE Spec => []CacheCoherent
<1>1. Init => CohInv
  BY TypeInit, CohInit DEF TypeInv, CohInv
<1>2. CohInv /\ [Next]_vars => CohInv'
  BY DataStep, CohStep DEF CohInv
<1>3. QED
  BY <1>1, <1>2, PTL DEF Spec, CohInv

=============
