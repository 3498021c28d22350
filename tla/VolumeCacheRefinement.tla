------------------------ MODULE VolumeCacheRefinement ------------------------
(***************************************************************************)
(* volume_read() with its cache implements the cache-less VolumeRead       *)
(* specification (ReadTransparent), for every volume geometry, on a disk   *)
(* whose reads fail only past its end or for want of a medium, when every  *)
(* unit that volume_read()'s range check admits is on the disk.           *)
(***************************************************************************)
EXTENDS VolumeCacheProofs

(* The range check of volume_read() (lines 77-85) admits only units of     *)
(* the disk: the size is known and first_sect + sect_count * sector_size   *)
(* (in 512-byte units) does not pass the disk's end.  A volume of unknown *)
(* size, or a table entry that runs past the disk, lets a read reach the   *)
(* last block of the disk; the retry loop reads only the sectors the disk  *)
(* has and the copy hands out the rest of the cache as data.              *)
VolumesOnDisk ==
    \A v \in Volumes : v.count # -1 /\ v.first + v.count * v.ssize <= v.disk * v.ssize

(* The range of the call is on the disk and the units copied so far are  *)
(* the volume's.                                                           *)
Copied ==
    /\ progress <= count
    /\ vol.first + loc + count <= DiskEnd
    /\ \A j \in 0 .. (progress - 1) : buf[j] = vol.first + loc + j

(* What a call in progress has done so far.  Only a partition starting on *)
(* a native sector gets to the disk or a READY cache, and the copy runs   *)
(* on the block it asked for.                                              *)
BufInv ==
    /\ pc = "disk" => vol.first % vol.ssize = 0
    /\ cacheStatus = "READY" => vol.first % vol.ssize = 0
    /\ pc = "copy" => cacheStatus = "READY" /\ cachedBlock = CurBlock
    /\ pc \in {"loop", "disk", "copy"} => Copied

TransInv == CohInv /\ ok \in BOOLEAN /\ BufInv

-----------------------------------------------------------------------------
(* Division with remainder by a positive divisor.                          *)
LEMMA DivMod ==
    ASSUME NEW f \in Nat, NEW d \in Nat \ {0}
    PROVE  f % d = f - (f \div d) * d
  OBVIOUS

(* The arithmetic of the copy (lines 91-99): on a partition that starts on *)
(* a native sector, index offset + j of the cache of block                 *)
(* (loc + progress) / block_size holds disk address                        *)
(* first_sect + loc + progress + j.                                        *)
LEMMA BlockAddr ==
    ASSUME vol \in Volumes, vol.first % vol.ssize = 0, loc \in Nat,
           progress \in Nat, NEW j \in Nat
    PROVE  Addr(CurBlock, CurOffset + j) = vol.first + loc + progress + j
<1> DEFINE s == vol.ssize
           p == loc + progress
<1>1. /\ vol.first \in Nat /\ s \in Nat \ {0} /\ vol.xfer \in Nat \ {0}
      /\ BlockSize = vol.xfer * s /\ BlockSize \in Nat \ {0}
      /\ CurBlock \in Nat /\ CurOffset \in Nat /\ p \in Nat
      /\ vol.first \div s \in Nat
  <2>1. vol.first \in Nat /\ s \in Nat \ {0} /\ vol.xfer \in Nat \ {0}
        /\ BlockSize \in Nat \ {0}
    BY GeometryFacts DEF s
  <2>2. BlockSize = vol.xfer * s
    BY DEF BlockSize, s
  <2>3. CurBlock \in Nat /\ CurOffset \in 0 .. (BlockSize - 1)
    BY PositionFacts
  <2>4. p \in Nat /\ vol.first \div s \in Nat
    BY <2>1 DEF p
  <2>5. QED
    BY <2>1, <2>2, <2>3, <2>4
<1>2. (vol.first \div s) * s = vol.first
  <2>1. vol.first % s = vol.first - (vol.first \div s) * s
    BY <1>1, DivMod
  <2>2. QED
    BY <1>1, <2>1 DEF s
<1>3. CurBlock * BlockSize + CurOffset = p
  <2>1. p % BlockSize = p - (p \div BlockSize) * BlockSize
    BY <1>1, DivMod
  <2>2. QED
    BY <1>1, <2>1 DEF CurBlock, CurOffset
<1>4. ReadSector(CurBlock) * s = (vol.first \div s) * s + CurBlock * BlockSize
  BY <1>1 DEF ReadSector, s
<1>5. Addr(CurBlock, CurOffset + j) = ReadSector(CurBlock) * s + (CurOffset + j)
  BY DEF Addr, s
<1>6. QED
  BY <1>1, <1>2, <1>3, <1>4, <1>5 DEF p

LEMMA BufInit == Init => BufInv
  BY DEF Init, BufInv

(* A step that moves neither the range, the progress nor the buffer keeps *)
(* what was copied.                                                        *)
LEMMA CopiedFrame ==
    ASSUME Copied, UNCHANGED <<vol, loc, count, progress, buf>>
    PROVE  Copied'
  BY DEF Copied, DiskEnd

(* The range check (lines 77-85) lets a call into the loop only with its  *)
(* range on the disk.                                                      *)
LEMMA CheckRange ==
    ASSUME VolumesOnDisk, vol \in Volumes, loc \in Nat, count \in Nat,
           ~(vol.count # -1 /\ (loc >= PartSize \/ count > PartSize - loc))
    PROVE  vol.first + loc + count <= DiskEnd
<1>1. vol.count # -1 /\ vol.first + vol.count * vol.ssize <= vol.disk * vol.ssize
  BY DEF VolumesOnDisk
<1>2. vol.count \in Nat /\ vol.first \in Nat /\ vol.ssize \in Nat /\ vol.disk \in Nat
  BY <1>1, GeometryFacts
<1>3. loc + count <= vol.count * vol.ssize
  BY <1>1, <1>2 DEF PartSize
<1>4. QED
  BY <1>1, <1>2, <1>3 DEF DiskEnd

(* The copy of lines 96-100: the chunk is the volume's units.             *)
LEMMA CopyStep ==
    ASSUME CohInv, BufInv, Copy
    PROVE  BufInv'
<1>1. /\ pc = "copy" /\ pc' = "loop"
      /\ buf' = [i \in DOMAIN buf |->
                   IF progress <= i /\ i < progress + Chunk
                   THEN cache[CurOffset + (i - progress)] ELSE buf[i]]
      /\ progress' = progress + Chunk
      /\ UNCHANGED <<vol, cacheStatus, cachedBlock, cache, loc, count>>
  BY DEF Copy
<1>2. /\ vol \in Volumes /\ loc \in Nat /\ count \in Nat /\ progress \in Nat
      /\ progress < count /\ DOMAIN buf = 0 .. (count - 1)
  BY <1>1 DEF CohInv, DataOK
<1>3. /\ cacheStatus = "READY" /\ cachedBlock = CurBlock
      /\ vol.first % vol.ssize = 0 /\ Copied
  BY <1>1 DEF BufInv
<1>4. /\ BlockSize \in Nat \ {0} /\ CurBlock \in Nat
      /\ CurOffset \in 0 .. (BlockSize - 1) /\ DiskEnd \in Nat /\ vol.first \in Nat
  BY <1>2, GeometryFacts, PositionFacts
<1>5. Chunk \in 1 .. (count - progress) /\ CurOffset + Chunk <= BlockSize
  BY <1>2, <1>4 DEF Chunk
<1>6. \A i \in CacheIdx : Addr(CurBlock, i) < DiskEnd => cache[i] = Addr(CurBlock, i)
  BY <1>3 DEF CacheCoherent, CohInv
<1>7. ASSUME NEW j \in 0 .. (progress + Chunk - 1)
      PROVE  buf'[j] = vol.first + loc + j
  <2>1. j \in DOMAIN buf
    BY <1>2, <1>5
  <2>2. CASE j < progress
    <3>1. buf'[j] = buf[j]
      BY <1>1, <1>2, <1>5, <2>1, <2>2
    <3>2. QED
      BY <1>2, <1>3, <2>2, <3>1 DEF Copied
  <2>3. CASE ~(j < progress)
    <3> DEFINE idx == CurOffset + (j - progress)
    <3>1. buf'[j] = cache[idx]
      BY <1>1, <1>2, <1>5, <2>1, <2>3 DEF idx
    <3>2. idx \in CacheIdx
      BY <1>2, <1>4, <1>5, <2>3 DEF idx, CacheIdx
    <3>3. Addr(CurBlock, idx) = vol.first + loc + j
      <4>1. j - progress \in Nat
        BY <1>2, <2>3
      <4>2. Addr(CurBlock, CurOffset + (j - progress))
              = vol.first + loc + progress + (j - progress)
        BY <1>2, <1>3, <4>1, BlockAddr
      <4>3. QED
        BY <1>2, <1>4, <4>2 DEF idx
    <3>4. vol.first + loc + j < DiskEnd
      BY <1>2, <1>3, <1>4, <1>5 DEF Copied
    <3>5. QED
      BY <1>6, <3>1, <3>2, <3>3, <3>4
  <2>4. QED
    BY <2>2, <2>3
<1>8. Copied'
  <2>1. progress' <= count'
    BY <1>1, <1>2, <1>5
  <2>2. vol'.first + loc' + count' <= DiskEnd'
    BY <1>1, <1>3 DEF Copied, DiskEnd
  <2>3. ASSUME NEW j \in 0 .. (progress' - 1)
        PROVE  buf'[j] = vol'.first + loc' + j
    <3>1. j \in 0 .. (progress + Chunk - 1)
      BY <1>1, <1>2, <1>5
    <3>2. buf'[j] = vol.first + loc + j
      BY <3>1, <1>7
    <3>3. vol' = vol /\ loc' = loc
      BY <1>1
    <3>4. QED
      BY <3>2, <3>3
  <2>4. QED
    BY <2>1, <2>2, <2>3, Zenon DEF Copied
<1>9. QED
  BY <1>1, <1>3, <1>8 DEF BufInv

(* Every step keeps BufInv.                                                *)
LEMMA BufStep ==
    ASSUME VolumesOnDisk, CohInv, BufInv, [Next]_vars
    PROVE  BufInv'
<1>1. /\ vol \in Volumes /\ loc \in Nat /\ count \in Nat /\ progress \in Nat
  BY DEF CohInv, DataOK
<1>2. ASSUME NEW l, NEW c, Call(l, c) PROVE BufInv'
  <2>1. pc' = "check" /\ UNCHANGED <<vol, cacheStatus>>
    BY <1>2 DEF Call
  <2>2. QED
    BY <2>1 DEF BufInv
<1>3. CASE Check
  <2>1. /\ UNCHANGED <<vol, cacheStatus, loc, count, buf>>
        /\ \/ pc' = "idle"
           \/ /\ pc' = "loop" /\ progress' = 0
              /\ ~(vol.count # -1 /\ (loc >= PartSize \/ count > PartSize - loc))
    BY <1>3 DEF Check, Return
  <2>2. pc' = "loop" => Copied'
    <3>1. pc' = "loop" => vol.first + loc + count <= DiskEnd
      BY <1>1, <2>1, CheckRange
    <3>2. QED
      BY <1>1, <2>1, <3>1 DEF Copied, DiskEnd
  <2>3. QED
    BY <2>1, <2>2 DEF BufInv
<1>4. CASE Finish \/ DiskNoMedia
  <2>1. pc' = "idle" /\ UNCHANGED <<vol, cacheStatus>>
    BY <1>4 DEF Finish, DiskNoMedia, Return
  <2>2. QED
    BY <2>1 DEF BufInv
<1>5. CASE CacheHit
  <2>1. /\ pc = "loop" /\ pc' = "copy"
        /\ cacheStatus = "READY" /\ CurBlock = cachedBlock
        /\ UNCHANGED <<vol, cacheStatus, cachedBlock, loc, count, progress, buf>>
    BY <1>5 DEF CacheHit
  <2>2. Copied' /\ CurBlock' = CurBlock
    BY <2>1, CopiedFrame DEF BufInv, CurBlock, BlockSize
  <2>3. QED
    BY <2>1, <2>2 DEF BufInv
<1>6. CASE CacheMiss
  <2>1. /\ pc = "loop" /\ cacheStatus' = "NOT_READY"
        /\ \/ pc' = "idle"
           \/ pc' = "disk" /\ vol.first % vol.ssize = 0
        /\ UNCHANGED <<vol, loc, count, progress, buf>>
    BY <1>6 DEF CacheMiss, Return
  <2>2. Copied'
    BY <2>1, CopiedFrame DEF BufInv
  <2>3. QED
    BY <2>1, <2>2 DEF BufInv
<1>7. CASE DiskSuccess
  <2>1. /\ pc = "disk" /\ pc' = "copy"
        /\ cacheStatus' = "READY" /\ cachedBlock' = CurBlock
        /\ UNCHANGED <<vol, loc, count, progress, buf>>
    BY <1>7 DEF DiskSuccess, DiskOutcome
  <2>2. Copied' /\ CurBlock' = CurBlock /\ vol.first % vol.ssize = 0
    BY <2>1, CopiedFrame DEF BufInv, CurBlock, BlockSize
  <2>3. QED
    BY <2>1, <2>2 DEF BufInv
<1>8. CASE DiskFailure
  <2>1. /\ pc = "disk" /\ pc' \in {"idle", "disk"}
        /\ UNCHANGED <<vol, cacheStatus, loc, count, progress, buf>>
    BY <1>8 DEF DiskFailure, DiskOutcome, Return
  <2>2. Copied' /\ vol.first % vol.ssize = 0
    BY <2>1, CopiedFrame DEF BufInv
  <2>3. QED
    BY <2>1, <2>2 DEF BufInv
<1>9. CASE Copy
  BY <1>9, CopyStep
<1>10. CASE UNCHANGED vars
  <2>1. UNCHANGED <<vol, cacheStatus, cachedBlock, pc, loc, count, progress, buf>>
    BY <1>10 DEF vars
  <2>2. Copied = Copied' /\ CurBlock' = CurBlock
    BY <2>1 DEF Copied, DiskEnd, CurBlock, BlockSize
  <2>3. QED
    BY <2>1, <2>2 DEF BufInv
<1>11. QED
  BY <1>2, <1>3, <1>4, <1>5, <1>6, <1>7, <1>8, <1>9, <1>10
  DEF Next, Internal, DiskRead

(* Every step keeps TransInv.                                              *)
LEMMA TransStep ==
    ASSUME ~Transient, VolumesOnDisk, TransInv, [Next]_vars
    PROVE  TransInv'
<1>1. DataOK' /\ ok' \in BOOLEAN
  BY DataStep, OkBoolean DEF TransInv, CohInv
<1>2. CacheCoherent' /\ RetryInv'
  BY CohStep DEF TransInv, CohInv
<1>3. BufInv'
  BY BufStep DEF TransInv
<1>4. QED
  BY <1>1, <1>2, <1>3 DEF TransInv, CohInv

-----------------------------------------------------------------------------
(* The refinement mapping of VolumeCache: a call is in progress (rpc =    *)
(* "busy") whenever pc is not "idle", and the caller sees its buffer only *)
(* once volume_read() returned.                                            *)

(* A step inside volume_read() that does not return is invisible to the   *)
(* caller.                                                                 *)
LEMMA InternalStutter ==
    ASSUME pc # "idle", pc' # "idle", UNCHANGED <<vol, loc, count, ok>>
    PROVE  UNCHANGED Abstract!avars
  BY DEF Abstract!avars

(* volume_read() returns false: the caller's buffer is whatever the call  *)
(* left in it.                                                             *)
LEMMA FailComplete ==
    ASSUME TransInv, pc # "idle", pc' = "idle", ok' = FALSE,
           UNCHANGED <<vol, loc, count, buf>>
    PROVE  Abstract!Complete
<1>1. buf \in [0 .. (count - 1) -> Nat \cup {Garbage}]
  BY DEF TransInv, CohInv, DataOK, Unit
<1>2. QED
  BY <1>1 DEF Abstract!Complete

(* volume_read() returns true (line 106): the loop copied count units,    *)
(* each the volume's and on the disk.                                      *)
LEMMA FinishComplete ==
    ASSUME TransInv, Finish
    PROVE  Abstract!Complete
<1>1. /\ pc = "loop" /\ progress >= count /\ pc' = "idle" /\ ok' = TRUE
      /\ UNCHANGED <<vol, loc, count, buf>>
  BY DEF Finish, Return
<1>2. /\ loc \in Nat /\ count \in Nat /\ progress \in Nat
      /\ buf \in [0 .. (count - 1) -> Nat \cup {Garbage}]
  BY DEF TransInv, CohInv, DataOK, Unit
<1>3. Copied
  BY <1>1 DEF TransInv, BufInv
<1>4. \A i \in 0 .. (count - 1) :
         /\ vol.first + (loc + i) < vol.disk * vol.ssize
         /\ buf[i] = vol.first + (loc + i)
  <2>1. vol.first \in Nat /\ DiskEnd \in Nat
    BY GeometryFacts DEF TransInv, CohInv, DataOK
  <2>2. QED
    BY <1>1, <1>2, <1>3, <2>1 DEF Copied, DiskEnd
<1>5. QED
  BY <1>1, <1>2, <1>4 DEF Abstract!Complete, Abstract!OnDisk, Abstract!VolumeUnit

(* Every step of volume_read() and its caller is a step of VolumeRead.    *)
LEMMA RefineStep ==
    ASSUME TransInv, [Next]_vars
    PROVE  [Abstract!ANext]_Abstract!avars
<1>1. ASSUME NEW l \in 0 .. MaxLoc, NEW c \in 0 .. MaxCount, Call(l, c)
      PROVE  Abstract!Request(l, c)
  BY <1>1 DEF Call, Abstract!Request, Abstract!NoData
<1>2. CASE \E l \in 0 .. MaxLoc, c \in 0 .. MaxCount : Call(l, c)
  BY <1>1, <1>2 DEF Abstract!ANext
<1>3. CASE Check
  <2>1. /\ pc = "check" /\ UNCHANGED <<vol, loc, count, buf>>
        /\ \/ pc' = "idle" /\ ok' = FALSE
           \/ pc' = "loop" /\ UNCHANGED ok
    BY <1>3 DEF Check, Return
  <2>2. QED
    BY <2>1, FailComplete, InternalStutter DEF Abstract!ANext
<1>4. CASE Finish
  BY <1>4, FinishComplete DEF Abstract!ANext
<1>5. CASE CacheHit \/ DiskSuccess \/ Copy
  <2>1. /\ pc \in {"loop", "disk", "copy"} /\ pc' \in {"copy", "loop"}
        /\ UNCHANGED <<vol, loc, count, ok>>
    BY <1>5 DEF CacheHit, DiskSuccess, DiskOutcome, Copy
  <2>2. QED
    BY <2>1, InternalStutter
<1>6. CASE CacheMiss
  <2>1. /\ pc = "loop" /\ UNCHANGED <<vol, loc, count, buf>>
        /\ \/ pc' = "idle" /\ ok' = FALSE
           \/ pc' = "disk" /\ UNCHANGED ok
    BY <1>6 DEF CacheMiss, Return
  <2>2. QED
    BY <2>1, FailComplete, InternalStutter DEF Abstract!ANext
<1>7. CASE DiskNoMedia
  <2>1. /\ pc = "disk" /\ pc' = "idle" /\ ok' = FALSE
        /\ UNCHANGED <<vol, loc, count, buf>>
    BY <1>7 DEF DiskNoMedia, DiskOutcome, Return
  <2>2. QED
    BY <2>1, FailComplete DEF Abstract!ANext
<1>8. CASE DiskFailure
  <2>1. /\ pc = "disk" /\ UNCHANGED <<vol, loc, count, buf>>
        /\ \/ pc' = "idle" /\ ok' = FALSE
           \/ pc' = "disk" /\ UNCHANGED ok
    BY <1>8 DEF DiskFailure, DiskOutcome, Return
  <2>2. QED
    BY <2>1, FailComplete, InternalStutter DEF Abstract!ANext
<1>9. CASE UNCHANGED vars
  BY <1>9 DEF vars, Abstract!avars
<1>10. QED
  BY <1>2, <1>3, <1>4, <1>5, <1>6, <1>7, <1>8, <1>9 DEF Next, Internal, DiskRead

(* Cache transparency of volume_read(), for every volume geometry and     *)
(* every bound on the requests, on a disk whose reads fail only past its  *)
(* end or for want of a medium, when the range check admits only units of *)
(* the disk: every call fails, or returns with the caller's buffer holding *)
(* exactly the volume's units loc .. loc + count - 1, as if there were no  *)
(* cache.                                                                  *)
THEOREM ReadTransparentCorrect ==
    ASSUME ~Transient, VolumesOnDisk
    PROVE  Spec => ReadTransparent
<1>1. Init => TransInv
  BY TypeInit, CohInit, BufInit DEF TransInv, CohInv, TypeInv
<1>2. TransInv /\ [Next]_vars => TransInv'
  BY TransStep
<1>3. Init => Abstract!AInit
  BY DEF Init, Abstract!AInit, Abstract!NoData
<1>4. TransInv /\ [Next]_vars => [Abstract!ANext]_Abstract!avars
  BY RefineStep
<1>5. Spec => []TransInv
  BY <1>1, <1>2, PTL DEF Spec
<1>6. []TransInv /\ [][Next]_vars => [][Abstract!ANext]_Abstract!avars
  BY <1>4, PTL
<1>7. QED
  BY <1>3, <1>5, <1>6, PTL DEF Spec, ReadTransparent, Abstract!ASpec

=============================================================================
