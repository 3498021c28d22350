---------------------------- MODULE VolumeCache ----------------------------
(***************************************************************************)
(* The volume byte reader and its one-block read cache: volume_read() and  *)
(* cache_block() of the partition layer (src/unnamed/part_001).            *)
(*                                                                         *)
(* Unit of length.  One unit stands for 512 bytes: first_sect and          *)
(* sect_count are already in 512-byte units in the code, sector_size is    *)
(* modelled as sector_size / 512, and the caller's loc and count are in    *)
(* the same unit.  All arithmetic of volume_read divides by a multiple of  *)
(* 512, so the pattern of blocks, hits, misses and chunks is the one of    *)
(* the byte-level code.                                                    *)
(*                                                                         *)
(* Data.  The unit at disk address a holds the value a, so a value in the *)
(* cache or in the caller's buffer names the disk address it came from,   *)
(* and a stale or misplaced unit cannot go unnoticed.  Garbage is any      *)
(* content that did not come from the unit being read.                     *)
(***************************************************************************)
EXTENDS Integers

CONSTANTS
    Volumes,     \* the volume geometries the reader may be handed
    Transient,   \* may disk_read_sectors fail on a range that is on disk?
    MaxLoc,      \* bound on the caller's loc
    MaxCount,    \* bound on the caller's count
    Garbage      \* content that is no unit of the disk

(* A volume: first_sect, sect_count (-1: unknown, the whole disk),         *)
(* sector_size / 512, fastest_xfer_size, is_optical, and the size of the   *)
(* disk under it in native sectors.                                        *)
Geometry == [first : Nat, count : Nat \cup {-1}, ssize : Nat \ {0},
             xfer : Nat \ {0}, optical : BOOLEAN, disk : Nat]

ASSUME VolumesAssumption == Volumes \subseteq Geometry /\ Volumes # {}
ASSUME TransientAssumption == Transient \in BOOLEAN
ASSUME BoundsAssumption == MaxLoc \in Nat /\ MaxCount \in Nat
ASSUME GarbageAssumption == Garbage \notin Nat

VARIABLES
    vol,          \* the volume being read (fixed once chosen)
    cacheStatus,  \* volume->cache_status
    cachedBlock,  \* volume->cached_block
    cache,        \* volume->cache, one block of units
    pc,           \* where the current volume_read call is
    loc,          \* volume_read's loc
    count,        \* volume_read's count
    progress,     \* volume_read's progress
    xfer,         \* cache_block's xfer_size in the retry loop
    buf,          \* the caller's buffer
    ok            \* the value the last volume_read call returned

vars == <<vol, cacheStatus, cachedBlock, cache, pc, loc, count, progress,
          xfer, buf, ok>>

Unit == Nat \cup {Garbage}

(* block_size: the cache holds fastest_xfer_size native sectors.            *)
BlockSize == vol.xfer * vol.ssize
CacheIdx == 0 .. (BlockSize - 1)

(* The disk ends after disk native sectors.                                *)
DiskEnd == vol.disk * vol.ssize

(* The native sector cache_block() reads block b from (read_sector).       *)
ReadSector(b) == vol.first \div vol.ssize + b * vol.xfer

(* The disk address that index i of the cache holds for block b.          *)
Addr(b, i) == ReadSector(b) * vol.ssize + i

(* The block and the offset in it of the next unit volume_read() copies.   *)
CurBlock == (loc + progress) \div BlockSize
CurOffset == (loc + progress) % BlockSize

(* The outcomes disk_read_sectors() may give for n native sectors at lba: *)
(* a range past the end of the disk fails, an optical drive may have no    *)
(* medium, and a flaky device may fail where the disk has data.           *)
DiskOutcomes(lba, n) ==
    (IF lba + n <= vol.disk
     THEN {"SUCCESS"} \cup (IF Transient THEN {"FAILURE"} ELSE {})
     ELSE {"FAILURE"})
    \cup (IF vol.optical THEN {"NO_MEDIA"} ELSE {})

(* A successful read of n native sectors for block b into the cache.     *)
Fill(b, n) == [i \in CacheIdx |-> IF i < n * vol.ssize THEN Addr(b, i)
                                                       ELSE cache[i]]

(* A failed read may have written part of the buffer: model it as the     *)
(* first n sectors of the cache no longer holding anything usable.        *)
Clobber(n) == [i \in CacheIdx |-> IF i < n * vol.ssize THEN Garbage
                                                        ELSE cache[i]]

Init ==
    /\ vol \in Volumes
    /\ cacheStatus = "NOT_READY"
    /\ cachedBlock = 0
    /\ cache = [i \in CacheIdx |-> Garbage]
    /\ pc = "idle"
    /\ loc = 0
    /\ count = 0
    /\ progress = 0
    /\ xfer = 0
    /\ buf = [i \in {} |-> Garbage]
    /\ ok = FALSE

(* volume_read() returns to its caller with result r.                      *)
Return(r) == pc' = "idle" /\ ok' = r

-----------------------------------------------------------------------------
(* The caller calls volume_read(vol, buf, l, c).                           *)
Call(l, c) ==
    /\ pc = "idle"
    /\ pc' = "check"
    /\ loc' = l
    /\ count' = c
    /\ buf' = [i \in 0 .. (c - 1) |-> Garbage]
    /\ UNCHANGED <<vol, cacheStatus, cachedBlock, cache, progress, xfer, ok>>

(* The range check against the volume's known size.  part_size is         *)
(* sect_count * sector_size, computed as the code does.                   *)
PartSize == vol.count * vol.ssize

Check ==
    /\ pc = "check"
    /\ IF vol.count # -1 /\ (loc >= PartSize \/ count > PartSize - loc)
       THEN Return(FALSE) /\ UNCHANGED progress
       ELSE pc' = "loop" /\ progress' = 0 /\ UNCHANGED ok
    /\ UNCHANGED <<vol, cacheStatus, cachedBlock, cache, loc, count, xfer, buf>>

(* The while loop of volume_read() is done: the whole range was copied.    *)
Finish ==
    /\ pc = "loop"
    /\ progress >= count
    /\ Return(TRUE)
    /\ UNCHANGED <<vol, cacheStatus, cachedBlock, cache, loc, count,
                   progress, xfer, buf>>

(* Mutation of CacheHit: any READY cache is taken for the block.           *)
CacheHitAnyBlock ==
    /\ pc = "loop"
    /\ progress < count
    /\ cacheStatus = "READY"
    /\ pc' = "copy"
    /\ UNCHANGED <<vol, cacheStatus, cachedBlock, cache, loc, count,
                   progress, xfer, buf, ok>>

(* cache_block() finds the block in the cache.                             *)
CacheHit ==
    /\ pc = "loop"
    /\ progress < count
    /\ cacheStatus = "READY" /\ CurBlock = cachedBlock
    /\ pc' = "copy"
    /\ UNCHANGED <<vol, cacheStatus, cachedBlock, cache, loc, count,
                   progress, xfer, buf, ok>>

(* Mutation of CacheMiss: cache_status is left READY during the refill.   *)
CacheMissKeepStatus ==
    /\ pc = "loop"
    /\ progress < count
    /\ ~(cacheStatus = "READY" /\ CurBlock = cachedBlock)
    /\ IF vol.first % vol.ssize # 0
       THEN Return(FALSE) /\ UNCHANGED xfer
       ELSE pc' = "disk" /\ xfer' = vol.xfer /\ UNCHANGED ok
    /\ UNCHANGED <<vol, cacheStatus, cachedBlock, cache, loc, count,
                   progress, buf>>

(* cache_block() misses: it drops the cache, refuses a partition that does *)
(* not start on a native sector, and otherwise starts the retry loop with  *)
(* the full transfer size.                                                 *)
CacheMiss ==
    /\ pc = "loop"
    /\ progress < count
    /\ ~(cacheStatus = "READY" /\ CurBlock = cachedBlock)
    /\ cacheStatus' = "NOT_READY"
    /\ IF vol.first % vol.ssize # 0
       THEN Return(FALSE) /\ UNCHANGED xfer
       ELSE pc' = "disk" /\ xfer' = vol.xfer /\ UNCHANGED ok
    /\ UNCHANGED <<vol, cachedBlock, cache, loc, count, progress, buf>>

(* One disk_read_sectors() call of the retry loop, by its outcome.        *)
DiskOutcome(r) == pc = "disk" /\ r \in DiskOutcomes(ReadSector(CurBlock), xfer)

(* The read succeeded: the block is cached, though perhaps only its first  *)
(* xfer sectors were read.                                                 *)
DiskSuccess ==
    /\ DiskOutcome("SUCCESS")
    /\ cache' = Fill(CurBlock, xfer)
    /\ cacheStatus' = "READY"
    /\ cachedBlock' = CurBlock
    /\ pc' = "copy"
    /\ UNCHANGED <<vol, loc, count, progress, xfer, buf, ok>>

(* No medium: cache_block() and volume_read() give up at once.             *)
DiskNoMedia ==
    /\ DiskOutcome("NO_MEDIA")
    /\ Return(FALSE)
    /\ UNCHANGED <<vol, cacheStatus, cachedBlock, cache, loc, count,
                   progress, xfer, buf>>

(* Mutations of DiskFailure: a loop that never shrinks the transfer, and   *)
(* one that does not stop at zero sectors.                                 *)
DiskFailureNoShrink ==
    /\ DiskOutcome("FAILURE")
    /\ cache' \in {cache, Clobber(xfer)}
    /\ pc' = "disk"
    /\ UNCHANGED <<vol, cacheStatus, cachedBlock, loc, count, progress,
                   xfer, buf, ok>>
DiskFailureNoStop ==
    /\ DiskOutcome("FAILURE")
    /\ cache' \in {cache, Clobber(xfer)}
    /\ xfer' = xfer - 1
    /\ pc' = "disk"
    /\ UNCHANGED <<vol, cacheStatus, cachedBlock, loc, count, progress,
                   buf, ok>>

(* Any other failure: retry with one sector less, give up at zero.        *)
DiskFailure ==
    /\ DiskOutcome("FAILURE")
    /\ cache' \in {cache, Clobber(xfer)}
    /\ xfer' = xfer - 1
    /\ IF xfer - 1 = 0 THEN Return(FALSE)
                       ELSE pc' = "disk" /\ UNCHANGED ok
    /\ UNCHANGED <<vol, cacheStatus, cachedBlock, loc, count, progress, buf>>

DiskRead == DiskSuccess \/ DiskNoMedia \/ DiskFailure

(* The memcpy of one chunk out of the cached block, clamped to the block.  *)
Chunk == IF count - progress > BlockSize - CurOffset
         THEN BlockSize - CurOffset ELSE count - progress

Copy ==
    /\ pc = "copy"
    /\ buf' = [i \in DOMAIN buf |->
                 IF progress <= i /\ i < progress + Chunk
                 THEN cache[CurOffset + (i - progress)] ELSE buf[i]]
    /\ progress' = progress + Chunk
    /\ pc' = "loop"
    /\ UNCHANGED <<vol, cacheStatus, cachedBlock, cache, loc, count, xfer, ok>>

(* Everything volume_read() does once it has been called.                  *)
Internal == Check \/ Finish \/ CacheHit \/ CacheMiss \/ DiskRead \/ Copy

Next ==
    \/ \E l \in 0 .. MaxLoc, c \in 0 .. MaxCount : Call(l, c)
    \/ Internal

(* volume_read() runs to completion: it is synchronous and                *)
(* disk_read_sectors() returns.  The caller need not call again.           *)
Spec == Init /\ [][Next]_vars /\ WF_vars(Internal)

-----------------------------------------------------------------------------
(* Type invariant.                                                         *)
TypeOK ==
    /\ vol \in Volumes
    /\ cacheStatus \in {"NOT_READY", "READY"}
    /\ cachedBlock \in Nat
    /\ cache \in [CacheIdx -> Unit]
    /\ pc \in {"idle", "check", "loop", "disk", "copy"}
    /\ loc \in Nat
    /\ count \in Nat
    /\ progress \in Nat
    /\ xfer \in 0 .. vol.xfer
    /\ buf \in [0 .. (count - 1) -> Unit]
    /\ ok \in BOOLEAN

(* Cache coherence (cache_block, volume_read): whenever cache_status is    *)
(* READY, every unit of the cached block that the disk has is the unit of *)
(* that block, even after a retry that read fewer sectors than a block or *)
(* a failed read that scribbled over the buffer.                          *)
CacheCoherent ==
    cacheStatus = "READY" =>
        \A i \in CacheIdx :
            Addr(cachedBlock, i) < DiskEnd => cache[i] = Addr(cachedBlock, i)

(* Cache transparency (volume_read): every call either fails or fills the  *)
(* caller's buffer with exactly the volume's units loc .. loc + count - 1, *)
(* as the cache-less VolumeRead specification allows.                     *)
Abstract == INSTANCE VolumeRead
    WITH rpc <- IF pc = "idle" THEN "idle" ELSE "busy",
         rloc <- loc,
         rcount <- count,
         rok <- ok,
         rdata <- IF pc = "idle" THEN buf ELSE [i \in {} |-> Garbage]

ReadTransparent == Abstract!ASpec

(* Termination (volume_read, cache_block's retry loop): every call returns *)
(* to its caller.                                                          *)
CallReturns == (pc # "idle") ~> (pc = "idle")

(* Bounds (volume_read): a successful call never reads past the end of the *)
(* volume, whose length is sect_count units of 512 bytes.                 *)
ReadWithinVolume ==
    (pc = "idle" /\ ok /\ vol.count # -1) => loc + count <= vol.count

=============================================================================
