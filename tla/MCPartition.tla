---------------------------- MODULE MCPartition ----------------------------
(***************************************************************************)
(* Disk images for Partition.  With Word = 128 the GPT arithmetic wraps at *)
(* 128 (offsets in 128-byte quanta, LBAs in logical blocks), and with      *)
(* MaxLogical = 3 and MaxIndex = 7 index 7 reaches the limit on logical    *)
(* partitions.                                                             *)
(***************************************************************************)
EXTENDS Partition, TLC

(* The four primary entries, at indices 0 .. 3 as in the code.              *)
Prims(a, b, c, d) == [i \in 0 .. 3 |-> <<a, b, c, d>>[i + 1]]

Hdr(rev, n, esize, elba) == [rev |-> rev, n |-> n, esize |-> esize, elba |-> elba]
NoHdr == Hdr(FALSE, 0, 0, 0)
Ent(start, end) == [guid |-> TRUE, start |-> start, end |-> end]
Prim(type, first, count) == [type |-> type, first |-> first, count |-> count]
Empty == Prim("empty", 0, 0)
Ebr(ltype, lfirst, etype, efirst, ecount) ==
    [link |-> [type |-> ltype, first |-> lfirst],
     entry |-> Prim(etype, efirst, ecount)]
NoEbr == [s \in {} |-> Ebr("empty", 0, "empty", 0, 0)]
NoEnts == [q \in {} |-> Ent(0, 0)]
Image(disk, sig, hdr, ents, mbr, prim, ebrs) ==
    [disk |-> disk, sig |-> sig, hdr |-> hdr, ents |-> ents, mbr |-> mbr,
     prim |-> prim, ebr |-> ebrs]

(* A GPT of 512-byte blocks with three entries (a partition, an empty     *)
(* slot, a reversed range) behind a protective MBR.                        *)
GptSmall ==
    Image(12, {1}, Hdr(TRUE, 3, 1, 2),
          (8 :> Ent(4, 7)) @@ (10 :> Ent(9, 8)), TRUE,
          Prims(Prim("data", 1, 11), Empty, Empty, Empty), NoEbr)

(* A GPT of 4096-byte blocks, 256-byte entries: a partition, one whose    *)
(* size + 1 wraps, one whose first sector overflows, an empty slot, and   *)
(* one past the end of the disk.                                           *)
Gpt4K ==
    Image(18, {8}, Hdr(TRUE, 5, 2, 2),
          (64 :> Ent(1, 1)) @@ (66 :> Ent(0, 127)) @@ (68 :> Ent(16, 16)),
          FALSE, Prims(Empty, Empty, Empty, Empty), NoEbr)

(* A GPT whose entry array starts at quantum 124: entries 4 and on lie    *)
(* past 2^64, behind a protective MBR.                                     *)
GptOverflow ==
    Image(32, {1}, Hdr(TRUE, 8, 1, 31), (124 :> Ent(1, 30)), TRUE,
          Prims(Prim("data", 1, 31), Empty, Empty, Empty), NoEbr)

(* A GPT whose partition_entry_lba * lb_size overflows, behind a          *)
(* protective MBR.                                                         *)
GptHuge ==
    Image(32, {1}, Hdr(TRUE, 8, 1, 40), NoEnts, TRUE,
          Prims(Prim("data", 1, 31), Empty, Empty, Empty), NoEbr)

(* An MBR with a stale GPT header (bad revision): two primaries, one of   *)
(* them empty, an extended partition at 20 with a chain 0 -> 2 -> 3 -> 5, *)
(* and a zero-sized primary.  The logical partition in EBR 2 runs past   *)
(* the disk.                                                               *)
MbrChain ==
    Image(40, {8}, NoHdr, NoEnts, TRUE,
          Prims(Prim("data", 2, 8), Empty, Prim("ext", 20, 8), Prim("data", 30, 0)),
          (0 :> Ebr("ext", 2, "data", 1, 1)) @@ (2 :> Ebr("ext", 3, "data", 1, 20))
          @@ (3 :> Ebr("ext", 5, "empty", 0, 0)) @@ (5 :> Ebr("empty", 0, "data", 1, 2)))

(* An MBR behind a GPT header with entries too small, whose extended      *)
(* partition (the first one is zero-sized) holds a chain 0 -> 3 -> 3.     *)
MbrLoop ==
    Image(40, {1}, Hdr(TRUE, 8, 0, 2), NoEnts, TRUE,
          Prims(Prim("ext", 10, 0), Prim("ext", 10, 6), Empty, Empty),
          (0 :> Ebr("ext", 3, "data", 1, 1)) @@ (3 :> Ebr("ext", 3, "data", 2, 1)))

(* Extended partitions at the end of the disk, or with a chain that       *)
(* points back to its start or out of the partition.                      *)
MbrEdge ==
    Image(40, {}, NoHdr, NoEnts, TRUE,
          Prims(Prim("data", 1, 4), Prim("ext", 36, 8), Empty, Empty),
          (0 :> Ebr("ext", 5, "data", 1, 1)))
MbrZero ==
    Image(8, {}, NoHdr, NoEnts, TRUE,
          Prims(Prim("ext", 2, 4), Empty, Empty, Empty),
          (0 :> Ebr("ext", 0, "data", 1, 1)))
MbrOut ==
    Image(8, {}, NoHdr, NoEnts, TRUE,
          Prims(Prim("ext", 2, 4), Empty, Empty, Empty),
          (0 :> Ebr("ext", 6, "data", 1, 1)))

(* A disk too small for is_valid_mbr, and a superfloppy (a file system    *)
(* on the whole disk).                                                     *)
Tiny ==
    Image(2, {}, NoHdr, NoEnts, TRUE, Prims(Empty, Empty, Empty, Empty), NoEbr)
Superfloppy ==
    Image(40, {}, NoHdr, NoEnts, FALSE, Prims(Empty, Empty, Empty, Empty), NoEbr)

MCImages ==
    {GptSmall, Gpt4K, GptOverflow, GptHuge, MbrChain, MbrLoop, MbrEdge, MbrZero,
     MbrOut, Tiny, Superfloppy}
=============================================================================
