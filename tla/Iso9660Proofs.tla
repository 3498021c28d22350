--------------------------- MODULE Iso9660Proofs ---------------------------
(***************************************************************************)
(* Proofs about the ISO9660 driver: iso9660_open frees what it allocated  *)
(* on every path, and iso9660_close frees what open handed out; every     *)
(* variable keeps its type and iso9660_find's scan stays in its buffer.   *)
(***************************************************************************)
EXTENDS Iso9660, TLAPS

(* The steps of iso9660_open after ret is allocated.                       *)
OpenPcs == {"pvd", "root", "walk", "find", "descend", "count", "fill"}

(* NoLeak made inductive: during iso9660_open only ret is allocated and   *)
(* no handle is open, and the walk holds one directory buffer of its own  *)
(* exactly when it has left the cached root; during iso9660_read the      *)
(* handle is open with its two allocations.                                *)
LeakInv ==
    /\ DOMAIN op = DOMAIN OpIdle /\ op.first \in BOOLEAN /\ handle.open \in BOOLEAN
    /\ pc \in OpenPcs \cup {"idle", "read", "panic"}
    /\ pc = "idle" => ndir = 0 /\ live = IF handle.open THEN {"ret", "ext"} ELSE {}
    /\ pc \in OpenPcs =>
          /\ live = {"ret"} /\ ~handle.open
          /\ ndir = IF op.first THEN 0 ELSE 1
    /\ pc = "read" => handle.open /\ live = {"ret", "ext"} /\ ndir = 0

(* The extents of the walk and of the handle: LBA and size.              *)
ExtT == [lba : Nat, size : Nat]

(* TypeOK with what its steps rest on.  The locals of iso9660_open: the  *)
(* fields the walk computes with, the extent array empty before the      *)
(* second pass, the count below the cap during the first pass and the    *)
(* scan of iso9660_find within its buffer.                                *)
OpTOf(o, c) ==
    /\ o.fpos \in Nat /\ o.fsize \in Nat /\ o.cur \in ExtT
    /\ o.nsec \in Nat /\ o.nsize \in Nat /\ o.total \in Nat
    /\ o.cnt \in 0 .. MaxExtents /\ o.exts \in Seq(ExtT) /\ Len(o.exts) <= o.cnt
    /\ c # "fill" => o.exts = <<>>
    /\ c = "count" => o.cnt < MaxExtents
    /\ c = "find" => o.fpos + o.fsize = o.cur.size
OpT == OpTOf(op, pc)

(* The allocations and what open returned.                                *)
MemT == ctx \in BOOLEAN /\ live \subseteq {"ret", "ext"} /\ ndir \in Nat
        /\ res \in {"none", "null", "handle"}

(* The handle and the locals of iso9660_read.                             *)
HandleT == handle.exts \in Seq(ExtT) /\ handle.total \in Nat
RdT == /\ rd.ri \in Nat /\ rd.estart \in Nat /\ rd.loc \in Nat /\ rd.count \in Nat
       /\ rd.out \in Seq(Nat)

TypeInv == img \in Images /\ OpT /\ MemT /\ HandleT /\ RdT

-----------------------------------------------------------------------------
(* The walk frees its buffer with FreeCurrent: back to none of its own.    *)
LEMMA FreeNone ==
    ASSUME op.first \in BOOLEAN, ndir = IF op.first THEN 0 ELSE 1
    PROVE  FreeCurrent = 0
  BY DEF FreeCurrent

(* iso9660_open returns NULL, having freed ret and the walk's buffer.      *)
LEMMA NullReturn ==
    ASSUME LeakInv, pc \in OpenPcs, ReturnNull, ndir' = 0
    PROVE  LeakInv'
<1>1. live = {"ret"} /\ ~handle.open
  BY DEF LeakInv
<1>2. live' = {} /\ pc' = "idle" /\ op' = OpIdle /\ handle' = handle
  BY <1>1 DEF ReturnNull
<1>. QED
  BY <1>1, <1>2 DEF LeakInv, OpIdle, OpenPcs

(* iso9660_open returns a handle: ret and the extent array are allocated *)
(* and the walk's buffer is freed.                                         *)
LEMMA HandleReturn ==
    ASSUME LeakInv, pc \in OpenPcs, NEW a, NEW b, NEW c, SetupHandle(a, b, c), ndir' = 0
    PROVE  LeakInv'
<1>1. live = {"ret"}
  BY DEF LeakInv
<1>2. live' = {"ret", "ext"} /\ pc' = "idle" /\ op' = OpIdle /\ handle'.open = TRUE
  BY <1>1 DEF SetupHandle
<1>. QED
  BY <1>2 DEF LeakInv, OpIdle, OpenPcs

(* A step inside iso9660_open that neither returns nor allocates.          *)
LEMMA OpenStep ==
    ASSUME LeakInv, pc \in OpenPcs, pc' \in OpenPcs \cup {"panic"},
           UNCHANGED <<live, handle>>, DOMAIN op' = DOMAIN OpIdle, op'.first \in BOOLEAN,
           pc' \in OpenPcs => ndir' = IF op'.first THEN 0 ELSE 1
    PROVE  LeakInv'
  BY DEF LeakInv, OpenPcs

(* FindFails: iso9660_find returned NULL and open frees and returns NULL. *)
LEMMA FailStep ==
    ASSUME LeakInv, pc \in OpenPcs, FindFails
    PROVE  LeakInv'
<1>1. ndir' = 0
  BY FreeNone DEF FindFails, LeakInv
<1>. QED
  BY <1>1, NullReturn DEF FindFails

LEMMA InitLeak == Init => LeakInv
  BY DEF Init, LeakInv, OpIdle, NoHandle, OpenPcs

LEMMA OpenLeak ==
    ASSUME LeakInv, NEW p \in Paths, Open(p)
    PROVE  LeakInv'
<1>1. ndir = 0 /\ live = {} /\ ~handle.open /\ pc = "idle"
  BY DEF Open, LeakInv
<1>2. CASE ~img.cd
  BY <1>1, <1>2 DEF Open, LeakInv
<1>3. CASE img.cd
  <2>1. live' = {"ret"} /\ pc' \in {"walk", "pvd"} /\ ndir' = 0 /\ handle' = handle
    BY <1>1, <1>3 DEF Open
  <2>2. DOMAIN op' = DOMAIN OpIdle /\ op'.first = TRUE
    BY <1>3 DEF Open, OpIdle
  <2>. QED
    BY <1>1, <2>1, <2>2 DEF LeakInv, OpenPcs
<1>. QED
  BY <1>2, <1>3

LEMMA PvdLeak ==
    ASSUME LeakInv, PvdStep
    PROVE  LeakInv'
<1>1. op' = op \/ op' = [op EXCEPT !.dl = op.dl + 1]
  BY Zenon DEF PvdStep
<1>2. DOMAIN op' = DOMAIN OpIdle /\ op'.first = op.first
  BY <1>1 DEF LeakInv, OpIdle
<1>3. pc' \in {"panic", "root", "pvd"} /\ UNCHANGED <<live, handle, ndir>>
  BY Zenon DEF PvdStep
<1>. QED
  BY <1>2, <1>3, OpenStep DEF PvdStep, LeakInv, OpenPcs

LEMMA RootLeak ==
    ASSUME LeakInv, CacheRoot
    PROVE  LeakInv'
<1>1. pc' \in {"panic", "walk"} /\ UNCHANGED <<op, live, handle, ndir>>
  BY Zenon DEF CacheRoot
<1>. QED
  BY <1>1, OpenStep DEF CacheRoot, LeakInv, OpenPcs

LEMMA WalkLeak ==
    ASSUME LeakInv, Walk
    PROVE  LeakInv'
<1>1. pc = "walk"
  BY DEF Walk
<1>2. CASE op.path = <<>> /\ op.first /\ ReturnNull /\ UNCHANGED ndir
  BY <1>1, <1>2, NullReturn DEF LeakInv, OpenPcs
<1>3. CASE op.path = <<>> /\ ~op.first /\ ndir' = FreeCurrent
           /\ SetupHandle(<<Buf(op.nsec, op.nsize)>>, op.nsize, <<Buf(op.nsec, op.nsize)>>)
  <2>1. ndir' = 0
    BY <1>1, <1>3, FreeNone DEF LeakInv, OpenPcs
  <2>. QED
    BY <1>1, <1>3, <2>1, HandleReturn DEF OpenPcs
<1>4. CASE op.path # <<>> /\ op' = [op EXCEPT !.fpos = 0, !.fsize = op.cur.size]
           /\ pc' = "find" /\ UNCHANGED <<live, ndir, handle, res>>
  BY <1>1, <1>4, OpenStep DEF LeakInv, OpenPcs, OpIdle
<1>. QED
  BY <1>2, <1>3, <1>4 DEF Walk

LEMMA FindLeak ==
    ASSUME LeakInv, FindEnd \/ FindPad \/ FindEntry
    PROVE  LeakInv'
<1>1. pc = "find"
  BY DEF FindEnd, FindPad, FindEntry
<1>2. \/ FindFails
      \/ /\ op' = [op EXCEPT !.fpos = op'.fpos, !.fsize = op'.fsize] /\ pc' = "find"
         /\ UNCHANGED <<live, ndir, handle>>
      \/ /\ op' = [op EXCEPT !.nsec = op'.nsec, !.nsize = op'.nsize, !.ecur = op'.ecur,
                             !.cnt = op'.cnt, !.total = op'.total]
         /\ pc' \in {"count", "descend"} /\ UNCHANGED <<live, ndir, handle>>
  BY Zenon DEF FindEnd, FindPad, FindEntry
<1>3. CASE FindFails
  BY <1>1, <1>3, FailStep DEF OpenPcs
<1>4. CASE ~FindFails
  BY <1>1, <1>2, <1>4, OpenStep DEF LeakInv, OpenPcs, OpIdle
<1>. QED
  BY <1>3, <1>4

LEMMA DescendLeak ==
    ASSUME LeakInv, Descend
    PROVE  LeakInv'
<1>0. pc = "descend"
  BY DEF Descend
<1>1. pc = "descend" /\ op.first \in BOOLEAN /\ ndir = IF op.first THEN 0 ELSE 1
  BY <1>0 DEF LeakInv, OpenPcs
<1>2. FreeCurrent = 0
  BY <1>1, FreeNone
<1>3. CASE ndir' = FreeCurrent /\ ReturnNull
  BY <1>1, <1>2, <1>3, NullReturn DEF OpenPcs
<1>4. CASE ndir' = FreeCurrent + 1
           /\ op' = [op EXCEPT !.path = Tail(op.path), !.first = FALSE,
                               !.cur = Buf(op.nsec, op.nsize)]
           /\ pc' = "walk" /\ UNCHANGED <<live, handle>>
  BY <1>1, <1>2, <1>4, OpenStep DEF LeakInv, OpenPcs, OpIdle
<1>. QED
  BY <1>3, <1>4 DEF Descend

LEMMA CountLeak ==
    ASSUME LeakInv, CountExtents
    PROVE  LeakInv'
<1>1. pc = "count"
  BY DEF CountExtents
<1>2. /\ DOMAIN op' = DOMAIN op /\ op'.first = op.first
      /\ pc' \in {"count", "fill"} /\ UNCHANGED <<live, ndir, handle>>
  BY <1>1 DEF CountExtents, StartFill, LeakInv, OpIdle
<1>. QED
  BY <1>1, <1>2, OpenStep DEF LeakInv, OpenPcs

LEMMA FillLeak ==
    ASSUME LeakInv, FillExtent \/ FillDone
    PROVE  LeakInv'
<1>1. pc = "fill"
  BY DEF FillExtent, FillDone
<1>2. CASE FillExtent
  <2>1. DOMAIN op' = DOMAIN op /\ op'.first = op.first /\ pc' = "fill"
        /\ UNCHANGED <<live, ndir, handle>>
    BY <1>2 DEF FillExtent, LeakInv, OpIdle
  <2>. QED
    BY <1>1, <2>1, OpenStep DEF LeakInv, OpenPcs
<1>3. CASE FillDone
  <2>1. ndir' = 0
    BY <1>1, <1>3, FreeNone DEF FillDone, LeakInv, OpenPcs
  <2>. QED
    BY <1>1, <1>3, <2>1, HandleReturn DEF FillDone, OpenPcs
<1>. QED
  BY <1>2, <1>3

LEMMA ReadLeak ==
    ASSUME LeakInv, (\E q \in ReadReqs : Read(q)) \/ ReadExtent \/ ReadDone \/ Close \/ Halt
    PROVE  LeakInv'
<1>1. CASE \E q \in ReadReqs : Read(q)
  BY <1>1 DEF Read, LeakInv, OpenPcs
<1>2. CASE ReadExtent
  BY <1>2 DEF ReadExtent, LeakInv, OpenPcs
<1>3. CASE ReadDone
  BY <1>3 DEF ReadDone, LeakInv, OpenPcs
<1>4. CASE Close
  BY <1>4 DEF Close, LeakInv, NoHandle, OpenPcs
<1>5. CASE Halt
  BY <1>5 DEF Halt, vars, LeakInv
<1>. QED
  BY <1>1, <1>2, <1>3, <1>4, <1>5

LEMMA LeakStep == LeakInv /\ [Next]_vars => LeakInv'
<1> SUFFICES ASSUME LeakInv, [Next]_vars PROVE LeakInv'
  OBVIOUS
<1>1. CASE \E p \in Paths : Open(p)
  BY <1>1, OpenLeak
<1>2. CASE UNCHANGED vars
  BY <1>2 DEF vars, LeakInv
<1>. QED
  BY <1>1, <1>2, PvdLeak, RootLeak, WalkLeak, FindLeak, DescendLeak, CountLeak,
     FillLeak, ReadLeak DEF Next, Step

(* Whatever path iso9660_open takes, once it has returned, and after any  *)
(* reads and a close, the heap holds exactly what the caller owns: ret    *)
(* and the extent array while a handle is open, nothing otherwise, and    *)
(* no directory buffer of the walk (the cached root is not the walk's).   *)
THEOREM NoLeakCorrect == Spec => []NoLeak
<1>1. LeakInv => NoLeak
  BY DEF LeakInv, NoLeak
<1>. QED
  BY <1>1, InitLeak, LeakStep, PTL DEF Spec
-----------------------------------------------------------------------------
(* The constants of the driver as the code defines them.                  *)
LEMMA ConstFacts ==
    /\ Sector \in Nat \ {0} /\ MinRec \in 1 .. Sector
    /\ MaxDesc \in Nat /\ MaxDir \in Nat /\ MaxExtents \in Nat /\ MaxExtents >= 2
<1>1. MaxDesc \in Nat /\ MaxDir \in Nat /\ MaxExtents \in Nat
  BY LimitAssumption, Zenon
<1>. QED
  BY <1>1, SectorAssumption, ExtentCapAssumption

(* A record and a length byte read from a buffer of the volume hold       *)
(* unsigned values, wherever the offset lands.                            *)
LEMMA RecFacts ==
    ASSUME img \in Images, NEW c, NEW o
    PROVE  /\ RecAt(c, o).lba \in Nat /\ RecAt(c, o).size \in Nat
           /\ Byte(c, o) \in Nat
<1>1. CASE c.lba \in DOMAIN img.dirs
  BY <1>1, ImagesAssumption DEF RecAt, Byte, DirAt, JunkRec
<1>2. CASE c.lba \notin DOMAIN img.dirs
  BY <1>2 DEF RecAt, Byte, DirAt, JunkRec, NoDir
<1>. QED
  BY <1>1, <1>2

(* The remainder a padding step takes off lies between 0 and the size.   *)
LEMMA ModBound ==
    ASSUME NEW size \in Nat
    PROVE  size % Sector \in 0 .. size
<1>1. size % Sector \in 0 .. (Sector - 1)
  BY SectorAssumption
<1>2. CASE size < Sector
  BY <1>2, SectorAssumption
<1>3. CASE size >= Sector
  BY <1>1, <1>3, SectorAssumption
<1>. QED
  BY <1>2, <1>3, SectorAssumption

(* The padding step of iso9660_find moves within the buffer: position    *)
(* plus size left stays what it was.                                      *)
LEMMA PadFacts ==
    ASSUME NEW pos \in Nat, NEW size \in Nat, PadSkip(pos, size).pos # Null
    PROVE  /\ PadSkip(pos, size).pos \in Nat /\ PadSkip(pos, size).size \in Nat
           /\ PadSkip(pos, size).pos + PadSkip(pos, size).size = pos + size
<1> DEFINE m == size % Sector
           a == size - m
<1>1. m \in 0 .. size
  BY ModBound
<1>2. a \in 0 .. size
  BY <1>1
<1> HIDE DEF m, a
<1>3. PadSkip(pos, size) =
          IF size <= Sector THEN [pos |-> Null, size |-> 0]
          ELSE IF a = size
               THEN IF a <= Sector THEN [pos |-> Null, size |-> 0]
                    ELSE [pos |-> pos + Sector, size |-> a - Sector]
          ELSE [pos |-> pos + size - a, size |-> a]
  BY DEF PadSkip, a, m
<1>4. ~(size <= Sector) /\ ~(a = size /\ a <= Sector)
  BY <1>3
<1>5. CASE a = size
  BY <1>2, <1>3, <1>4, <1>5, SectorAssumption
<1>6. CASE a # size
  BY <1>2, <1>3, <1>4, <1>6
<1>. QED
  BY <1>5, <1>6

(* The bytes one extent contributes to iso9660_read's output.            *)
LEMMA UnitsFacts ==
    ASSUME NEW lba \in Nat, NEW off \in Nat, NEW n \in Nat
    PROVE  Units(lba, off, n) \in Seq(Nat)
<1>1. \A k \in 1 .. n : lba * Sector + off + k - 1 \in Nat
  BY SectorAssumption
<1>. QED
  BY <1>1 DEF Units
-----------------------------------------------------------------------------
(* The locals iso9660_open starts from satisfy OpT, wherever pc is.       *)
LEMMA OpIdleType ==
    ASSUME NEW c
    PROVE  OpTOf(OpIdle, c)
<1> DEFINE o == OpIdle
<1>1. /\ o.fpos = 0 /\ o.fsize = 0 /\ o.cur = [lba |-> 0, size |-> 0] /\ o.nsec = 0
      /\ o.nsize = 0 /\ o.total = 0 /\ o.cnt = 0 /\ o.exts = <<>>
  BY DEF OpIdle, Buf
<1>2. o.cur \in ExtT /\ o.cnt \in 0 .. MaxExtents /\ o.cnt < MaxExtents
  BY <1>1, ConstFacts DEF ExtT
<1>3. o.exts \in Seq(ExtT) /\ Len(o.exts) <= o.cnt /\ o.fpos + o.fsize = o.cur.size
  BY <1>1
<1>. QED
  BY <1>1, <1>2, <1>3 DEF OpTOf

(* iso9660_open returns NULL: its locals are gone, the handle untouched.  *)
LEMMA NullType ==
    ASSUME TypeInv, LeakInv', ReturnNull, UNCHANGED <<img, ctx, rd>>
    PROVE  TypeInv'
<1>1. op' = OpIdle /\ pc' = "idle" /\ res' = "null" /\ handle' = handle
      /\ live' \subseteq {"ret", "ext"}
  BY DEF ReturnNull, TypeInv, MemT
<1>2. ndir' = 0
  BY <1>1 DEF LeakInv
<1>3. OpT'
  BY <1>1, OpIdleType DEF OpT
<1>4. MemT'
  BY <1>1, <1>2 DEF TypeInv, MemT
<1>. QED
  BY <1>1, <1>3, <1>4 DEF TypeInv, HandleT, RdT

(* setup_handle with extents and a total of the right type.              *)
LEMMA HandleType ==
    ASSUME TypeInv, LeakInv', NEW e \in Seq(ExtT), NEW t \in Nat, NEW r,
           SetupHandle(e, t, r), UNCHANGED <<img, ctx, rd>>
    PROVE  TypeInv'
<1>1. op' = OpIdle /\ pc' = "idle" /\ res' = "handle"
      /\ handle'.exts = e /\ handle'.total = t
  BY DEF SetupHandle
<1>2. ndir' = 0 /\ live' \subseteq {"ret", "ext"}
  BY <1>1 DEF LeakInv
<1>3. OpT'
  BY <1>1, OpIdleType DEF OpT
<1>4. MemT' /\ HandleT'
  BY <1>1, <1>2 DEF TypeInv, MemT, HandleT
<1>. QED
  BY <1>3, <1>4 DEF TypeInv, RdT

LEMMA InitType == Init => TypeInv
<1> SUFFICES ASSUME Init PROVE TypeInv
  OBVIOUS
<1>1. img \in Images /\ pc = "idle" /\ op = OpIdle /\ handle = NoHandle /\ rd = RdIdle
      /\ ctx = FALSE /\ live = {} /\ ndir = 0 /\ res = "none"
  BY DEF Init
<1>2. OpT
  BY <1>1, OpIdleType DEF OpT
<1>3. MemT
  BY <1>1 DEF MemT
<1>4. HandleT
  BY <1>1 DEF HandleT, NoHandle
<1>5. RdT
  BY <1>1 DEF RdT, RdIdle
<1>. QED
  BY <1>1, <1>2, <1>3, <1>4, <1>5 DEF TypeInv

LEMMA OpenType ==
    ASSUME TypeInv, NEW p \in Paths, Open(p)
    PROVE  TypeInv'
<1>1. rd' = RdIdle /\ UNCHANGED <<img, ndir, handle>>
  BY DEF Open
<1>2. RdT' /\ HandleT'
  BY <1>1 DEF RdIdle, RdT, TypeInv, HandleT
<1>3. CASE ~img.cd
  <2>1. UNCHANGED <<pc, op, ctx, live>> /\ res' = "null"
    BY <1>3 DEF Open
  <2>2. OpT' /\ MemT'
    BY <1>1, <2>1 DEF TypeInv, OpT, OpTOf, MemT
  <2>. QED
    BY <1>1, <1>2, <2>2 DEF TypeInv
<1>4. CASE img.cd
  <2>1. img.root \in ExtT
    BY ImagesAssumption DEF TypeInv, ExtT
  <2>2. /\ op' = [OpIdle EXCEPT !.path = p.comps, !.trailing = p.trailing, !.cur = img.root]
        /\ live' = {"ret"} /\ pc' \in {"walk", "pvd"} /\ UNCHANGED <<ctx, res>>
    BY <1>4 DEF Open
  <2>3. /\ op'.fpos = 0 /\ op'.fsize = 0 /\ op'.cur = img.root /\ op'.nsec = 0
        /\ op'.nsize = 0 /\ op'.total = 0 /\ op'.cnt = 0 /\ op'.exts = <<>>
    BY <2>2 DEF OpIdle
  <2>4. OpT'
    <3>1. op'.exts \in Seq(ExtT) /\ Len(op'.exts) <= op'.cnt
      BY <2>3
    <3>2. op'.cnt \in 0 .. MaxExtents
      BY <2>3, ConstFacts
    <3>. QED
      BY <2>1, <2>2, <2>3, <3>1, <3>2 DEF OpT, OpTOf
  <2>5. MemT'
    BY <1>1, <2>2 DEF TypeInv, MemT
  <2>. QED
    BY <1>1, <1>2, <2>4, <2>5 DEF TypeInv
<1>. QED
  BY <1>3, <1>4

LEMMA PvdType ==
    ASSUME LeakInv, TypeInv, PvdStep
    PROVE  TypeInv'
<1>1. /\ op' = op \/ op' = [op EXCEPT !.dl = op.dl + 1]
      /\ pc = "pvd" /\ pc' \in {"panic", "root", "pvd"}
      /\ UNCHANGED <<img, ctx, live, ndir, handle, rd, res>>
  BY Zenon DEF PvdStep
<1>2. /\ op'.fpos = op.fpos /\ op'.fsize = op.fsize /\ op'.cur = op.cur
      /\ op'.nsec = op.nsec /\ op'.nsize = op.nsize /\ op'.total = op.total
      /\ op'.cnt = op.cnt /\ op'.exts = op.exts
  BY <1>1 DEF LeakInv, OpIdle
<1>3. OpT'
  BY <1>1, <1>2 DEF TypeInv, OpT, OpTOf
<1>. QED
  BY <1>1, <1>3 DEF TypeInv, MemT, HandleT, RdT

LEMMA RootType ==
    ASSUME TypeInv, CacheRoot
    PROVE  TypeInv'
<1>1. /\ pc = "root" /\ pc' \in {"panic", "walk"} /\ ctx' \in BOOLEAN
      /\ UNCHANGED <<img, op, live, ndir, handle, rd, res>>
  BY Zenon DEF CacheRoot, TypeInv, MemT
<1>. QED
  BY <1>1 DEF TypeInv, OpT, OpTOf, MemT, HandleT, RdT

LEMMA WalkType ==
    ASSUME LeakInv, TypeInv, LeakInv', Walk
    PROVE  TypeInv'
<1>1. pc = "walk" /\ UNCHANGED <<img, ctx, rd>>
  BY DEF Walk
<1>2. CASE op.path = <<>> /\ op.first /\ ReturnNull /\ UNCHANGED ndir
  BY <1>1, <1>2, NullType
<1>3. CASE op.path = <<>> /\ ~op.first /\ ndir' = FreeCurrent
           /\ SetupHandle(<<Buf(op.nsec, op.nsize)>>, op.nsize, <<Buf(op.nsec, op.nsize)>>)
  <2>1. <<Buf(op.nsec, op.nsize)>> \in Seq(ExtT) /\ op.nsize \in Nat
    BY DEF TypeInv, OpT, OpTOf, Buf, ExtT
  <2>. QED
    BY <1>1, <1>3, <2>1, HandleType
<1>4. CASE op.path # <<>> /\ op' = [op EXCEPT !.fpos = 0, !.fsize = op.cur.size]
           /\ pc' = "find" /\ UNCHANGED <<live, ndir, handle, res>>
  <2>1. /\ op'.fpos = 0 /\ op'.fsize = op.cur.size /\ op'.cur = op.cur
        /\ op'.nsec = op.nsec /\ op'.nsize = op.nsize /\ op'.total = op.total
        /\ op'.cnt = op.cnt /\ op'.exts = op.exts
    BY <1>4 DEF LeakInv, OpIdle
  <2>2. op.cur.size \in Nat /\ op.exts = <<>>
    BY <1>1 DEF TypeInv, OpT, OpTOf, ExtT
  <2>3. OpT'
    <3>1. op.cur \in ExtT /\ op.nsec \in Nat /\ op.nsize \in Nat /\ op.total \in Nat
          /\ op.cnt \in 0 .. MaxExtents
      BY DEF TypeInv, OpT, OpTOf
    <3>2. op'.exts \in Seq(ExtT) /\ Len(op'.exts) <= op'.cnt
      BY <2>1, <2>2, <3>1
    <3>3. op'.fpos + op'.fsize = op'.cur.size
      BY <2>1, <2>2
    <3>. QED
      BY <1>4, <2>1, <2>2, <3>1, <3>2, <3>3 DEF OpT, OpTOf
  <2>. QED
    BY <1>1, <1>4, <2>3 DEF TypeInv, MemT, HandleT, RdT
<1>. QED
  BY <1>2, <1>3, <1>4 DEF Walk

(* iso9660_find gives up and open returns NULL.                           *)
LEMMA FailType ==
    ASSUME TypeInv, LeakInv', FindFails, UNCHANGED <<img, ctx, rd>>
    PROVE  TypeInv'
  BY NullType DEF FindFails

LEMMA FindPadType ==
    ASSUME LeakInv, TypeInv, LeakInv', FindPad
    PROVE  TypeInv'
<1> DEFINE nx == PadSkip(op.fpos, op.fsize)
<1>1. pc = "find" /\ UNCHANGED <<img, ctx, rd>>
  BY DEF FindPad
<1>2. \/ FindFails
      \/ /\ nx.pos # Null /\ op' = [op EXCEPT !.fpos = nx.pos, !.fsize = nx.size]
         /\ UNCHANGED <<pc, live, ndir, handle, res>>
  BY Zenon DEF FindPad
<1>3. CASE FindFails
  BY <1>1, <1>3, FailType
<1>4. CASE /\ nx.pos # Null /\ op' = [op EXCEPT !.fpos = nx.pos, !.fsize = nx.size]
           /\ UNCHANGED <<pc, live, ndir, handle, res>>
  <2>1. op.fpos \in Nat /\ op.fsize \in Nat /\ op.fpos + op.fsize = op.cur.size
        /\ op.exts = <<>>
    BY <1>1 DEF TypeInv, OpT, OpTOf
  <2>2. nx.pos \in Nat /\ nx.size \in Nat /\ nx.pos + nx.size = op.fpos + op.fsize
    BY <1>4, <2>1, PadFacts
  <2>3. /\ op'.fpos = nx.pos /\ op'.fsize = nx.size /\ op'.cur = op.cur
        /\ op'.nsec = op.nsec /\ op'.nsize = op.nsize /\ op'.total = op.total
        /\ op'.cnt = op.cnt /\ op'.exts = op.exts
    BY <1>4 DEF LeakInv, OpIdle
  <2> HIDE DEF nx
  <2>4. OpT'
    BY <1>1, <1>4, <2>1, <2>2, <2>3 DEF TypeInv, OpT, OpTOf
  <2>. QED
    BY <1>1, <1>4, <2>4 DEF TypeInv, MemT, HandleT, RdT
<1>. QED
  BY <1>2, <1>3, <1>4

LEMMA FindEntryType ==
    ASSUME LeakInv, TypeInv, LeakInv', FindEntry
    PROVE  TypeInv'
<1> DEFINE l == Byte(op.cur, op.fpos)
           r == RecAt(op.cur, op.fpos)
<1>1. pc = "find" /\ UNCHANGED <<img, ctx, rd>>
  BY DEF FindEntry
<1>2. \/ FindFails
      \/ /\ op' = [op EXCEPT !.nsec = r.lba, !.nsize = r.size, !.ecur = op.fpos,
                             !.cnt = 1, !.total = r.size]
         /\ pc' \in {"count", "descend"} /\ UNCHANGED <<live, ndir, handle, res>>
      \/ /\ l \in MinRec .. op.fsize
         /\ op' = [op EXCEPT !.fpos = op.fpos + l, !.fsize = op.fsize - l]
         /\ UNCHANGED <<pc, live, ndir, handle, res>>
  BY Zenon DEF FindEntry
<1>3. /\ op.fpos \in Nat /\ op.fsize \in Nat /\ op.fpos + op.fsize = op.cur.size
      /\ op.exts = <<>> /\ op.cur \in ExtT /\ op.nsec \in Nat /\ op.nsize \in Nat
      /\ op.total \in Nat /\ op.cnt \in 0 .. MaxExtents
  BY <1>1 DEF TypeInv, OpT, OpTOf
<1>4. r.lba \in Nat /\ r.size \in Nat /\ l \in Nat
  BY RecFacts DEF TypeInv
<1>5. CASE FindFails
  BY <1>1, <1>5, FailType
<1>6. CASE /\ op' = [op EXCEPT !.nsec = r.lba, !.nsize = r.size, !.ecur = op.fpos,
                               !.cnt = 1, !.total = r.size]
           /\ pc' \in {"count", "descend"} /\ UNCHANGED <<live, ndir, handle, res>>
  <2>1. /\ op'.fpos = op.fpos /\ op'.fsize = op.fsize /\ op'.cur = op.cur
        /\ op'.nsec = r.lba /\ op'.nsize = r.size /\ op'.total = r.size
        /\ op'.cnt = 1 /\ op'.exts = op.exts
    BY <1>6 DEF LeakInv, OpIdle
  <2>2. 1 \in 0 .. MaxExtents /\ 1 < MaxExtents
    BY ConstFacts
  <2> HIDE DEF l, r
  <2>3. /\ op'.fpos \in Nat /\ op'.fsize \in Nat /\ op'.cur \in ExtT
        /\ op'.nsec \in Nat /\ op'.nsize \in Nat /\ op'.total \in Nat
    BY <1>3, <1>4, <2>1
  <2>4. op'.cnt \in 0 .. MaxExtents /\ op'.exts \in Seq(ExtT) /\ Len(op'.exts) <= op'.cnt
    BY <1>3, <2>1, <2>2
  <2>5. /\ pc' # "fill" => op'.exts = <<>>
        /\ pc' = "count" => op'.cnt < MaxExtents
        /\ pc' = "find" => op'.fpos + op'.fsize = op'.cur.size
    BY <1>3, <1>6, <2>1, <2>2
  <2>6. OpT'
    BY <2>3, <2>4, <2>5 DEF OpT, OpTOf
  <2>. QED
    BY <1>1, <1>6, <2>6 DEF TypeInv, MemT, HandleT, RdT
<1>7. CASE /\ l \in MinRec .. op.fsize
           /\ op' = [op EXCEPT !.fpos = op.fpos + l, !.fsize = op.fsize - l]
           /\ UNCHANGED <<pc, live, ndir, handle, res>>
  <2>1. /\ op'.fpos = op.fpos + l /\ op'.fsize = op.fsize - l /\ op'.cur = op.cur
        /\ op'.nsec = op.nsec /\ op'.nsize = op.nsize /\ op'.total = op.total
        /\ op'.cnt = op.cnt /\ op'.exts = op.exts
    BY <1>7 DEF LeakInv, OpIdle
  <2> HIDE DEF l, r
  <2>2. l \in Nat /\ l <= op.fsize
    BY <1>4, <1>7
  <2>3. op'.fpos \in Nat /\ op'.fsize \in Nat /\ op'.fpos + op'.fsize = op'.cur.size
    BY <1>3, <2>1, <2>2
  <2>4. /\ op'.cur \in ExtT /\ op'.nsec \in Nat /\ op'.nsize \in Nat /\ op'.total \in Nat
        /\ op'.cnt \in 0 .. MaxExtents /\ op'.exts \in Seq(ExtT) /\ Len(op'.exts) <= op'.cnt
        /\ op'.exts = <<>>
    BY <1>3, <2>1
  <2>5. OpT'
    BY <1>1, <1>7, <2>3, <2>4 DEF OpT, OpTOf
  <2>. QED
    BY <1>1, <1>7, <2>5 DEF TypeInv, MemT, HandleT, RdT
<1>. QED
  BY <1>2, <1>5, <1>6, <1>7

LEMMA DescendType ==
    ASSUME LeakInv, TypeInv, LeakInv', Descend
    PROVE  TypeInv'
<1>1. pc = "descend" /\ UNCHANGED <<img, ctx, rd>>
  BY DEF Descend
<1>2. \/ ReturnNull
      \/ /\ ndir' = FreeCurrent + 1
         /\ op' = [op EXCEPT !.path = Tail(op.path), !.first = FALSE,
                             !.cur = Buf(op.nsec, op.nsize)]
         /\ pc' = "walk" /\ UNCHANGED <<live, res, handle>>
  BY Zenon DEF Descend
<1>3. CASE ReturnNull
  BY <1>1, <1>3, NullType
<1>4. CASE /\ ndir' = FreeCurrent + 1
           /\ op' = [op EXCEPT !.path = Tail(op.path), !.first = FALSE,
                               !.cur = Buf(op.nsec, op.nsize)]
           /\ pc' = "walk" /\ UNCHANGED <<live, res, handle>>
  <2>1. FreeCurrent = 0
    BY <1>1, FreeNone DEF LeakInv, OpenPcs
  <2>2. /\ op'.fpos = op.fpos /\ op'.fsize = op.fsize /\ op'.cur = Buf(op.nsec, op.nsize)
        /\ op'.nsec = op.nsec /\ op'.nsize = op.nsize /\ op'.total = op.total
        /\ op'.cnt = op.cnt /\ op'.exts = op.exts
    BY <1>4 DEF LeakInv, OpIdle
  <2>3. Buf(op.nsec, op.nsize) \in ExtT /\ op.exts = <<>>
    BY <1>1 DEF TypeInv, OpT, OpTOf, Buf, ExtT
  <2>4. OpT'
    BY <1>4, <2>2, <2>3 DEF TypeInv, OpT, OpTOf
  <2>5. MemT'
    BY <1>1, <1>4, <2>1 DEF TypeInv, MemT
  <2>. QED
    BY <1>1, <1>4, <2>4, <2>5 DEF TypeInv, HandleT, RdT
<1>. QED
  BY <1>2, <1>3, <1>4

LEMMA CountType ==
    ASSUME LeakInv, TypeInv, CountExtents
    PROVE  TypeInv'
<1> DEFINE nx == NextEntry(op.cur, op.ecur)
           more == [op EXCEPT !.ecur = nx, !.cnt = op.cnt + 1,
                              !.total = op.total + RecAt(op.cur, nx).size]
<1>1. pc = "count" /\ UNCHANGED <<img, ctx, live, ndir, handle, rd, res>>
  BY DEF CountExtents
<1>2. \/ op' = [op EXCEPT !.ecur = op.fpos, !.exts = <<>>] /\ pc' = "fill"
      \/ op.cnt + 1 < MaxExtents /\ op' = more /\ pc' = pc
      \/ op.cnt + 1 >= MaxExtents /\ op' = [more EXCEPT !.ecur = op.fpos, !.exts = <<>>]
         /\ pc' = "fill"
  BY Zenon DEF CountExtents, StartFill
<1>3. /\ op.fpos \in Nat /\ op.fsize \in Nat /\ op.cur \in ExtT /\ op.nsec \in Nat
      /\ op.nsize \in Nat /\ op.total \in Nat /\ op.cnt \in 0 .. MaxExtents
      /\ op.cnt < MaxExtents /\ op.exts = <<>>
  BY <1>1 DEF TypeInv, OpT, OpTOf
<1>4. RecAt(op.cur, nx).size \in Nat
  BY RecFacts DEF TypeInv
<1>5. /\ DOMAIN more = DOMAIN OpIdle /\ more.fpos = op.fpos /\ more.fsize = op.fsize
      /\ more.cur = op.cur /\ more.nsec = op.nsec /\ more.nsize = op.nsize
      /\ more.total = op.total + RecAt(op.cur, nx).size /\ more.cnt = op.cnt + 1
      /\ more.exts = op.exts
  BY DEF LeakInv, OpIdle
<1> HIDE DEF nx, more
<1>6. /\ op'.fpos = op.fpos /\ op'.fsize = op.fsize /\ op'.cur = op.cur
      /\ op'.nsec = op.nsec /\ op'.nsize = op.nsize
      /\ \/ op'.total = op.total /\ op'.cnt = op.cnt /\ op'.exts = <<>> /\ pc' = "fill"
         \/ /\ op'.total = op.total + RecAt(op.cur, nx).size /\ op'.cnt = op.cnt + 1
            /\ op'.cnt < MaxExtents /\ op'.exts = <<>> /\ pc' = "count"
         \/ /\ op'.total = op.total + RecAt(op.cur, nx).size /\ op'.cnt = op.cnt + 1
            /\ op'.exts = <<>> /\ pc' = "fill"
  BY <1>1, <1>2, <1>3, <1>5 DEF LeakInv, OpIdle
<1>7. /\ op'.fpos \in Nat /\ op'.fsize \in Nat /\ op'.cur \in ExtT
      /\ op'.nsec \in Nat /\ op'.nsize \in Nat
  BY <1>3, <1>6
<1>8. /\ op'.total \in Nat /\ op'.cnt \in 0 .. MaxExtents /\ op'.exts = <<>>
      /\ pc' \in {"fill", "count"} /\ (pc' = "count" => op'.cnt < MaxExtents)
  <2>1. CASE op'.total = op.total /\ op'.cnt = op.cnt /\ op'.exts = <<>> /\ pc' = "fill"
    BY <1>3, <2>1
  <2>2. CASE /\ op'.total = op.total + RecAt(op.cur, nx).size /\ op'.cnt = op.cnt + 1
             /\ op'.cnt < MaxExtents /\ op'.exts = <<>> /\ pc' = "count"
    <3>1. op'.total \in Nat
      BY <1>3, <1>4, <2>2
    <3>2. op'.cnt \in 0 .. MaxExtents
      BY <1>3, <2>2, ConstFacts
    <3>. QED
      BY <2>2, <3>1, <3>2
  <2>3. CASE /\ op'.total = op.total + RecAt(op.cur, nx).size /\ op'.cnt = op.cnt + 1
             /\ op'.exts = <<>> /\ pc' = "fill"
    <3>1. op'.total \in Nat
      BY <1>3, <1>4, <2>3
    <3>2. op'.cnt \in 0 .. MaxExtents
      BY <1>3, <2>3, ConstFacts
    <3>. QED
      BY <2>3, <3>1, <3>2
  <2>. QED
    BY <1>6, <2>1, <2>2, <2>3
<1>9. OpT'
  BY <1>7, <1>8 DEF OpT, OpTOf
<1>. QED
  BY <1>1, <1>9 DEF TypeInv, MemT, HandleT, RdT

LEMMA FillType ==
    ASSUME LeakInv, TypeInv, LeakInv', FillExtent \/ FillDone
    PROVE  TypeInv'
<1>1. pc = "fill" /\ op.exts \in Seq(ExtT) /\ op.total \in Nat /\ op.cnt \in Nat
  BY DEF FillExtent, FillDone, TypeInv, OpT, OpTOf
<1>2. CASE FillExtent
  <2> DEFINE r == RecAt(op.cur, op.ecur)
  <2>1. /\ Len(op.exts) < op.cnt
        /\ op' = [op EXCEPT !.exts = Append(op.exts, Buf(r.lba, r.size)),
                            !.ecur = IF Len(op.exts) + 1 < op.cnt
                                     THEN NextEntry(op.cur, op.ecur) ELSE op.ecur]
        /\ UNCHANGED <<img, pc, ctx, live, ndir, handle, rd, res>>
    BY <1>2 DEF FillExtent
  <2>2. Buf(r.lba, r.size) \in ExtT
    BY RecFacts DEF TypeInv, Buf, ExtT
  <2>3. /\ op'.fpos = op.fpos /\ op'.fsize = op.fsize /\ op'.cur = op.cur
        /\ op'.nsec = op.nsec /\ op'.nsize = op.nsize /\ op'.total = op.total
        /\ op'.cnt = op.cnt /\ op'.exts = Append(op.exts, Buf(r.lba, r.size))
    BY <2>1 DEF LeakInv, OpIdle
  <2> HIDE DEF r
  <2>4. op'.exts \in Seq(ExtT) /\ Len(op'.exts) <= op'.cnt
    BY <1>1, <2>1, <2>2, <2>3
  <2>5. OpT'
    BY <1>1, <2>1, <2>3, <2>4 DEF TypeInv, OpT, OpTOf
  <2>. QED
    BY <2>1, <2>5 DEF TypeInv, MemT, HandleT, RdT
<1>3. CASE FillDone
  BY <1>1, <1>3, HandleType DEF FillDone
<1>. QED
  BY <1>2, <1>3

(* The units of one extent iso9660_read copies: the offset into the      *)
(* extent lies within it, so the count read lies between 0 and what is   *)
(* left to read.                                                          *)
LEMMA ReadExtentType ==
    ASSUME TypeInv, ReadExtent
    PROVE  TypeInv'
<1> DEFINE x == handle.exts[rd.ri + 1]
           eend == rd.estart + x.size
           off == IF rd.loc > rd.estart THEN rd.loc - rd.estart ELSE 0
           tr == IF rd.count < x.size - off THEN rd.count ELSE x.size - off
<1>1. /\ pc = "read" /\ rd.ri < Len(handle.exts) /\ rd.count > 0
      /\ UNCHANGED <<img, op, ctx, live, ndir, handle, res>>
  BY DEF ReadExtent
<1>2. x \in ExtT
  BY <1>1 DEF TypeInv, RdT, HandleT
<1>6. /\ x.lba \in Nat /\ x.size \in Nat /\ rd.loc \in Nat /\ rd.estart \in Nat
      /\ rd.count \in Nat /\ rd.ri \in Nat /\ rd.out \in Seq(Nat)
  BY <1>2 DEF ExtT, TypeInv, RdT
<1>3. \/ rd' = [rd EXCEPT !.ri = rd.ri + 1, !.estart = eend] /\ pc' = pc
      \/ pc' = "panic" /\ rd' = rd
      \/ /\ rd.loc < eend
         /\ rd' = [rd EXCEPT !.ri = rd.ri + 1, !.estart = eend,
                             !.out = rd.out \o Units(x.lba, off, tr),
                             !.loc = rd.loc + tr, !.count = rd.count - tr]
         /\ pc' = pc
  BY Zenon DEF ReadExtent
<1>4. OpT' /\ MemT' /\ HandleT'
  <2>1. pc' \in {"read", "panic"}
    BY <1>1, <1>3
  <2>. QED
    BY <1>1, <2>1 DEF TypeInv, OpT, OpTOf, MemT, HandleT
<1>5. RdT'
  <2>2. eend \in Nat
    BY <1>6
  <2>3. CASE rd' = [rd EXCEPT !.ri = rd.ri + 1, !.estart = eend] /\ pc' = pc
    BY <2>2, <2>3 DEF TypeInv, RdT
  <2>4. CASE pc' = "panic" /\ rd' = rd
    BY <2>4 DEF TypeInv, RdT
  <2>5. CASE /\ rd.loc < eend
             /\ rd' = [rd EXCEPT !.ri = rd.ri + 1, !.estart = eend,
                                 !.out = rd.out \o Units(x.lba, off, tr),
                                 !.loc = rd.loc + tr, !.count = rd.count - tr]
             /\ pc' = pc
    <3>1. off \in Nat /\ off <= x.size
      <4>1. rd.loc < rd.estart + x.size
        BY <2>5
      <4> HIDE DEF x
      <4>. QED
        BY <1>6, <4>1
    <3>2. tr \in 0 .. rd.count
      <4> HIDE DEF x, off
      <4>. QED
        BY <1>1, <1>6, <3>1
    <3> HIDE DEF x, eend, off, tr
    <3>3. Units(x.lba, off, tr) \in Seq(Nat)
      <4>1. tr \in Nat /\ off \in Nat /\ x.lba \in Nat
        BY <1>6, <3>1, <3>2
      <4>. QED
        BY <4>1, UnitsFacts, Zenon
    <3>4. rd.out \o Units(x.lba, off, tr) \in Seq(Nat)
      BY <3>3 DEF TypeInv, RdT
    <3>. QED
      BY <2>2, <2>5, <3>2, <3>4 DEF TypeInv, RdT
  <2>. QED
    BY <1>3, <2>3, <2>4, <2>5
<1>. QED
  BY <1>1, <1>4, <1>5 DEF TypeInv

LEMMA ReadType ==
    ASSUME TypeInv, (\E q \in ReadReqs : Read(q)) \/ ReadDone \/ Close \/ Halt
    PROVE  TypeInv'
<1>1. pc \in {"idle", "read", "panic"} /\ op.exts = <<>>
  BY DEF Read, ReadDone, Close, Halt, TypeInv, OpT, OpTOf
<1>2. OpT'
  <2>1. UNCHANGED op /\ pc' \in {"idle", "read", "panic"}
    BY <1>1 DEF Read, ReadDone, Close, Halt, vars
  <2>. QED
    BY <1>1, <2>1 DEF TypeInv, OpT, OpTOf
<1>3. CASE \E q \in ReadReqs : Read(q)
  <2>1. PICK q \in ReadReqs : Read(q)
    BY <1>3
  <2>2. q[1] \in Nat /\ q[2] \in Nat
    BY ReadReqsAssumption
  <2>3. rd' = [RdIdle EXCEPT !.loc = q[1], !.count = q[2], !.req = q]
        /\ UNCHANGED <<img, ctx, live, ndir, handle, res>>
    BY <2>1 DEF Read
  <2>4. RdT'
    BY <2>2, <2>3 DEF RdT, RdIdle
  <2>. QED
    BY <1>2, <2>3, <2>4 DEF TypeInv, MemT, HandleT
<1>4. CASE ReadDone \/ Halt
  BY <1>2, <1>4 DEF ReadDone, Halt, vars, TypeInv, MemT, HandleT, RdT
<1>5. CASE Close
  <2>1. handle' = NoHandle /\ rd' = RdIdle /\ live' \subseteq live
        /\ UNCHANGED <<img, ctx, ndir, res>>
    BY <1>5 DEF Close
  <2>2. HandleT' /\ RdT'
    BY <2>1 DEF HandleT, NoHandle, RdT, RdIdle
  <2>. QED
    BY <1>2, <2>1, <2>2 DEF TypeInv, MemT
<1>. QED
  BY <1>3, <1>4, <1>5

LEMMA TypeStep == LeakInv /\ TypeInv /\ [Next]_vars => TypeInv'
<1> SUFFICES ASSUME LeakInv, TypeInv, [Next]_vars PROVE TypeInv'
  OBVIOUS
<1>0. LeakInv'
  BY LeakStep
<1>1. CASE \E p \in Paths : Open(p)
  BY <1>1, OpenType
<1>2. CASE FindEnd
  BY <1>0, <1>2, FailType DEF FindEnd
<1>3. CASE UNCHANGED vars
  BY <1>3 DEF vars, TypeInv, OpT, OpTOf, MemT, HandleT, RdT
<1>. QED
  BY <1>0, <1>1, <1>2, <1>3, PvdType, RootType, WalkType, FindPadType, FindEntryType,
     DescendType, CountType, FillType, ReadExtentType, ReadType DEF Next, Step

(* Every variable of the driver keeps its type, and iso9660_find's scan  *)
(* never leaves the buffer it was handed: position plus bytes left is    *)
(* the directory's size after every padding skip and record step, the   *)
(* extent count stays within ISO9660_MAX_EXTENT_COUNT, and iso9660_read *)
(* never reads a negative count.                                          *)
THEOREM IsoTypeCorrect == Spec => []TypeOK
<1>1. Init => LeakInv /\ TypeInv
  BY InitLeak, InitType
<1>2. LeakInv /\ TypeInv /\ [Next]_vars => LeakInv' /\ TypeInv'
  BY LeakStep, TypeStep
<1>3. LeakInv /\ TypeInv => TypeOK
  <2> SUFFICES ASSUME LeakInv, TypeInv PROVE TypeOK
    OBVIOUS
  <2>1. pc \in {"idle", "pvd", "root", "walk", "find", "descend", "count", "fill", "read",
                "panic"}
    BY DEF LeakInv, OpenPcs
  <2>2. /\ op.fpos \in Nat /\ op.fsize \in Nat /\ (pc = "find" => op.fpos + op.fsize = op.cur.size)
        /\ op.cnt \in 0 .. MaxExtents /\ Len(op.exts) <= op.cnt
    BY DEF TypeInv, OpT, OpTOf
  <2>3. /\ ctx \in BOOLEAN /\ live \subseteq {"ret", "ext"} /\ ndir \in Nat
        /\ handle.exts \in Seq([lba : Nat, size : Nat]) /\ handle.total \in Nat
        /\ rd.loc \in Nat /\ rd.count \in Nat /\ rd.out \in Seq(Nat)
        /\ res \in {"none", "null", "handle"}
    BY DEF TypeInv, MemT, HandleT, RdT, ExtT
  <2>. QED
    BY <2>1, <2>2, <2>3 DEF TypeOK
<1>. QED
  BY <1>1, <1>2, <1>3, PTL DEF Spec
=============================================================================
