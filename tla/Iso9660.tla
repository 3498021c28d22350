------------------------------ MODULE Iso9660 ------------------------------
(***************************************************************************)
(* The ISO9660 driver of common/fs/iso9660.s2.c: iso9660_open (signature   *)
(* check, the per-volume context with its cached root directory, the path *)
(* walk with iso9660_find and load_name, the two passes that collect the   *)
(* extents of a multi-extent file with iso9660_next_entry), iso9660_read   *)
(* and iso9660_close.  One caller opens a file, reads it and closes it.   *)
(*                                                                         *)
(* Offsets and sizes are in units of Sector / 2048 of the code's bytes:    *)
(* a sector is Sector units and a directory record header (33 bytes) is    *)
(* MinRec units.  A directory buffer is described by the length byte at    *)
(* each offset and the record that starts there; names are words with a   *)
(* case, compared by strcmp (word and case) or strcasecmp (word only).    *)
(* The Rock Ridge system use area keeps its own byte lengths.             *)
(***************************************************************************)
EXTENDS Integers, Sequences, SequencesExt

CONSTANTS
    Images,           \* the volumes the driver may be given
    Paths,            \* the paths a caller may open
    ReadReqs,         \* the <<loc, count>> a caller may read
    CaseInsensitive,  \* case_insensitive_fopen
    Sector,           \* ISO9660_SECTOR_SIZE
    MinRec,           \* sizeof(struct iso9660_directory_entry)
    MaxDesc,          \* ISO9660_MAX_VOLUME_DESCRIPTORS
    MaxDir,           \* ISO9660_MAX_DIR_SIZE
    MaxExtents        \* ISO9660_MAX_EXTENT_COUNT

ASSUME SectorAssumption == Sector \in Nat \ {0} /\ MinRec \in 1 .. Sector
ASSUME LimitAssumption == {MaxDesc, MaxDir, MaxExtents} \subseteq Nat \ {0}
ASSUME FlagAssumption == CaseInsensitive \in BOOLEAN

(* What the driver reads off a volume are unsigned fields: the root's and *)
(* the records' uint32 extent LBA and size, the uint8 record lengths; a  *)
(* caller reads at a uint64 location a uint64 count.                     *)
ASSUME ImagesAssumption ==
    \A im \in Images :
        /\ im.root \in [lba : Nat, size : Nat]
        /\ \A l \in DOMAIN im.dirs :
              /\ \A o \in DOMAIN im.dirs[l].len : im.dirs[l].len[o] \in Nat
              /\ \A o \in DOMAIN im.dirs[l].rec :
                    im.dirs[l].rec[o].lba \in Nat /\ im.dirs[l].rec[o].size \in Nat
ASSUME ReadReqsAssumption == ReadReqs \subseteq Nat \X Nat

(* ISO9660_MAX_EXTENT_COUNT is 65536: with a cap of 1 the first pass,     *)
(* which checks the count after raising it, would count two extents.    *)
ASSUME ExtentCapAssumption == MaxExtents >= 2

VARIABLES
    img,     \* the volume
    pc,      \* where the driver is: "idle", a step of open or read, "panic"
    op,      \* the locals of iso9660_open and iso9660_find_PVD
    ctx,     \* the context list holds this volume (its root is cached)
    live,    \* the handle allocations not yet freed: "ret", "ext"
    ndir,    \* directory buffers allocated by the walk and not yet freed
    handle,  \* the open iso9660_file_handle
    rd,      \* the locals of iso9660_read
    found,   \* (history) the last lookup of iso9660_find and its answer
    res      \* what the last iso9660_open returned

vars == <<img, pc, op, ctx, live, ndir, handle, rd, found, res>>

Null == -1

(* The root and the buffers of the walk: an LBA and a size in units.      *)
Buf(lba, size) == [lba |-> lba, size |-> size]

OpIdle == [path |-> <<>>, trailing |-> FALSE, first |-> TRUE, cur |-> Buf(0, 0),
           fpos |-> 0, fsize |-> 0, nsec |-> 0, nsize |-> 0, ecur |-> 0,
           cnt |-> 0, total |-> 0, exts |-> <<>>, dl |-> 0]
NoHandle == [open |-> FALSE, exts |-> <<>>, total |-> 0, ref |-> <<>>]
RdIdle == [ri |-> 0, estart |-> 0, loc |-> 0, count |-> 0, out |-> <<>>, req |-> <<>>]
NoFind == [dir |-> Buf(0, 0), name |-> [w |-> "", c |-> ""], at |-> Null]

-----------------------------------------------------------------------------
(* The directory bytes.  A buffer read from an LBA that holds no          *)
(* directory holds file data, modelled as zeros.                          *)
NoDir == [n |-> 0, len |-> <<>>, rec |-> <<>>, order |-> <<>>, wf |-> FALSE]
DirAt(lba) == IF lba \in DOMAIN img.dirs THEN img.dirs[lba] ELSE NoDir

Byte(c, o) ==
    IF o \in DOMAIN DirAt(c.lba).len THEN DirAt(c.lba).len[o] ELSE 0

(* The bytes inside a record read as a header parse as a nameless record. *)
JunkRec == [iso |-> [w |-> "?", c |-> "up"],
            sua |-> [pad |-> FALSE, sual |-> -1, ents |-> <<>>],
            multi |-> FALSE, lba |-> 0, size |-> 0]
RecAt(c, o) ==
    IF o \in DOMAIN DirAt(c.lba).rec THEN DirAt(c.lba).rec[o] ELSE JunkRec

(* volume_read fails past the end of the volume.                          *)
Readable(lba, off, n) == lba * Sector + off + n <= img.vsize

AlignUp(x) == ((x + Sector - 1) \div Sector) * Sector

-----------------------------------------------------------------------------
(* load_name.  The ISO name loses its ";1" or ".;1" version suffix; a     *)
(* name clipped because the record is shorter than its filename_size      *)
(* matches no lookup.  sual is entry->length - 33 - filename_size and pad *)
(* says that filename_size is even.                                       *)
NoName == [w |-> "", c |-> ""]
IsoName(r) == [w |-> r.iso.w, c |-> r.iso.c]
Clipped == [w |-> "?", c |-> "up"]

RRScan(es) ==
    LET scan[i \in Nat, rem \in Int] ==
            IF rem < 4 \/ i > Len(es) \/ es[i].ver # 1 THEN NoName
            ELSE IF es[i].len > rem THEN NoName
            ELSE IF es[i].sig = "NM" THEN IF es[i].len > 5 THEN es[i].name ELSE NoName
            ELSE IF es[i].len = 0 THEN NoName
            ELSE scan[i + 1, rem - es[i].len]
    IN  scan

LoadName(r) ==
    LET s == r.sua
        nm == RRScan(s.ents)[1, IF s.pad THEN s.sual - 1 ELSE s.sual]
    IN  IF s.sual < 0 THEN [rr |-> FALSE, name |-> Clipped]
        ELSE IF (s.pad /\ s.sual = 0) \/ nm = NoName
             THEN [rr |-> FALSE, name |-> IsoName(r)]
             ELSE [rr |-> TRUE, name |-> nm]

(* Mutant: Rock Ridge names compared without regard to case.             *)
MatchCaseless(ln, name) == ln.name.w = name.w

(* The comparison of iso9660_find.                                        *)
Match(ln, name) ==
    IF ln.rr /\ ~CaseInsensitive THEN ln.name = name ELSE ln.name.w = name.w

(* Mutant: no forced move when the size left is already whole sectors.   *)
PadSkipNoForce(pos, size) ==
    IF size <= Sector THEN [pos |-> Null, size |-> 0]
    ELSE [pos |-> pos + size - (size - (size % Sector)), size |-> size - (size % Sector)]

(* The step of iso9660_find over a zero length byte with size bytes left. *)
PadSkip(pos, size) ==
    LET a == size - (size % Sector)
        none == [pos |-> Null, size |-> 0]
    IN  IF size <= Sector THEN none
        ELSE IF a = size
             THEN IF a <= Sector THEN none
                  ELSE [pos |-> pos + Sector, size |-> a - Sector]
        ELSE [pos |-> pos + size - a, size |-> a]

(* iso9660_next_entry(o, buffer_end) in the buffer c.                     *)
NextEntry(c, o) ==
    LET Skip(x) == LET s == AlignUp(x + 1)
                   IN  IF s >= c.size \/ Byte(c, s) = 0 THEN Null ELSE s
        nx == o + Byte(c, o)
        e  == IF Byte(c, nx) = 0 THEN Skip(nx) ELSE nx
    IN  IF Byte(c, o) = 0 THEN Skip(o)
        ELSE IF nx >= c.size \/ e = Null \/ Byte(c, e) < MinRec THEN Null
        ELSE e

-----------------------------------------------------------------------------
Init ==
    /\ img \in Images
    /\ pc = "idle"
    /\ op = OpIdle
    /\ ctx = FALSE
    /\ live = {}
    /\ ndir = 0
    /\ handle = NoHandle
    /\ rd = RdIdle
    /\ found = NoFind
    /\ res = "none"

(* iso9660_open returns NULL or a handle; its locals are gone.            *)
ReturnNull ==
    /\ live' = live \ {"ret"}
    /\ pc' = "idle" /\ op' = OpIdle /\ res' = "null"
    /\ UNCHANGED handle

(* setup_handle: the handle takes the extent array (allocated just        *)
(* before) and the total size.                                            *)
SetupHandle(exts, total, ref) ==
    /\ live' = live \cup {"ext"}
    /\ handle' = [open |-> TRUE, exts |-> exts, total |-> total, ref |-> ref]
    /\ pc' = "idle" /\ op' = OpIdle /\ res' = "handle"

(* Mutant: the cached root is freed like a walk buffer.                  *)
FreeCurrentAlways == ndir - 1

(* Frees the walk's current buffer unless it is the cached root.          *)
FreeCurrent == ndir - (IF op.first THEN 0 ELSE 1)

(* iso9660_open: no "CD001" at 16 * 2048 + 1 returns NULL; otherwise it   *)
(* allocates ret and takes the context, scanning for the PVD on a miss.   *)
Open(p) ==
    /\ pc = "idle" /\ ~handle.open
    /\ rd' = RdIdle
    /\ \/ /\ ~img.cd
          /\ res' = "null"
          /\ UNCHANGED <<pc, op, ctx, live>>
       \/ /\ img.cd
          /\ live' = {"ret"}
          /\ op' = [OpIdle EXCEPT !.path = p.comps, !.trailing = p.trailing,
                                  !.cur = img.root]
          /\ pc' = IF ctx THEN "walk" ELSE "pvd"
          /\ UNCHANGED <<ctx, res>>
    /\ UNCHANGED <<img, ndir, handle, found>>

(* One iteration of iso9660_find_PVD's loop over the descriptors.         *)
PvdStep ==
    LET lba == 16 + op.dl
        type == IF op.dl < Len(img.desc) THEN img.desc[op.dl + 1] ELSE "other"
    IN  /\ pc = "pvd"
        /\ \/ op.dl >= MaxDesc /\ pc' = "panic" /\ UNCHANGED op
           \/ op.dl < MaxDesc /\ ~Readable(lba, 0, Sector)
              /\ pc' = "panic" /\ UNCHANGED op
           \/ op.dl < MaxDesc /\ Readable(lba, 0, Sector) /\ type = "primary"
              /\ pc' = "root" /\ UNCHANGED op
           \/ op.dl < MaxDesc /\ Readable(lba, 0, Sector) /\ type = "terminator"
              /\ pc' = "panic" /\ UNCHANGED op
           \/ op.dl < MaxDesc /\ Readable(lba, 0, Sector) /\ type = "other"
              /\ op' = [op EXCEPT !.dl = @ + 1] /\ UNCHANGED pc
        /\ UNCHANGED <<img, ctx, live, ndir, handle, rd, found, res>>

(* iso9660_cache_root and the rest of iso9660_get_context's miss.         *)
CacheRoot ==
    LET ok == img.root.size \in 1 .. MaxDir
    IN  /\ pc = "root"
        /\ \/ ~ok /\ pc' = "panic" /\ UNCHANGED ctx
           \/ ok /\ ~Readable(img.root.lba, 0, img.root.size)
              /\ pc' = "panic" /\ UNCHANGED ctx
           \/ ok /\ Readable(img.root.lba, 0, img.root.size)
              /\ ctx' = TRUE /\ pc' = "walk"
        /\ UNCHANGED <<img, op, live, ndir, handle, rd, found, res>>

(* The top of the walk: the end of the path (the root itself is refused;  *)
(* after a trailing slash the last directory becomes a single extent), or *)
(* iso9660_find on the next component.                                    *)
Walk ==
    /\ pc = "walk"
    /\ \/ op.path = <<>> /\ op.first /\ ReturnNull /\ UNCHANGED ndir
       \/ op.path = <<>> /\ ~op.first /\ ndir' = FreeCurrent
          /\ SetupHandle(<<Buf(op.nsec, op.nsize)>>, op.nsize,
                         <<Buf(op.nsec, op.nsize)>>)
       \/ op.path # <<>>
          /\ op' = [op EXCEPT !.fpos = 0, !.fsize = op.cur.size]
          /\ pc' = "find"
          /\ UNCHANGED <<live, ndir, handle, res>>
    /\ UNCHANGED <<img, ctx, rd, found>>

(* Mutant: not found returns without freeing the walk's buffer.          *)
FindFailsKeep ==
    /\ ndir' = ndir /\ ReturnNull
    /\ found' = [dir |-> op.cur, name |-> Head(op.path), at |-> Null]

(* iso9660_find gives up: not found frees the walk's buffer and ret.      *)
FindFails ==
    /\ ndir' = FreeCurrent /\ ReturnNull
    /\ found' = [dir |-> op.cur, name |-> Head(op.path), at |-> Null]

(* iso9660_find over a zero length byte (padding up to a sector).         *)
FindPad ==
    LET nx == PadSkip(op.fpos, op.fsize)
    IN  /\ pc = "find" /\ op.fsize > 0 /\ Byte(op.cur, op.fpos) = 0
        /\ \/ nx.pos = Null /\ FindFails
           \/ nx.pos # Null /\ op' = [op EXCEPT !.fpos = nx.pos, !.fsize = nx.size]
              /\ UNCHANGED <<pc, live, ndir, handle, found, res>>
        /\ UNCHANGED <<img, ctx, rd>>

(* iso9660_find at a record: a corrupt length ends the scan, a match      *)
(* returns it, any other record is stepped over.  On a match open takes  *)
(* the extent and either collects the file's extents or descends.         *)
FindEntry ==
    LET l == Byte(op.cur, op.fpos)
        r == RecAt(op.cur, op.fpos)
        last == Len(op.path) = 1 /\ ~op.trailing
    IN  /\ pc = "find" /\ op.fsize > 0 /\ l # 0
        /\ \/ (l > op.fsize \/ l < MinRec) /\ FindFails
           \/ /\ l \in MinRec .. op.fsize /\ Match(LoadName(r), Head(op.path))
              /\ op' = [op EXCEPT !.nsec = r.lba, !.nsize = r.size,
                                  !.ecur = op.fpos, !.cnt = 1, !.total = r.size]
              /\ pc' = IF last THEN "count" ELSE "descend"
              /\ found' = [dir |-> op.cur, name |-> Head(op.path), at |-> op.fpos]
              /\ UNCHANGED <<live, ndir, handle, res>>
           \/ /\ l \in MinRec .. op.fsize /\ ~Match(LoadName(r), Head(op.path))
              /\ op' = [op EXCEPT !.fpos = @ + l, !.fsize = @ - l]
              /\ UNCHANGED <<pc, live, ndir, handle, found, res>>
        /\ UNCHANGED <<img, ctx, rd>>

(* iso9660_find runs out of bytes.                                       *)
FindEnd == pc = "find" /\ op.fsize = 0 /\ FindFails /\ UNCHANGED <<img, ctx, rd>>

(* Past a directory component: free the walk's buffer, refuse a size of   *)
(* 0 or above the limit, allocate and read the child directory.           *)
Descend ==
    LET ok == op.nsize \in 1 .. MaxDir
        child == Buf(op.nsec, op.nsize)
    IN  /\ pc = "descend"
        /\ \/ ~ok /\ ndir' = FreeCurrent /\ ReturnNull
           \/ ok /\ ~Readable(op.nsec, 0, op.nsize) /\ ndir' = FreeCurrent
              /\ ReturnNull
           \/ ok /\ Readable(op.nsec, 0, op.nsize) /\ ndir' = FreeCurrent + 1
              /\ op' = [op EXCEPT !.path = Tail(@), !.first = FALSE, !.cur = child]
              /\ pc' = "walk"
              /\ UNCHANGED <<live, res>>
        /\ UNCHANGED <<img, ctx, handle, rd, found>>

(* The first pass over the extents: while the record has the multi-extent *)
(* flag, take iso9660_next_entry, up to MaxExtents records.  Then the     *)
(* extent array is allocated and the second pass starts from the match.   *)
StartFill == op' = [op EXCEPT !.ecur = op.fpos, !.exts = <<>>] /\ pc' = "fill"

CountExtents ==
    LET r == RecAt(op.cur, op.ecur)
        nx == NextEntry(op.cur, op.ecur)
        more == [op EXCEPT !.ecur = nx, !.cnt = @ + 1,
                           !.total = @ + RecAt(op.cur, nx).size]
    IN  /\ pc = "count"
        /\ \/ ~r.multi /\ StartFill
           \/ r.multi /\ nx = Null /\ StartFill
           \/ r.multi /\ nx # Null /\ op.cnt + 1 < MaxExtents
              /\ op' = more /\ UNCHANGED pc
           \/ r.multi /\ nx # Null /\ op.cnt + 1 >= MaxExtents
              /\ op' = [more EXCEPT !.ecur = op.fpos, !.exts = <<>>]
              /\ pc' = "fill"
        /\ UNCHANGED <<img, ctx, live, ndir, handle, rd, found, res>>

(* The second pass writes extent i and steps to the next record while i+1 *)
(* is below the count.  It follows the chain the first pass followed, so  *)
(* its own NULL check never fires.                                        *)
FillExtent ==
    LET r == RecAt(op.cur, op.ecur)
    IN  /\ pc = "fill" /\ Len(op.exts) < op.cnt
        /\ op' = [op EXCEPT !.exts = Append(@, Buf(r.lba, r.size)),
                            !.ecur = IF Len(op.exts) + 1 < op.cnt
                                     THEN NextEntry(op.cur, op.ecur) ELSE @]
        /\ UNCHANGED <<img, pc, ctx, live, ndir, handle, rd, found, res>>

(* The extents of the file as ECMA-119 lays them out: the records that   *)
(* follow the match in the directory, while they carry the multi-extent   *)
(* flag, within the buffer and up to MaxExtents of them.                  *)
InBuffer(c) == SelectSeq(DirAt(c.lba).order, LAMBDA o: o + Byte(c, o) <= c.size)
RefExtents(c, at) ==
    LET w == InBuffer(c)
        k == SelectInSeq(w, LAMBDA o: o = at)
        Stop(j) == j = Len(w) \/ ~RecAt(c, w[j]).multi \/ j - k + 1 = MaxExtents
        e == CHOOSE j \in k .. Len(w): Stop(j) /\ \A i \in k .. j - 1: ~Stop(i)
    IN  [i \in 1 .. e - k + 1 |-> Buf(RecAt(c, w[k + i - 1]).lba,
                                      RecAt(c, w[k + i - 1]).size)]

(* The end of the second pass: free the walk's buffer, set up the handle. *)
FillDone ==
    /\ pc = "fill" /\ Len(op.exts) = op.cnt
    /\ ndir' = FreeCurrent
    /\ SetupHandle(op.exts, op.total,
                   IF DirAt(op.cur.lba).wf THEN RefExtents(op.cur, op.fpos)
                   ELSE op.exts)
    /\ UNCHANGED <<img, ctx, rd, found>>

(* iso9660_read(loc, count): walk the extents in order.                   *)
Read(q) ==
    /\ pc = "idle" /\ handle.open
    /\ rd' = [RdIdle EXCEPT !.loc = q[1], !.count = q[2], !.req = q]
    /\ pc' = "read"
    /\ UNCHANGED <<img, op, ctx, live, ndir, handle, found, res>>

(* One extent of the loop: skip it, or read the part of it the request    *)
(* covers (a failed volume_read panics).                                  *)
(* Mutant: the disk offset leaves out offset_in_extent.                  *)
UnitsNoOffset(lba, off, n) == [k \in 1 .. n |-> lba * Sector + k - 1]
Units(lba, off, n) == [k \in 1 .. n |-> lba * Sector + off + k - 1]

ReadExtent ==
    LET x == handle.exts[rd.ri + 1]
        eend == rd.estart + x.size
        off == IF rd.loc > rd.estart THEN rd.loc - rd.estart ELSE 0
        tr == IF rd.count < x.size - off THEN rd.count ELSE x.size - off
    IN  /\ pc = "read" /\ rd.ri < Len(handle.exts) /\ rd.count > 0
        /\ \/ rd.loc >= eend
              /\ rd' = [rd EXCEPT !.ri = @ + 1, !.estart = eend] /\ UNCHANGED pc
           \/ rd.loc < eend /\ ~Readable(x.lba, off, tr) /\ pc' = "panic"
              /\ UNCHANGED rd
           \/ rd.loc < eend /\ Readable(x.lba, off, tr)
              /\ rd' = [rd EXCEPT !.ri = @ + 1, !.estart = eend,
                                  !.out = @ \o Units(x.lba, off, tr),
                                  !.loc = @ + tr, !.count = @ - tr]
              /\ UNCHANGED pc
        /\ UNCHANGED <<img, op, ctx, live, ndir, handle, found, res>>

ReadDone ==
    /\ pc = "read" /\ (rd.ri = Len(handle.exts) \/ rd.count = 0)
    /\ pc' = "idle"
    /\ UNCHANGED <<img, op, ctx, live, ndir, handle, rd, found, res>>

(* iso9660_close frees the extent array and ret.                          *)
Close ==
    /\ pc = "idle" /\ handle.open
    /\ live' = live \ {"ret", "ext"}
    /\ handle' = NoHandle /\ rd' = RdIdle
    /\ UNCHANGED <<img, pc, op, ctx, ndir, found, res>>

(* panic() halts the machine.                                             *)
Halt == pc = "panic" /\ UNCHANGED vars

Step ==
    \/ PvdStep \/ CacheRoot \/ Walk \/ FindEnd \/ FindPad \/ FindEntry \/ Descend
    \/ CountExtents \/ FillExtent \/ FillDone \/ ReadExtent \/ ReadDone

Next ==
    \/ \E p \in Paths : Open(p)
    \/ \E q \in ReadReqs : Read(q)
    \/ Close
    \/ Step
    \/ Halt

(* The driver runs alone on the boot CPU: once called it keeps stepping.  *)
Spec == Init /\ [][Next]_vars /\ WF_vars(Step)

-----------------------------------------------------------------------------
(* Every variable has its type; the scan of iso9660_find stays within the *)
(* buffer it was given.                                                   *)
TypeOK ==
    /\ pc \in {"idle", "pvd", "root", "walk", "find", "descend", "count",
               "fill", "read", "panic"}
    /\ op.fpos \in Nat /\ op.fsize \in Nat
    /\ pc = "find" => op.fpos + op.fsize = op.cur.size
    /\ op.cnt \in 0 .. MaxExtents /\ Len(op.exts) <= op.cnt
    /\ ctx \in BOOLEAN /\ live \subseteq {"ret", "ext"} /\ ndir \in Nat
    /\ handle.exts \in Seq([lba : Nat, size : Nat]) /\ handle.total \in Nat
    /\ rd.loc \in Nat /\ rd.count \in Nat /\ rd.out \in Seq(Nat)
    /\ res \in {"none", "null", "handle"}

(* The name of a record as section 4.4 of the spec decodes it: the        *)
(* payload of its Rock Ridge NM entry if it has one, else the ISO name     *)
(* without its version; a Rock Ridge name compares exactly unless the      *)
(* case-insensitive flag is set, an ISO name without regard to case.      *)
SpecName(r) ==
    LET k == SelectInSeq(r.sua.ents, LAMBDA e: e.sig = "NM")
    IN  IF k = 0 THEN [rr |-> FALSE, name |-> IsoName(r)]
        ELSE [rr |-> TRUE, name |-> r.sua.ents[k].name]
SpecMatch(ln, name) ==
    \/ ln.rr /\ ~CaseInsensitive /\ ln.name = name
    \/ (~ln.rr \/ CaseInsensitive) /\ ln.name.w = name.w
FirstMatch(c, name) ==
    LET w == InBuffer(c)
        k == SelectInSeq(w, LAMBDA o: SpecMatch(SpecName(RecAt(c, o)), name))
    IN  IF k = 0 THEN Null ELSE w[k]

(* iso9660_find, with load_name and the padding rule, answers a lookup in *)
(* a directory laid out as ECMA-119 does with the first record, in        *)
(* directory order, whose decoded name matches, and NULL when none does   *)
(* (spec 4.4, property 7 and scenario S4).                                *)
FindIsFirstMatch ==
    found # NoFind /\ DirAt(found.dir.lba).wf
        => found.at = FirstMatch(found.dir, found.name)

(* A read within the file's size returns the bytes of the file's extents, *)
(* as the directory lays them out, concatenated (spec property 6): the    *)
(* two passes of iso9660_open and the extent walk of iso9660_read agree.  *)
FileUnits ==
    FlattenSeq([i \in DOMAIN handle.ref |->
                   Units(handle.ref[i].lba, 0, handle.ref[i].size)])
ReadConcat ==
    pc = "idle" /\ rd.req # <<>> /\ rd.req[1] + rd.req[2] <= handle.total
        => rd.out = SubSeq(FileUnits, rd.req[1] + 1, rd.req[1] + rd.req[2])

(* When iso9660_open has returned, on every path (not found, bad size,    *)
(* failed read, trailing slash, multi-extent file) no directory buffer of *)
(* the walk is left allocated and the cached root was never freed, and    *)
(* ret and the extent array are allocated exactly while a handle is open. *)
NoLeak ==
    pc = "idle" =>
        /\ ndir = 0
        /\ live = IF handle.open THEN {"ret", "ext"} ELSE {}

(* Every call of iso9660_open or iso9660_read returns or panics: the scan *)
(* of iso9660_find always moves forward over padding and records.         *)
CallReturns == (pc \notin {"idle", "panic"}) ~> (pc \in {"idle", "panic"})

(* The multi-extent passes read the fields of each record they step to   *)
(* (extent, size, flags) inside the directory buffer, from a record at    *)
(* least a header long, as iso9660_find checks before it reads one.       *)
RecordsInBuffer ==
    pc \in {"count", "fill"} =>
        /\ op.ecur + MinRec <= op.cur.size
        /\ Byte(op.cur, op.ecur) >= MinRec
=============================================================================
