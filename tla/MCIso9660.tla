----------------------------- MODULE MCIso9660 -----------------------------
(***************************************************************************)
(* Volumes for Iso9660.  Sector = 8 units and MinRec = 2, so a sector     *)
(* holds two to four records; MaxDesc = 3, MaxDir = 16 (two sectors) and  *)
(* MaxExtents = 3.  Descriptors start at LBA 16, directories at 18.       *)
(***************************************************************************)
EXTENDS Iso9660, TLC

Name(w, c) == [w |-> w, c |-> c]
Iso(w, c, sfx) == [w |-> w, c |-> c, sfx |-> sfx]
SU(sig, len, ver, name) == [sig |-> sig, len |-> len, ver |-> ver, name |-> name]
NM(name) == SU("NM", 5 + 4, 1, name)
PX == SU("PX", 12, 1, NoName)
Sua(pad, sual, ents) == [pad |-> pad, sual |-> sual, ents |-> ents]
Rec(iso, sua, multi, lba, size) ==
    [iso |-> iso, sua |-> sua, multi |-> multi, lba |-> lba, size |-> size]

(* A record named name with a Rock Ridge area of a PX and an NM entry.    *)
RR(iso, name, multi, lba, size) ==
    Rec(iso, Sua(FALSE, 21, <<PX, NM(name)>>), multi, lba, size)
Plain(iso, pad, multi, lba, size) ==
    Rec(iso, Sua(pad, IF pad THEN 1 ELSE 0, <<>>), multi, lba, size)
Dot == Plain(Iso("\\0", "up", ""), FALSE, FALSE, 18, 16)

(* A directory of n units from its sectors, each a sequence of            *)
(* <<length, record>>: records back to back from the sector's start, the  *)
(* bytes inside a record read 1, the rest of the sector 0.  wf says the   *)
(* layout is the one ECMA-119 prescribes.                                  *)
Dir(ss, n, wf) ==
    LET P == UNION {{<<i, j>> : j \in 1 .. Len(ss[i])} : i \in DOMAIN ss}
        At(ij) == (ij[1] - 1) * Sector
                  + FoldLeft(LAMBDA a, x: a + x[1], 0, SubSeq(ss[ij[1]], 1, ij[2] - 1))
        Starts == {At(ij) : ij \in P}
        RecOf(o) == CHOOSE ij \in P : At(ij) = o
        Inside(o) == \E ij \in P : At(ij) < o /\ o < At(ij) + ss[ij[1]][ij[2]][1]
    IN  [n |-> n,
         len |-> [o \in 0 .. n - 1 |->
                    IF o \in Starts THEN ss[RecOf(o)[1]][RecOf(o)[2]][1]
                    ELSE IF Inside(o) THEN 1 ELSE 0],
         rec |-> [o \in Starts |-> ss[RecOf(o)[1]][RecOf(o)[2]][2]],
         order |-> FlattenSeq([i \in DOMAIN ss |->
                      [j \in 1 .. Len(ss[i]) |-> At(<<i, j>>)]]),
         wf |-> wf]

Image(cd, desc, vsize, root, dirs) ==
    [cd |-> cd, desc |-> desc, vsize |-> vsize, root |-> root, dirs |-> dirs]

(* The root (LBA 18, two sectors): ".", README in two extents across the *)
(* sector padding, the directory BOOT and KERNEL.  BOOT (LBA 20, two      *)
(* sectors, the first one empty) holds GRUB.CFG.  File data lies at LBAs *)
(* 21 .. 24.                                                               *)
Root ==
    Dir(<<<< <<2, Dot>>,
             <<3, RR(Iso("readme", "up", ";1"), Name("readme", "lo"), TRUE, 21, 3)>> >>,
          << <<3, RR(Iso("readme", "up", ";1"), Name("readme", "lo"), FALSE, 22, 4)>>,
             <<3, RR(Iso("boot", "up", ""), Name("boot", "lo"), FALSE, 20, 16)>>,
             <<2, Plain(Iso("kernel", "up", ".;1"), TRUE, FALSE, 23, 2)>> >> >>,
        16, TRUE)
Boot ==
    Dir(<<<< >>, << <<2, Dot>>,
             <<3, Rec(Iso("grub", "up", ";1"),
                      Sua(TRUE, 22, <<PX, NM(Name("grub", "lo"))>>), FALSE, 24, 5)>> >> >>,
        16, TRUE)
Good == Image(TRUE, <<"other", "primary">>, 25 * 8, Buf(18, 16),
              (18 :> Root) @@ (20 :> Boot))

(* A second volume whose root (two sectors) leads to damaged directories: *)
(* bad1 has a record shorter than a header, bad2 one longer than what is  *)
(* left, odd is 12 units long (its padding then misleads iso9660_find),   *)
(* zero has size 0, far lies past the volume, rr holds damaged Rock Ridge *)
(* areas, and big a file of four extents (one over the cap) and a file    *)
(* past the end of the volume.                                             *)
D(w, lba, size) == Plain(Iso(w, "up", ""), FALSE, FALSE, lba, size)
F(w, multi, lba) == Plain(Iso(w, "up", ";1"), FALSE, multi, lba, 2)
S(w, sua) == Rec(Iso(w, "up", ";1"), sua, FALSE, 39, 2)
Root2 ==
    Dir(<<<< <<2, Dot>>, <<2, D("bad1", 30, 8)>>, <<2, D("bad2", 31, 8)>>,
             <<2, D("odd", 32, 12)>> >>,
          << <<2, D("zero", 33, 0)>>, <<2, D("far", 90, 8)>>,
             <<2, D("rr", 34, 16)>>, <<2, D("big", 35, 8)>> >> >>,
        16, TRUE)
Bad1 == Dir(<<<< <<2, Dot>>, <<1, F("x", FALSE, 36)>> >> >>, 8, FALSE)
Bad2 == Dir(<<<< <<2, Dot>>, <<2, F("a", FALSE, 36)>>, <<5, F("x", FALSE, 36)>> >> >>,
            8, FALSE)
Odd(wf) == Dir(<<<< <<2, Dot>> >>, << <<3, F("x", FALSE, 36)>> >> >>, 12, wf)
RRDir ==
    Dir(<<<< <<2, Dot>>,
             <<2, S("a", Sua(FALSE, 21, <<SU("PX", 12, 2, NoName), NM(Name("q", "lo"))>>))>>,
             <<2, S("b", Sua(FALSE, 8, <<PX>>))>>,
             <<2, S("c", Sua(FALSE, 5, <<SU("NM", 5, 1, NoName)>>))>> >>,
          << <<2, S("d", Sua(FALSE, 10, <<SU("ZZ", 0, 1, NoName), NM(Name("q", "lo"))>>))>>,
             <<2, S("e", Sua(TRUE, 0, <<>>))>>,
             <<2, S("f", Sua(FALSE, -3, <<>>))>>,
             <<2, S("g", Sua(FALSE, 20, <<PX>>))>> >> >>,
        16, FALSE)
Big ==
    Dir(<<<< <<2, F("f", TRUE, 36)>>, <<2, F("f", TRUE, 37)>>, <<2, F("f", TRUE, 38)>>,
             <<2, F("g", TRUE, 99)>> >> >>,
        8, TRUE)
Rough(wf) == Image(TRUE, <<"primary">>, 40 * 8, Buf(18, 16),
                   (18 :> Root2) @@ (30 :> Bad1) @@ (31 :> Bad2) @@ (32 :> Odd(wf))
                   @@ (34 :> RRDir) @@ (35 :> Big))

(* Volumes that fail before the walk.                                     *)
Fails ==
    {Image(FALSE, <<>>, 25 * 8, Buf(18, 16), <<>>),
     Image(TRUE, <<"terminator">>, 25 * 8, Buf(18, 16), <<>>),
     Image(TRUE, <<"other", "other", "other">>, 25 * 8, Buf(18, 16), <<>>),
     Image(TRUE, <<"other">>, 17 * 8, Buf(18, 16), <<>>),
     Image(TRUE, <<"primary">>, 25 * 8, Buf(18, 0), <<>>),
     Image(TRUE, <<"primary">>, 25 * 8, Buf(24, 16), <<>>)}

(* A directory of one sector whose last record (at 7) starts less than a  *)
(* header before the end; the two records before it carry the            *)
(* multi-extent flag.                                                      *)
TailDir ==
    Dir(<<<< <<3, F("t", TRUE, 36)>>, <<4, F("t", TRUE, 37)>>, <<2, F("t", FALSE, 38)>> >> >>,
        8, FALSE)
TailImage == Image(TRUE, <<"primary">>, 40 * 8, Buf(18, 8), 18 :> TailDir)

P(comps, trailing) == [comps |-> comps, trailing |-> trailing]
MCPaths ==
    {P(<<Name("readme", "lo")>>, FALSE), P(<<Name("readme", "up")>>, FALSE),
     P(<<Name("boot", "lo"), Name("grub", "lo")>>, FALSE),
     P(<<Name("boot", "up")>>, TRUE), P(<<Name("kernel", "lo")>>, FALSE),
     P(<<Name("kernel", "lo"), Name("x", "lo")>>, FALSE),
     P(<<Name("boot", "lo"), Name("grub", "lo")>>, TRUE),
     P(<<Name("x", "lo")>>, FALSE), P(<<>>, TRUE)} \cup
    {P(<<Name(d, "lo"), Name("x", "lo")>>, FALSE) :
        d \in {"bad1", "bad2", "odd", "zero", "far"}} \cup
    {P(<<Name("rr", "lo"), Name(w, "lo")>>, FALSE) : w \in {"a", "q", "z"}} \cup
    {P(<<Name("big", "lo"), Name(w, "lo")>>, FALSE) : w \in {"f", "g"}} \cup
    {P(<<Name("t", "lo")>>, FALSE)}
MCReadReqs == {<<0, 7>>, <<2, 3>>, <<5, 9>>, <<0, 0>>}
MCImages == {Good, Rough(FALSE)} \cup Fails

(* The odd directory laid out by sectors as ECMA-119 does, but 12 units   *)
(* long: the S4 scenario on a directory whose size is not whole sectors.  *)
MCImagesOdd == {Rough(TRUE)}
MCImagesTail == {TailImage}
=============================================================================
