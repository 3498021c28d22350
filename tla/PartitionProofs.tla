-------------------------- MODULE PartitionProofs --------------------------
(***************************************************************************)
(* Proofs about the partition table parsers of part_001: every variable   *)
(* keeps its type, every child part_get returns is non-empty, with a GPT  *)
(* child spanning exactly its entry's blocks, and no two logical          *)
(* partitions come from the same EBR.                                     *)
(***************************************************************************)
EXTENDS Partition, TLAPS

(* TypeOK and ChildExact made inductive.  A call under way has a          *)
(* non-negative index, which is at most 3 on the primary path and above   *)
(* 3 on the extended one; the EBR walk stops at its index, which the      *)
(* MAX_LOGICAL_PARTITIONS limit keeps below the cap; the header probe     *)
(* tries 4096-byte blocks only after the 512-byte guess failed, so the   *)
(* block size it settles on is GptLb.                                      *)
PartInv ==
    /\ TypeOK
    /\ pc # "idle" => part \in 0 .. MaxIndex
    /\ pc = "gpt_probe" /\ gi = 2 => ~(SectorReadable(1) /\ 1 \in img.sig)
    /\ pc \in {"gpt_table", "gpt_entry"} => lb = GptLb
    /\ pc = "primary" => part <= 3
    /\ pc \in {"ext_scan", "logical"} => part > 3
    /\ pc = "ebr_walk" => li <= part - 4 /\ part - 4 < MaxLogical
    /\ ChildExact

(* ChildExact for one result.                                              *)
Exact(r) ==
    /\ r.code = "OK" => r.count > 0
    /\ r.code = "OK" /\ r.kind = "gpt" =>
          /\ r.first = EntryAt(r.at).start * GptLb
          /\ r.count = (EntryAt(r.at).end - EntryAt(r.at).start + 1) * GptLb

(* The EBR chain: the sector the link of the EBR at s names, and the      *)
(* walks of n steps from the first EBR that follow it.                    *)
Link(s) == EbrAt(s).link.first
Walks(n) == {w \in [0 .. n -> Nat] : w[0] = 0 /\ \A m \in 1 .. n : w[m] = Link(w[m - 1])}

(* Sector s is where every walk of n steps ends, and the walks of n steps *)
(* exist and move forward at every step.                                   *)
OnChain(n, s) ==
    /\ Walks(n) # {}
    /\ \A w \in Walks(n) : w[n] = s /\ \A a, b \in 0 .. n : a < b => w[a] < w[b]

(* LogicalDistinct made inductive: the walk under way and every logical   *)
(* result sit on the chain, at the step their index names.                *)
DistInv ==
    /\ pc = "ebr_walk" => OnChain(li, ebr)
    /\ \A p \in Idx : results[p].kind = "logical" => p >= 4 /\ OnChain(p - 4, results[p].at)
-----------------------------------------------------------------------------
(* lb_guesses[] holds 1 and 8 (512- and 4096-byte blocks).                 *)
LEMMA LbFacts ==
    /\ Len(LbGuesses) = 2 /\ LbGuesses[1] = 1 /\ LbGuesses[2] = 8
    /\ {LbGuesses[i] : i \in 1 .. Len(LbGuesses)} = {1, 8}
  BY DEF LbGuesses

(* The fields of the image the parsers read are naturals.                  *)
LEMMA ImgFacts ==
    ASSUME img \in Images
    PROVE  /\ img.disk \in Nat /\ img.sig \subseteq Nat /\ img.mbr \in BOOLEAN
           /\ img.hdr \in [rev : BOOLEAN, n : Nat, esize : Nat, elba : Nat]
           /\ \A q \in DOMAIN img.ents :
                 img.ents[q] \in [guid : BOOLEAN, start : 0 .. (Word - 1), end : 0 .. (Word - 1)]
           /\ \A i \in 0 .. 3 : img.prim[i].first \in Nat /\ img.prim[i].count \in Nat
           /\ \A s \in DOMAIN img.ebr :
                 /\ img.ebr[s].link.first \in Nat
                 /\ img.ebr[s].entry.first \in Nat /\ img.ebr[s].entry.count \in Nat
  BY ImagesAssumption

(* An EBR read from the image, or the zeros of an absent one, has natural  *)
(* fields; so has a GPT entry, with LBAs below 2^64.                       *)
LEMMA EbrAtFacts ==
    ASSUME img \in Images, NEW s
    PROVE  /\ EbrAt(s).link.first \in Nat
           /\ EbrAt(s).entry.first \in Nat /\ EbrAt(s).entry.count \in Nat
  BY ImgFacts DEF EbrAt, ZeroEbr

LEMMA EntryAtFacts ==
    ASSUME img \in Images, NEW q
    PROVE  EntryAt(q) \in [guid : BOOLEAN, start : 0 .. (Word - 1), end : 0 .. (Word - 1)]
  BY ImgFacts, WordAssumption DEF EntryAt, ZeroEntry

(* A value below the modulus is its own remainder.                         *)
LEMMA ModSmall ==
    ASSUME NEW x \in 0 .. (Word - 1)
    PROVE  x % Word = x
  BY WordAssumption

(* ChildExact is Exact of every result.                                    *)
LEMMA ExactAll ==
    ChildExact <=> \A p \in Idx : Exact(results[p])
  BY DEF ChildExact, Exact

(* Setting the result of one index to a well-typed exact result keeps the *)
(* results typed and exact.                                               *)
LEMMA SetResult ==
    ASSUME NEW r \in Result, Exact(r), NEW q \in Idx, results \in [Idx -> Result],
           ChildExact, results' = [results EXCEPT ![q] = r], img' = img
    PROVE  results' \in [Idx -> Result] /\ ChildExact'
<1>1. \A p \in Idx : Exact(results'[p])
  BY ExactAll
<1>2. ChildExact'
  BY <1>1, img' = img DEF ChildExact, Exact, EntryAt, GptLb, SectorReadable
<1>3. QED
  BY <1>2

(* A call that returns such a result.                                      *)
LEMMA ReturnStep ==
    ASSUME NEW r \in Result, Exact(r), part \in Idx, results \in [Idx -> Result],
           ChildExact, Return(r), img' = img
    PROVE  results' \in [Idx -> Result] /\ ChildExact' /\ pc' = "idle"
  BY SetResult DEF Return

-----------------------------------------------------------------------------
(* A step that leaves the image and the results alone keeps ChildExact.    *)
LEMMA ExactFrame ==
    ASSUME ChildExact, UNCHANGED <<img, results>>
    PROVE  ChildExact'
  BY DEF ChildExact, EntryAt, GptLb, SectorReadable

(* A result that is not OK is well typed and exact.                       *)
LEMMA ResFacts ==
    ASSUME NEW c \in Codes \ {"OK"}
    PROVE  Res(c) \in Result /\ Exact(Res(c))
  BY DEF Res, Result, Exact

LEMMA InitInv ==
    ASSUME Init
    PROVE  PartInv
<1>1. Res("NONE") \in Result /\ Exact(Res("NONE"))
  BY ResFacts DEF Codes
<1>2. TypeOK
  BY <1>1, LbFacts, WordAssumption, MaxLogicalAssumption, MaxIndexAssumption DEF Init, TypeOK, Idx
<1>3. ChildExact
  BY <1>1, ExactAll DEF Init
<1>4. QED
  BY <1>2, <1>3 DEF Init, PartInv

LEMMA CallStep ==
    ASSUME PartInv, NEW p \in Idx, Call(p)
    PROVE  PartInv'
<1>1. TypeOK /\ ChildExact
  BY DEF PartInv
<1>2. results' \in [Idx -> Result] /\ ChildExact'
  <2>1. CASE p < 0
    <3>1. Res("NO_PARTITION") \in Result /\ Exact(Res("NO_PARTITION"))
      BY ResFacts DEF Codes
    <3>2. results' = [results EXCEPT ![p] = Res("NO_PARTITION")] /\ img' = img
      BY <2>1 DEF Call, Idx
    <3>. QED
      BY <1>1, <3>1, <3>2, SetResult DEF TypeOK
  <2>2. CASE p >= 0
    <3>1. UNCHANGED <<img, results>>
      BY <2>2 DEF Call, Idx
    <3>. QED
      BY <1>1, <3>1, ExactFrame DEF TypeOK
  <2>. QED
    BY <2>1, <2>2 DEF Idx
<1>3. pc' \in {"idle", "gpt_probe"} /\ (pc' = "gpt_probe" => part' \in 0 .. MaxIndex)
  BY DEF Call, Idx
<1>4. TypeOK'
  BY <1>1, <1>2, <1>3, LbFacts DEF Call, TypeOK
<1>. QED
  BY <1>2, <1>3, <1>4 DEF Call, PartInv

(* The header probe: the block size it settles on is the first guess      *)
(* whose sector holds the signature.                                       *)
LEMMA GptProbeStep ==
    ASSUME PartInv, GptProbe
    PROVE  PartInv'
<1>1. TypeOK /\ ChildExact /\ part \in 0 .. MaxIndex
      /\ (gi = 2 => ~(SectorReadable(1) /\ 1 \in img.sig))
  BY DEF PartInv, GptProbe
<1>2. gi \in {1, 2}
  BY <1>1, LbFacts DEF TypeOK
<1>3. ChildExact' /\ UNCHANGED <<img, part, results>>
  BY <1>1, ExactFrame DEF GptProbe
<1> DEFINE s == LbGuesses[gi]
<1>4. CASE SectorReadable(s) /\ s \in img.sig
  <2>1. lb' = s /\ pc' = "gpt_table" /\ gi' = gi
    BY <1>4 DEF GptProbe
  <2>2. s = GptLb
    BY <1>1, <1>2, <1>4, LbFacts DEF GptLb
  <2>3. lb' \in {1, 8}
    BY <1>2, <2>1, LbFacts
  <2>. QED
    BY <1>1, <1>3, <2>1, <2>2, <2>3, LbFacts DEF GptProbe, PartInv, TypeOK, GptLb, SectorReadable
<1>5. CASE ~(SectorReadable(s) /\ s \in img.sig) /\ gi = 1
  <2>1. gi' = 2 /\ pc' = "gpt_probe" /\ lb' = lb
    BY <1>5, LbFacts DEF GptProbe
  <2>2. ~(SectorReadable(1) /\ 1 \in img.sig)
    BY <1>5, LbFacts
  <2>. QED
    BY <1>1, <1>3, <2>1, <2>2, LbFacts DEF GptProbe, PartInv, TypeOK, SectorReadable
<1>6. CASE ~(SectorReadable(s) /\ s \in img.sig) /\ gi = 2
  <2>1. pc' = "mbr" /\ gi' = gi /\ lb' = lb
    BY <1>6, LbFacts DEF GptProbe
  <2>. QED
    BY <1>1, <1>3, <2>1 DEF GptProbe, PartInv, TypeOK
<1>. QED
  BY <1>2, <1>4, <1>5, <1>6

(* The header checks: the entry offset part_get goes on with is below     *)
(* 2^64, and a refused header leaves the results or returns END_OF_TABLE. *)
LEMMA GptTableStep ==
    ASSUME PartInv, GptTable
    PROVE  PartInv'
<1>1. TypeOK /\ ChildExact /\ part \in 0 .. MaxIndex /\ lb = GptLb
  BY DEF PartInv, GptTable
<1>2. img.hdr \in [rev : BOOLEAN, n : Nat, esize : Nat, elba : Nat]
  BY <1>1, ImgFacts DEF TypeOK
<1>3. UNCHANGED <<img, part, gi, lb, ei, ext, ebr, li>>
  BY DEF GptTable
<1> DEFINE h == img.hdr
           base == h.elba * lb * Quanta
           off == (base % Word) + part * h.esize
<1>4. base \in Nat /\ off \in Nat /\ part \in Nat /\ h.n \in Nat /\ h.esize \in Nat
  BY <1>1, <1>2, LbFacts, WordAssumption DEF TypeOK, Quanta
<1>5. \/ ~h.rev /\ pc' = "mbr" /\ UNCHANGED <<results, eoff>>
      \/ h.rev /\ part < h.n /\ (h.esize = 0 \/ base >= Word \/ off >= Word)
            /\ pc' = "mbr" /\ UNCHANGED <<results, eoff>>
      \/ h.rev /\ part >= h.n /\ Return(Res("END_OF_TABLE")) /\ UNCHANGED eoff
      \/ h.rev /\ part < h.n /\ h.esize > 0 /\ base < Word /\ off < Word
            /\ eoff' = off /\ pc' = "gpt_entry" /\ UNCHANGED results
  BY Zenon DEF GptTable, FallBack
<1> HIDE DEF base, off
<1>6. CASE pc' = "mbr" /\ UNCHANGED <<results, eoff>>
  <2>1. UNCHANGED <<img, results>>
    BY <1>3, <1>6
  <2>2. ChildExact'
    BY <1>1, <2>1, ExactFrame
  <2>. QED
    BY <1>1, <1>3, <1>6, <2>2 DEF PartInv, TypeOK
<1>7. CASE Return(Res("END_OF_TABLE")) /\ UNCHANGED eoff
  <2>2. Res("END_OF_TABLE") \in Result /\ Exact(Res("END_OF_TABLE"))
    BY ResFacts DEF Codes
  <2>3. results' \in [Idx -> Result] /\ ChildExact' /\ pc' = "idle"
    BY <1>1, <1>3, <1>7, <2>2, ReturnStep DEF TypeOK
  <2>. QED
    BY <1>1, <1>3, <1>7, <2>3 DEF PartInv, TypeOK
<1>8. CASE off < Word /\ eoff' = off /\ pc' = "gpt_entry" /\ UNCHANGED results
  <2>1. eoff' \in 0 .. (Word - 1)
    BY <1>4, <1>8, WordAssumption
  <2>2. UNCHANGED <<img, results>>
    BY <1>3, <1>8
  <2>3. ChildExact'
    BY <1>1, <2>2, ExactFrame
  <2>. QED
    BY <1>1, <1>3, <1>8, <2>1, <2>3 DEF PartInv, TypeOK, GptLb, SectorReadable
<1>. QED
  BY <1>5, <1>6, <1>7, <1>8

(* A call that returns a result that is not OK keeps the invariant.       *)
LEMMA RefuseStep ==
    ASSUME PartInv, NEW c \in Codes \ {"OK"}, Return(Res(c)),
           UNCHANGED <<img, part, gi, lb, eoff, ei>>,
           ext' \in [first : Nat, count : Nat, cache : BOOLEAN],
           ebr' \in Nat, li' \in 0 .. (MaxLogical - 1)
    PROVE  PartInv'
<1>1. TypeOK /\ ChildExact
  BY DEF PartInv
<1>2. Res(c) \in Result /\ Exact(Res(c))
  BY ResFacts
<1>3. results' \in [Idx -> Result] /\ ChildExact' /\ pc' = "idle"
  BY <1>1, <1>2, ReturnStep DEF TypeOK
<1>. QED
  BY <1>1, <1>3 DEF PartInv, TypeOK

(* The GPT entry: a child is built only from an entry with starting_lba  *)
(* <= ending_lba whose size + 1 and both products by lb_size / 512 stay   *)
(* below 2^64, so it spans exactly the entry's blocks.                    *)
LEMMA GptEntryStep ==
    ASSUME PartInv, GptEntry
    PROVE  PartInv'
<1>1. TypeOK /\ ChildExact /\ lb = GptLb
  BY DEF PartInv, GptEntry
<1> DEFINE e == EntryAt(eoff)
           size == e.end - e.start
           blocks == (size + 1) % Word
<1>2. \/ Return(Res("END_OF_TABLE"))
      \/ Return(Res("NO_PARTITION"))
      \/ /\ e.end >= e.start /\ size # Word - 1
         /\ Return(Child("gpt", e.start * lb, blocks * lb, eoff))
  BY Zenon DEF GptEntry
<1>3. UNCHANGED <<img, part, gi, lb, eoff, ei, ext, ebr, li>>
  BY DEF GptEntry
<1>4. CASE Return(Res("END_OF_TABLE")) \/ Return(Res("NO_PARTITION"))
  BY <1>3, <1>4, RefuseStep DEF Codes, PartInv, TypeOK
<1>5. CASE /\ e.end >= e.start /\ size # Word - 1
           /\ Return(Child("gpt", e.start * lb, blocks * lb, eoff))
  <2>1. e \in [guid : BOOLEAN, start : 0 .. (Word - 1), end : 0 .. (Word - 1)]
    BY <1>1, EntryAtFacts DEF TypeOK
  <2>2. size + 1 \in 0 .. (Word - 1)
    BY <1>5, <2>1, WordAssumption
  <2>3. blocks = size + 1
    BY <2>2, ModSmall
  <2> HIDE DEF blocks
  <2>4. lb \in {1, 8} /\ eoff \in Nat
    BY <1>1, LbFacts DEF TypeOK
  <2>9. e.start \in Nat /\ e.end \in Nat /\ blocks \in Nat \ {0}
        /\ blocks = e.end - e.start + 1
    BY <1>5, <2>1, <2>2, <2>3
  <2>8. e.start * lb \in Nat /\ blocks * lb \in Nat /\ blocks * lb > 0
        /\ blocks * lb = (e.end - e.start + 1) * lb
    BY <2>9, <2>4
  <2> DEFINE r == Child("gpt", e.start * lb, blocks * lb, eoff)
  <2>5. r \in Result
    BY <2>4, <2>8 DEF Child, Result, Codes
  <2>6. Exact(r)
    BY <1>1, <2>8 DEF Child, Exact
  <2>7. results' \in [Idx -> Result] /\ ChildExact' /\ pc' = "idle"
    BY <1>1, <1>3, <1>5, <2>5, <2>6, ReturnStep DEF TypeOK
  <2>. QED
    BY <1>1, <1>3, <2>7 DEF PartInv, TypeOK
<1>. QED
  BY <1>2, <1>4, <1>5

(* A child built from an MBR or EBR entry of non-zero size is well typed   *)
(* and exact.                                                              *)
LEMMA MbrChild ==
    ASSUME NEW k \in {"primary", "logical"}, NEW f \in Nat, NEW n \in Nat \ {0},
           NEW a \in Nat
    PROVE  Child(k, f, n, a) \in Result /\ Exact(Child(k, f, n, a))
  BY DEF Child, Result, Codes, Exact

(* is_valid_mbr: a refused MBR ends the call, an index up to 3 is a        *)
(* primary entry and a larger one a logical partition.                    *)
LEMMA MbrValidStep ==
    ASSUME PartInv, MbrValid
    PROVE  PartInv'
<1>1. TypeOK /\ ChildExact /\ part \in 0 .. MaxIndex
  BY DEF PartInv, MbrValid
<1>2. UNCHANGED <<img, part, gi, lb, eoff, ext, ebr, li>>
  BY DEF MbrValid
<1>3. \/ Return(Res("INVALID_TABLE")) /\ UNCHANGED ei
      \/ part <= 3 /\ pc' = "primary" /\ UNCHANGED <<results, ei>>
      \/ part > 3 /\ pc' = "ext_scan" /\ ei' = 0 /\ UNCHANGED results
  BY Zenon DEF MbrValid
<1>4. CASE Return(Res("INVALID_TABLE")) /\ UNCHANGED ei
  BY <1>1, <1>2, <1>4, RefuseStep DEF Codes, PartInv, TypeOK
<1>5. CASE part <= 3 /\ pc' = "primary" /\ UNCHANGED <<results, ei>>
  <2>1. ChildExact'
    BY <1>2, <1>1, <1>5, ExactFrame
  <2>. QED
    BY <1>1, <1>2, <1>5, <2>1 DEF PartInv, TypeOK
<1>6. CASE part > 3 /\ pc' = "ext_scan" /\ ei' = 0 /\ UNCHANGED results
  <2>1. ChildExact'
    BY <1>2, <1>1, <1>6, ExactFrame
  <2>. QED
    BY <1>1, <1>2, <1>6, <2>1 DEF PartInv, TypeOK
<1>. QED
  BY <1>3, <1>4, <1>5, <1>6

(* A primary entry: only one of non-zero size becomes a child.            *)
LEMMA MbrPrimaryStep ==
    ASSUME PartInv, MbrPrimary
    PROVE  PartInv'
<1>1. TypeOK /\ ChildExact /\ part \in 0 .. 3
  BY DEF PartInv, MbrPrimary
<1>2. UNCHANGED <<img, part, gi, lb, eoff, ei, ext, ebr, li>>
  BY DEF MbrPrimary
<1>3. img.prim[part].first \in Nat /\ img.prim[part].count \in Nat
  BY <1>1, ImgFacts DEF TypeOK
<1>4. CASE Return(Res("NO_PARTITION"))
  BY <1>1, <1>2, <1>4, RefuseStep DEF Codes, PartInv, TypeOK
<1>5. CASE img.prim[part].count > 0
           /\ Return(Child("primary", img.prim[part].first, img.prim[part].count, part))
  <2>1. Child("primary", img.prim[part].first, img.prim[part].count, part) \in Result
        /\ Exact(Child("primary", img.prim[part].first, img.prim[part].count, part))
    BY <1>1, <1>3, <1>5, MbrChild
  <2>2. results' \in [Idx -> Result] /\ ChildExact' /\ pc' = "idle"
    BY <1>1, <1>2, <1>5, <2>1, ReturnStep DEF TypeOK
  <2>. QED
    BY <1>1, <1>2, <2>2 DEF PartInv, TypeOK
<1>. QED
  BY <1>4, <1>5 DEF MbrPrimary

(* The search for the extended entry: extended_part takes that entry's    *)
(* first sector and size, and the search ends at the fourth entry.        *)
LEMMA ExtScanStep ==
    ASSUME PartInv, ExtScan
    PROVE  PartInv'
<1>1. TypeOK /\ ChildExact /\ part \in 0 .. MaxIndex /\ part > 3
  BY DEF PartInv, ExtScan
<1>2. UNCHANGED <<img, part, gi, lb, eoff, ebr, li>>
  BY DEF ExtScan
<1>3. \/ Return(Res("END_OF_TABLE")) /\ UNCHANGED <<ei, ext>>
      \/ ei < 4 /\ ei' = ei + 1 /\ UNCHANGED <<pc, results, ext>>
      \/ ei < 4 /\ pc' = "logical" /\ UNCHANGED <<results, ei>>
         /\ ext' = [first |-> img.prim[ei].first, count |-> img.prim[ei].count,
                    cache |-> FALSE]
  BY Zenon DEF ExtScan
<1>4. CASE Return(Res("END_OF_TABLE")) /\ UNCHANGED <<ei, ext>>
  BY <1>1, <1>2, <1>4, RefuseStep DEF Codes, PartInv, TypeOK
<1>5. CASE ei < 4 /\ ei' = ei + 1 /\ UNCHANGED <<pc, results, ext>>
  <2>1. ChildExact'
    BY <1>2, <1>1, <1>5, ExactFrame
  <2>2. ei' \in 0 .. 4
    BY <1>1, <1>5 DEF TypeOK
  <2>3. TypeOK'
    BY <1>1, <1>2, <1>5, <2>2 DEF TypeOK
  <2>. QED
    BY <1>2, <1>5, <2>1, <2>3 DEF PartInv, GptLb, SectorReadable
<1>6. CASE ei < 4 /\ pc' = "logical" /\ UNCHANGED <<results, ei>>
           /\ ext' = [first |-> img.prim[ei].first, count |-> img.prim[ei].count,
                      cache |-> FALSE]
  <2>0. ei \in 0 .. 3 /\ img \in Images
    BY <1>1, <1>6 DEF TypeOK
  <2>3. img.prim[ei].first \in Nat /\ img.prim[ei].count \in Nat
    BY <2>0, ImgFacts
  <2>1. ext' \in [first : Nat, count : Nat, cache : BOOLEAN]
    BY <1>6, <2>3
  <2>2. ChildExact'
    BY <1>2, <1>1, <1>6, ExactFrame
  <2>. QED
    BY <1>1, <1>2, <1>6, <2>1, <2>2 DEF PartInv, TypeOK
<1>. QED
  BY <1>3, <1>4, <1>5, <1>6

(* mbr_get_logical_part's entry: an index at or past                      *)
(* MAX_LOGICAL_PARTITIONS ends the call, any other starts the walk.       *)
LEMMA LogicalStartStep ==
    ASSUME PartInv, LogicalStart
    PROVE  PartInv'
<1>1. TypeOK /\ ChildExact /\ part \in 0 .. MaxIndex /\ part > 3
  BY DEF PartInv, LogicalStart
<1>2. UNCHANGED <<img, part, gi, lb, eoff, ei, ext>>
  BY DEF LogicalStart
<1>3. \/ Return(Res("END_OF_TABLE")) /\ UNCHANGED <<ebr, li>>
      \/ part - 4 < MaxLogical /\ ebr' = 0 /\ li' = 0 /\ pc' = "ebr_walk"
         /\ UNCHANGED results
  BY Zenon DEF LogicalStart
<1>4. CASE Return(Res("END_OF_TABLE")) /\ UNCHANGED <<ebr, li>>
  BY <1>1, <1>2, <1>4, RefuseStep DEF Codes, PartInv, TypeOK
<1>5. CASE part - 4 < MaxLogical /\ ebr' = 0 /\ li' = 0 /\ pc' = "ebr_walk"
           /\ UNCHANGED results
  <2>1. ChildExact'
    BY <1>2, <1>1, <1>5, ExactFrame
  <2>2. li' \in 0 .. (MaxLogical - 1) /\ li' <= part' - 4
    BY <1>1, <1>2, <1>5, MaxLogicalAssumption
  <2>. QED
    BY <1>1, <1>2, <1>5, <2>1, <2>2 DEF PartInv, TypeOK
<1>. QED
  BY <1>3, <1>4, <1>5

(* A read through extended_part keeps its type.                           *)
LEMMA ExtReadType ==
    ASSUME ext \in [first : Nat, count : Nat, cache : BOOLEAN], NEW s, ExtRead(s)
    PROVE  ext' \in [first : Nat, count : Nat, cache : BOOLEAN]
  BY DEF ExtRead

(* One step of the EBR walk: it moves to a natural sector, and the        *)
(* guard li < part - 4 keeps the step count within the index's budget.    *)
LEMMA EbrStepStep ==
    ASSUME PartInv, EbrStep
    PROVE  PartInv'
<1>1. TypeOK /\ ChildExact /\ part \in 0 .. MaxIndex
      /\ li < part - 4 /\ part - 4 < MaxLogical
  BY DEF PartInv, EbrStep
<1>2. UNCHANGED <<img, part, gi, lb, eoff, ei>>
      /\ ext' \in [first : Nat, count : Nat, cache : BOOLEAN]
  BY <1>1, ExtReadType DEF EbrStep, TypeOK
<1>3. \/ Return(Res("END_OF_TABLE")) /\ UNCHANGED <<ebr, li>>
      \/ ebr' = EbrAt(ebr).link.first /\ li' = li + 1 /\ UNCHANGED <<pc, results>>
  BY Zenon DEF EbrStep, ExtReturn
<1>4. CASE Return(Res("END_OF_TABLE")) /\ UNCHANGED <<ebr, li>>
  BY <1>1, <1>2, <1>4, RefuseStep DEF Codes, PartInv, TypeOK
<1>5. CASE ebr' = EbrAt(ebr).link.first /\ li' = li + 1 /\ UNCHANGED <<pc, results>>
  <2>1. pc = "ebr_walk"
    BY DEF EbrStep
  <2>2. ebr' \in Nat
    BY <1>1, <1>5, EbrAtFacts DEF TypeOK
  <2>3. li' \in 0 .. (MaxLogical - 1) /\ li' <= part' - 4
    BY <1>1, <1>2, <1>5, MaxIndexAssumption, MaxLogicalAssumption DEF TypeOK
  <2>4. ChildExact'
    BY <1>1, <1>2, <1>5, ExactFrame
  <2>5. TypeOK'
    BY <1>1, <1>2, <1>5, <2>2, <2>3 DEF TypeOK
  <2>. QED
    BY <1>1, <1>2, <1>5, <2>1, <2>3, <2>4, <2>5 DEF PartInv
<1>. QED
  BY <1>3, <1>4, <1>5

(* The walk has arrived: a logical child lies at the EBR's sector plus    *)
(* the entry's offset, and only an entry of non-zero size becomes one.    *)
LEMMA LogicalEntryStep ==
    ASSUME PartInv, LogicalEntry
    PROVE  PartInv'
<1>1. TypeOK /\ ChildExact /\ part \in 0 .. MaxIndex
  BY DEF PartInv, LogicalEntry
<1>2. UNCHANGED <<img, part, gi, lb, eoff, ei, ebr, li>>
      /\ ext' \in [first : Nat, count : Nat, cache : BOOLEAN]
  BY <1>1, ExtReadType DEF LogicalEntry, TypeOK, ExtReturn
<1> DEFINE e == EbrAt(ebr).entry
<1>3. \/ Return(Res("END_OF_TABLE"))
      \/ Return(Res("NO_PARTITION"))
      \/ e.count > 0 /\ Return(Child("logical", ext.first + ebr + e.first, e.count, ebr))
  BY Zenon DEF LogicalEntry, ExtReturn
<1>4. CASE Return(Res("END_OF_TABLE")) \/ Return(Res("NO_PARTITION"))
  BY <1>1, <1>2, <1>4, RefuseStep DEF Codes, PartInv, TypeOK
<1>5. CASE e.count > 0 /\ Return(Child("logical", ext.first + ebr + e.first, e.count, ebr))
  <2>1. e.first \in Nat /\ e.count \in Nat /\ ext.first \in Nat /\ ebr \in Nat
    BY <1>1, EbrAtFacts DEF TypeOK
  <2>2. Child("logical", ext.first + ebr + e.first, e.count, ebr) \in Result
        /\ Exact(Child("logical", ext.first + ebr + e.first, e.count, ebr))
    BY <1>5, <2>1, MbrChild
  <2>3. results' \in [Idx -> Result] /\ ChildExact' /\ pc' = "idle"
    BY <1>1, <1>2, <1>5, <2>2, ReturnStep DEF TypeOK
  <2>. QED
    BY <1>1, <1>2, <2>3 DEF PartInv, TypeOK
<1>. QED
  BY <1>3, <1>4, <1>5

(* Every step of part_get, and a stutter, keeps PartInv.                    *)
LEMMA PartStep ==
    ASSUME PartInv, [Next]_vars
    PROVE  PartInv'
<1>1. CASE \E p \in Idx : Call(p)
  BY <1>1, CallStep
<1>2. CASE UNCHANGED vars
  <2>1. ChildExact'
    BY <1>2, ExactFrame DEF PartInv, vars
  <2>. QED
    BY <1>2, <2>1 DEF PartInv, TypeOK, vars, GptLb, SectorReadable
<1>. QED
  BY <1>1, <1>2, GptProbeStep, GptTableStep, GptEntryStep, MbrValidStep,
     MbrPrimaryStep, ExtScanStep, LogicalStartStep, EbrStepStep, LogicalEntryStep
  DEF Next

(* part_get keeps every variable within its type: in particular the EBR   *)
(* walk never takes more than MAX_LOGICAL_PARTITIONS - 1 steps, and every  *)
(* result it records is a well-formed result.                              *)
THEOREM PartitionTypeCorrect == Spec => []TypeOK
<1>1. Init => PartInv
  BY InitInv
<1>2. PartInv /\ [Next]_vars => PartInv'
  BY PartStep
<1>3. PartInv => TypeOK
  BY DEF PartInv
<1>. QED
  BY <1>1, <1>2, <1>3, PTL DEF Spec

(* Every child part_get returns is non-empty, and a child of a GPT entry  *)
(* spans exactly the entry's logical blocks in 512-byte units: the        *)
(* overflow checks of gpt_get_part leave no wrapped size or start.        *)
THEOREM ChildExactCorrect == Spec => []ChildExact
<1>1. Init => PartInv
  BY InitInv
<1>2. PartInv /\ [Next]_vars => PartInv'
  BY PartStep
<1>3. PartInv => ChildExact
  BY DEF PartInv
<1>. QED
  BY <1>1, <1>2, <1>3, PTL DEF Spec
-----------------------------------------------------------------------------
(* The EBR chain.                                                          *)

(* The link of any EBR, read or absent, names a natural sector.            *)
LEMMA LinkNat ==
    ASSUME img \in Images, NEW s
    PROVE  Link(s) \in Nat
  BY EbrAtFacts DEF Link

(* The first n + 1 sectors of a walk are a walk of k steps, for k <= n.    *)
LEMMA WalkPrefix ==
    ASSUME NEW n \in Nat, NEW k \in 0 .. n, NEW v \in Walks(n)
    PROVE  [m \in 0 .. k |-> v[m]] \in Walks(k)
  BY DEF Walks

(* The walk of no step is the first EBR, sector 0.                         *)
LEMMA ChainStart ==
    /\ OnChain(0, 0)
    /\ \A s : OnChain(0, s) => s = 0
<1>1. [m \in 0 .. 0 |-> 0] \in Walks(0)
  BY DEF Walks
<1>2. \A w \in Walks(0) : w[0] = 0
  BY DEF Walks
<1>. QED
  BY <1>1, <1>2 DEF OnChain

(* A walk that ends at s and moves forward at every step extends by the   *)
(* link of s, when that link moves forward too.                           *)
LEMMA ChainExtend ==
    ASSUME img \in Images, NEW n \in Nat, NEW s, OnChain(n, s), s \in Nat, Link(s) > s
    PROVE  OnChain(n + 1, Link(s))
<1>1. PICK w \in Walks(n) : TRUE
  BY DEF OnChain
<1>2. w[n] = s /\ w \in [0 .. n -> Nat]
  BY <1>1 DEF OnChain, Walks
<1> DEFINE w2 == [m \in 0 .. n + 1 |-> IF m <= n THEN w[m] ELSE Link(s)]
<1>3. w2 \in Walks(n + 1)
  <2>1. w2 \in [0 .. n + 1 -> Nat]
    BY <1>2, LinkNat
  <2>2. w2[0] = 0
    BY <1>1 DEF Walks
  <2>3. \A m \in 1 .. n + 1 : w2[m] = Link(w2[m - 1])
    BY <1>1, <1>2 DEF Walks
  <2>. QED
    BY <2>1, <2>2, <2>3 DEF Walks
<1>4. ASSUME NEW v \in Walks(n + 1)
      PROVE  v[n + 1] = Link(s) /\ \A a, b \in 0 .. n + 1 : a < b => v[a] < v[b]
  <2>1. [m \in 0 .. n |-> v[m]] \in Walks(n)
    BY WalkPrefix
  <2>2. v[n] = s /\ \A a, b \in 0 .. n : a < b => v[a] < v[b]
    BY <2>1 DEF OnChain
  <2>3. v[n + 1] = Link(s) /\ v \in [0 .. n + 1 -> Nat]
    BY <2>2 DEF Walks
  <2>. QED
    BY <2>2, <2>3
<1>. QED
  BY <1>3, <1>4 DEF OnChain

(* Two steps of the chain hold different sectors: a later one lies past  *)
(* an earlier one.                                                         *)
LEMMA ChainDistinct ==
    ASSUME NEW a \in Nat, NEW b \in Nat, a < b, NEW s, NEW t,
           OnChain(a, s), OnChain(b, t)
    PROVE  s < t
<1>1. PICK v \in Walks(b) : TRUE
  BY DEF OnChain
<1>2. [m \in 0 .. a |-> v[m]] \in Walks(a)
  BY WalkPrefix
<1>3. v[a] = s
  BY <1>2 DEF OnChain
<1>4. v[b] = t /\ v[a] < v[b]
  BY <1>1 DEF OnChain
<1>. QED
  BY <1>3, <1>4

(* DistInv after a step that keeps the image, spelt out.                   *)
LEMMA DistPrime ==
    ASSUME img' = img
    PROVE  DistInv' <=>
             /\ pc' = "ebr_walk" => OnChain(li', ebr')
             /\ \A p \in Idx : results'[p].kind = "logical"
                                  => p >= 4 /\ OnChain(p - 4, results'[p].at)
  BY DEF DistInv, OnChain, Walks, Link, EbrAt

(* A step that neither starts nor moves the walk, and records no logical *)
(* result, keeps DistInv.                                                  *)
LEMMA DistFrame ==
    ASSUME DistInv, results \in [Idx -> Result], img' = img, pc' # "ebr_walk",
           \/ UNCHANGED results
           \/ \E q \in Idx : \E r : r.kind # "logical" /\ results' = [results EXCEPT ![q] = r]
    PROVE  DistInv'
<1>1. \A p \in Idx : results'[p].kind = "logical" => results'[p] = results[p]
  BY DEF DistInv
<1>. QED
  BY <1>1, DistPrime DEF DistInv

(* The steps of part_get before the EBR walk.                              *)
LEMMA BeforeWalk ==
    ASSUME PartInv, \/ \E p \in Idx : Call(p)
                    \/ GptProbe \/ GptTable \/ GptEntry \/ MbrValid \/ MbrPrimary \/ ExtScan
    PROVE  /\ img' = img /\ pc' # "ebr_walk"
           /\ \/ UNCHANGED results
              \/ \E q \in Idx : \E r : r.kind # "logical" /\ results' = [results EXCEPT ![q] = r]
<1>1. part \in Idx
  BY DEF PartInv, TypeOK
<1>2. CASE \E p \in Idx : Call(p)
  BY <1>2 DEF Call, Res
<1>3. CASE GptProbe
  BY <1>3 DEF GptProbe
<1>4. CASE GptTable
  BY <1>1, <1>4 DEF GptTable, FallBack, Return, Res
<1>5. CASE GptEntry
  BY <1>1, <1>5 DEF GptEntry, Return, Res, Child
<1>6. CASE MbrValid
  BY <1>1, <1>6 DEF MbrValid, Return, Res
<1>7. CASE MbrPrimary
  BY <1>1, <1>7 DEF MbrPrimary, Return, Res, Child
<1>8. CASE ExtScan
  BY <1>1, <1>8 DEF ExtScan, Return, Res
<1>. QED
  BY <1>2, <1>3, <1>4, <1>5, <1>6, <1>7, <1>8

(* The walk starts at the first EBR, the walk of no step.                  *)
LEMMA LogicalStartDist ==
    ASSUME PartInv, DistInv, LogicalStart
    PROVE  DistInv'
<1>1. part \in Idx /\ results \in [Idx -> Result] /\ img' = img
  BY DEF PartInv, TypeOK, LogicalStart
<1>2. CASE Return(Res("END_OF_TABLE"))
  BY <1>1, <1>2, DistFrame DEF Return, Res
<1>3. CASE pc' = "ebr_walk" /\ ebr' = 0 /\ li' = 0 /\ UNCHANGED results
  BY <1>1, <1>3, ChainStart, DistPrime DEF DistInv
<1>. QED
  BY <1>2, <1>3 DEF LogicalStart

(* A step of the walk moves forward: from the first EBR to a non-zero     *)
(* sector, and after that past the current one.                           *)
LEMMA EbrStepDist ==
    ASSUME PartInv, DistInv, EbrStep
    PROVE  DistInv'
<1>1. part \in Idx /\ results \in [Idx -> Result] /\ img' = img /\ img \in Images
      /\ li \in Nat /\ ebr \in Nat /\ pc = "ebr_walk"
  BY MaxLogicalAssumption DEF PartInv, TypeOK, EbrStep
<1>2. OnChain(li, ebr)
  BY <1>1 DEF DistInv
<1>3. \/ Return(Res("END_OF_TABLE"))
      \/ /\ Link(ebr) # 0 /\ ~(li > 0 /\ Link(ebr) <= ebr)
         /\ ebr' = Link(ebr) /\ li' = li + 1 /\ UNCHANGED <<pc, results>>
  BY Zenon DEF EbrStep, ExtReturn, Link
<1>4. CASE Return(Res("END_OF_TABLE"))
  BY <1>1, <1>4, DistFrame DEF Return, Res
<1>5. CASE /\ Link(ebr) # 0 /\ ~(li > 0 /\ Link(ebr) <= ebr)
           /\ ebr' = Link(ebr) /\ li' = li + 1 /\ UNCHANGED <<pc, results>>
  <2>1. li = 0 => ebr = 0
    BY <1>2, ChainStart
  <2>2. Link(ebr) > ebr
    BY <1>1, <1>5, <2>1, LinkNat
  <2>3. OnChain(li + 1, Link(ebr))
    BY <1>1, <1>2, <2>2, ChainExtend
  <2>. QED
    BY <1>1, <1>5, <2>3, DistPrime DEF DistInv
<1>. QED
  BY <1>3, <1>4, <1>5

(* The walk has arrived after part - 4 steps: the logical result it       *)
(* records sits on the chain at that step.                                 *)
LEMMA LogicalEntryDist ==
    ASSUME PartInv, DistInv, LogicalEntry
    PROVE  DistInv'
<1>1. part \in Idx /\ results \in [Idx -> Result] /\ img' = img
      /\ li \in Nat /\ pc = "ebr_walk" /\ li = part - 4
  BY MaxLogicalAssumption DEF PartInv, TypeOK, LogicalEntry
<1>2. OnChain(part - 4, ebr)
  BY <1>1 DEF DistInv
<1> DEFINE c == Child("logical", ext.first + ebr + EbrAt(ebr).entry.first,
                      EbrAt(ebr).entry.count, ebr)
<1>3. \/ Return(Res("END_OF_TABLE"))
      \/ Return(Res("NO_PARTITION"))
      \/ Return(c)
  BY Zenon DEF LogicalEntry, ExtReturn
<1>4. CASE Return(Res("END_OF_TABLE")) \/ Return(Res("NO_PARTITION"))
  BY <1>1, <1>4, DistFrame DEF Return, Res
<1>5. CASE Return(c)
  <2>1. results' = [results EXCEPT ![part] = c] /\ pc' = "idle"
    BY <1>5 DEF Return
  <2>2. c.kind = "logical" /\ c.at = ebr /\ part >= 4
    BY <1>1 DEF Child, Idx
  <2>3. \A p \in Idx : results'[p].kind = "logical"
                          => p >= 4 /\ OnChain(p - 4, results'[p].at)
    BY <1>1, <1>2, <2>1, <2>2 DEF DistInv
  <2>. QED
    BY <1>1, <2>1, <2>3, DistPrime
<1>. QED
  BY <1>3, <1>4, <1>5

(* Every step of part_get, and a stutter, keeps DistInv.                   *)
LEMMA DistStep ==
    ASSUME PartInv, DistInv, [Next]_vars
    PROVE  DistInv'
<1>1. results \in [Idx -> Result]
  BY DEF PartInv, TypeOK
<1>2. CASE \/ \E p \in Idx : Call(p)
           \/ GptProbe \/ GptTable \/ GptEntry \/ MbrValid \/ MbrPrimary \/ ExtScan
  BY <1>1, <1>2, BeforeWalk, DistFrame
<1>3. CASE UNCHANGED vars
  BY <1>3, DistPrime DEF DistInv, vars
<1>. QED
  BY <1>2, <1>3, LogicalStartDist, EbrStepDist, LogicalEntryDist DEF Next

(* The EBR walk of mbr_get_logical_part never revisits an EBR: two         *)
(* logical partition numbers part_get answered name different EBRs,        *)
(* whatever links the chain holds, because the walk moves forward at      *)
(* every step.                                                            *)
THEOREM LogicalDistinctCorrect == Spec => []LogicalDistinct
<1>1. Init => PartInv /\ DistInv
  <2>1. Init => PartInv
    BY InitInv
  <2>2. Init => \A p \in Idx : results[p].kind # "logical"
    BY DEF Init, Res
  <2>. QED
    BY <2>1, <2>2 DEF DistInv, Init
<1>2. PartInv /\ DistInv /\ [Next]_vars => PartInv' /\ DistInv'
  BY PartStep, DistStep
<1>3. DistInv /\ PartInv => LogicalDistinct
  <2>1. SUFFICES ASSUME DistInv, PartInv, NEW p \in Idx, NEW q \in Idx, p # q,
                        results[p].kind = "logical", results[q].kind = "logical"
                 PROVE  results[p].at # results[q].at
    BY DEF LogicalDistinct
  <2>2. p >= 4 /\ OnChain(p - 4, results[p].at) /\ q >= 4 /\ OnChain(q - 4, results[q].at)
    BY <2>1 DEF DistInv
  <2>3. p - 4 \in Nat /\ q - 4 \in Nat
        /\ results[p].at \in Nat /\ results[q].at \in Nat
    BY <2>1, <2>2, MaxIndexAssumption DEF Idx, PartInv, TypeOK, Result
  <2>4. CASE p < q
    <3>0. p - 4 < q - 4
      BY <2>1, <2>4, MaxIndexAssumption DEF Idx
    <3>1. results[p].at < results[q].at
      BY Zenon, <2>2, <2>3, <3>0, ChainDistinct
    <3>. QED
      BY <2>3, <3>1
  <2>5. CASE q < p
    <3>0. q - 4 < p - 4
      BY <2>1, <2>5, MaxIndexAssumption DEF Idx
    <3>1. results[q].at < results[p].at
      BY Zenon, <2>2, <2>3, <3>0, ChainDistinct
    <3>. QED
      BY <2>3, <3>1
  <2>. QED
    BY <2>1, <2>4, <2>5, MaxIndexAssumption DEF Idx
<1>. QED
  BY <1>1, <1>2, <1>3, PTL DEF Spec
=============================================================================
