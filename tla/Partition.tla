----------------------------- MODULE Partition -----------------------------
(***************************************************************************)
(* The partition table parsers of part_001: part_get tries gpt_get_part,   *)
(* falls back to mbr_get_part when the GPT is invalid, and mbr_get_part    *)
(* either reads a primary entry or walks the EBR chain of the first        *)
(* extended partition (mbr_get_logical_part).  A caller asks for one       *)
(* partition index after another on one whole disk.                        *)
(*                                                                         *)
(* The disk is an abstract image, chosen once from the constant set        *)
(* Images; only the fields the parsers read are kept:                      *)
(*   disk  the size of the disk in 512-byte sectors;                       *)
(*   sig   the sectors (1 and 8: lb_size 512 and 4096) holding "EFI PART"; *)
(*   hdr   the GPT header: rev (revision = 0x00010000?), n (number of      *)
(*         entries), esize (entry size in 128-byte quanta; 0 is below the  *)
(*         struct size) and elba (partition_entry_lba);                    *)
(*   ents  GPT entries by their offset in 128-byte quanta: guid (non-zero  *)
(*         unique partition GUID?), start and end LBA;                     *)
(*   mbr   whether the bytes is_valid_mbr tests look like an MBR;         *)
(*   prim  the four primary entries: type, first, count;                   *)
(*   ebr   EBRs by sector within the extended partition: link, the entry   *)
(*         at 0x1ce (type, first), and entry, the one at 0x1be.            *)
(* Absent offsets and sectors read as zeros.  Reads go through the parent  *)
(* whole-disk volume and succeed when the record lies on the disk; reads   *)
(* through extended_part are also range-checked against its sect_count.   *)
(* 64-bit arithmetic is done modulo the constant Word.                     *)
(***************************************************************************)
EXTENDS Integers, Sequences

CONSTANTS
    Images,      \* the disk images the parent volume may hold
    Word,        \* 2^64, scaled down: the modulus of uint64_t arithmetic
    MaxLogical,  \* MAX_LOGICAL_PARTITIONS
    MaxIndex     \* the largest partition index a caller asks for

ASSUME WordAssumption == Word \in Nat \ {0}
ASSUME MaxLogicalAssumption == MaxLogical \in Nat \ {0}
ASSUME MaxIndexAssumption == MaxIndex \in Nat

(* What the parsers read off a disk: the MBR's and EBRs' uint32 fields,   *)
(* the GPT header's counts and the entries' uint64 LBAs (below 2^64).     *)
ASSUME ImagesAssumption ==
    \A im \in Images :
        /\ im.disk \in Nat /\ im.sig \subseteq Nat /\ im.mbr \in BOOLEAN
        /\ im.hdr \in [rev : BOOLEAN, n : Nat, esize : Nat, elba : Nat]
        /\ \A q \in DOMAIN im.ents :
              im.ents[q] \in [guid : BOOLEAN, start : 0 .. (Word - 1), end : 0 .. (Word - 1)]
        /\ DOMAIN im.prim = 0 .. 3
        /\ \A i \in 0 .. 3 : im.prim[i].first \in Nat /\ im.prim[i].count \in Nat
        /\ \A s \in DOMAIN im.ebr :
              /\ im.ebr[s].link.first \in Nat
              /\ im.ebr[s].entry.first \in Nat /\ im.ebr[s].entry.count \in Nat

VARIABLES
    img,      \* the disk image
    pc,       \* where the running part_get call is
    part,     \* its partition argument
    gi,       \* the index into lb_guesses of the GPT header probe
    lb,       \* lb_size / 512 once the header is found
    eoff,     \* entry_offset of the GPT entry, in 128-byte quanta
    ei,       \* the primary entry mbr_get_part examines for an extended one
    ext,      \* extended_part: first_sect, sect_count, and is its cache allocated?
    ebr,      \* ebr_sector of the EBR walk
    li,       \* i of the EBR walk
    results   \* the last result of part_get for each index

vars == <<img, pc, part, gi, lb, eoff, ei, ext, ebr, li, results>>

Idx == -1 .. MaxIndex
Codes == {"NONE", "OK", "NO_PARTITION", "END_OF_TABLE", "INVALID_TABLE"}
Quanta == 4                 \* 128-byte quanta in a 512-byte sector
LbGuesses == <<1, 8>>       \* lb_guesses[], in 512-byte sectors

(* A result of part_get; for OK, the child's first_sect and sect_count,   *)
(* the table it came from, and where its entry was read (a GPT offset, a  *)
(* primary index or an EBR sector).                                       *)
Res(code) == [code |-> code, kind |-> "none", first |-> 0, count |-> 0, at |-> 0]
Child(kind, first, count, at) ==
    [code |-> "OK", kind |-> kind, first |-> first, count |-> count, at |-> at]

ZeroEntry == [guid |-> FALSE, start |-> 0, end |-> 0]
ZeroEbr == [link |-> [type |-> "empty", first |-> 0],
            entry |-> [type |-> "empty", first |-> 0, count |-> 0]]
EntryAt(q) == IF q \in DOMAIN img.ents THEN img.ents[q] ELSE ZeroEntry
EbrAt(s) == IF s \in DOMAIN img.ebr THEN img.ebr[s] ELSE ZeroEbr

(* volume_read on the parent, and on extended_part.                       *)
SectorReadable(s) == s < img.disk
QuantumReadable(q) == q + 1 <= img.disk * Quanta
ExtReadable(s) == s < ext.count /\ SectorReadable(ext.first + s)

(* is_valid_mbr: eight reads in sector 0, the last one at byte 1080.       *)
IsValidMbr == SectorReadable(2) /\ img.mbr

Init ==
    /\ img \in Images
    /\ pc = "idle"
    /\ part = 0 /\ gi = 1 /\ lb = 1 /\ eoff = 0 /\ ei = 0
    /\ ext = [first |-> 0, count |-> 0, cache |-> FALSE]
    /\ ebr = 0 /\ li = 0
    /\ results = [p \in Idx |-> Res("NONE")]

(* A call returns r for its partition index.                              *)
Return(r) ==
    /\ pc' = "idle"
    /\ results' = [results EXCEPT ![part] = r]

(* gpt_get_part returned INVALID_TABLE: part_get tries mbr_get_part.       *)
FallBack == pc' = "mbr" /\ UNCHANGED results

(* part_get: a negative index is refused, any other goes to the GPT.      *)
Call(p) ==
    /\ pc = "idle"
    /\ part' = p
    /\ \/ /\ p < 0
          /\ results' = [results EXCEPT ![p] = Res("NO_PARTITION")]
          /\ UNCHANGED pc
       \/ /\ p >= 0
          /\ pc' = "gpt_probe"
          /\ UNCHANGED results
    /\ gi' = 1
    /\ UNCHANGED <<img, lb, eoff, ei, ext, ebr, li>>

(* One turn of the lb_guesses loop: read the header at lb_size * 1.       *)
GptProbe ==
    /\ pc = "gpt_probe"
    /\ LET s == LbGuesses[gi] IN
       \/ /\ SectorReadable(s) /\ s \in img.sig
          /\ lb' = s /\ pc' = "gpt_table" /\ UNCHANGED gi
       \/ /\ ~(SectorReadable(s) /\ s \in img.sig) /\ gi < Len(LbGuesses)
          /\ gi' = gi + 1 /\ UNCHANGED <<pc, lb>>
       \/ /\ ~(SectorReadable(s) /\ s \in img.sig) /\ gi = Len(LbGuesses)
          /\ pc' = "mbr" /\ UNCHANGED <<gi, lb>>
    /\ UNCHANGED <<img, part, eoff, ei, ext, ebr, li, results>>

(* The header checks and the overflow-checked entry offset.               *)
GptTable ==
    /\ pc = "gpt_table"
    /\ LET h == img.hdr
           base == h.elba * lb * Quanta
           off == (base % Word) + part * h.esize
       IN \/ /\ \/ ~h.rev
                \/ h.rev /\ part < h.n /\ (h.esize = 0 \/ base >= Word \/ off >= Word)
             /\ FallBack /\ UNCHANGED eoff
          \/ /\ h.rev /\ part >= h.n
             /\ Return(Res("END_OF_TABLE")) /\ UNCHANGED eoff
          \/ /\ h.rev /\ part < h.n /\ h.esize > 0 /\ base < Word /\ off < Word
             /\ eoff' = off /\ pc' = "gpt_entry" /\ UNCHANGED results
    /\ UNCHANGED <<img, part, gi, lb, ei, ext, ebr, li>>

(* The entry read and its overflow-checked conversion to 512-byte units,   *)
(* as a bug would have it without the partition_size == UINT64_MAX check. *)
GptEntrySizeWraps ==
    /\ pc = "gpt_entry"
    /\ LET e == EntryAt(eoff)
           blocks == (e.end - e.start + 1) % Word
       IN \/ /\ ~QuantumReadable(eoff)
             /\ Return(Res("END_OF_TABLE"))
          \/ /\ QuantumReadable(eoff) /\ (~e.guid \/ e.end < e.start)
             /\ Return(Res("NO_PARTITION"))
          \/ /\ QuantumReadable(eoff) /\ e.guid /\ e.end >= e.start
             /\ (e.start * lb >= Word \/ blocks * lb >= Word)
             /\ Return(Res("NO_PARTITION"))
          \/ /\ QuantumReadable(eoff) /\ e.guid /\ e.end >= e.start
             /\ e.start * lb < Word /\ blocks * lb < Word
             /\ Return(Child("gpt", e.start * lb, blocks * lb, eoff))
    /\ UNCHANGED <<img, part, gi, lb, eoff, ei, ext, ebr, li>>

(* The entry read, the zero-GUID and reversed-range refusals, and the      *)
(* overflow-checked conversion to 512-byte units.                         *)
GptEntry ==
    /\ pc = "gpt_entry"
    /\ LET e == EntryAt(eoff)
           size == e.end - e.start
           blocks == (size + 1) % Word
       IN \/ /\ ~QuantumReadable(eoff)
             /\ Return(Res("END_OF_TABLE"))
          \/ /\ QuantumReadable(eoff) /\ (~e.guid \/ e.end < e.start)
             /\ Return(Res("NO_PARTITION"))
          \/ /\ QuantumReadable(eoff) /\ e.guid /\ e.end >= e.start
             /\ (e.start * lb >= Word \/ size = Word - 1 \/ blocks * lb >= Word)
             /\ Return(Res("NO_PARTITION"))
          \/ /\ QuantumReadable(eoff) /\ e.guid /\ e.end >= e.start
             /\ e.start * lb < Word /\ size # Word - 1 /\ blocks * lb < Word
             /\ Return(Child("gpt", e.start * lb, blocks * lb, eoff))
    /\ UNCHANGED <<img, part, gi, lb, eoff, ei, ext, ebr, li>>

(* part_get's fallback: mbr_get_part refuses a disk is_valid_mbr rejects,  *)
(* and otherwise goes to a primary entry or to the extended partition.    *)
MbrValid ==
    /\ pc = "mbr"
    /\ \/ /\ ~IsValidMbr
          /\ Return(Res("INVALID_TABLE")) /\ UNCHANGED ei
       \/ /\ IsValidMbr /\ part <= 3
          /\ pc' = "primary" /\ UNCHANGED <<results, ei>>
       \/ /\ IsValidMbr /\ part > 3
          /\ pc' = "ext_scan" /\ ei' = 0 /\ UNCHANGED results
    /\ UNCHANGED <<img, part, gi, lb, eoff, ext, ebr, li>>

(* A primary entry: empty or zero-sized is no partition.  Its read, in    *)
(* sector 0, cannot fail once is_valid_mbr has read sector 2.             *)
MbrPrimary ==
    /\ pc = "primary"
    /\ LET e == img.prim[part] IN
       \/ /\ e.type = "empty" \/ e.count = 0
          /\ Return(Res("NO_PARTITION"))
       \/ /\ e.type # "empty" /\ e.count > 0
          /\ Return(Child("primary", e.first, e.count, part))
    /\ UNCHANGED <<img, part, gi, lb, eoff, ei, ext, ebr, li>>

(* One turn of the search for the first extended primary entry of         *)
(* non-zero size; extended_part is set up from it.                        *)
ExtScan ==
    /\ pc = "ext_scan"
    /\ \/ /\ ei = 4
          /\ Return(Res("END_OF_TABLE")) /\ UNCHANGED <<ei, ext>>
       \/ /\ ei < 4 /\ (img.prim[ei].type # "ext" \/ img.prim[ei].count = 0)
          /\ ei' = ei + 1 /\ UNCHANGED <<pc, results, ext>>
       \/ /\ ei < 4 /\ img.prim[ei].type = "ext" /\ img.prim[ei].count > 0
          /\ ext' = [first |-> img.prim[ei].first,
                     count |-> img.prim[ei].count, cache |-> FALSE]
          /\ pc' = "logical" /\ UNCHANGED <<results, ei>>
    /\ UNCHANGED <<img, part, gi, lb, eoff, ebr, li>>

(* mbr_get_logical_part's entry as a bug would have it, without the       *)
(* MAX_LOGICAL_PARTITIONS limit.                                          *)
LogicalStartNoCap ==
    /\ pc = "logical"
    /\ ebr' = 0 /\ li' = 0 /\ pc' = "ebr_walk" /\ UNCHANGED results
    /\ UNCHANGED <<img, part, gi, lb, eoff, ei, ext>>

(* mbr_get_logical_part's entry: the MAX_LOGICAL_PARTITIONS limit, then   *)
(* the walk starts at the first EBR, sector 0 of the extended partition.  *)
LogicalStart ==
    /\ pc = "logical"
    /\ \/ /\ part - 4 >= MaxLogical
          /\ Return(Res("END_OF_TABLE")) /\ UNCHANGED <<ebr, li>>
       \/ /\ part - 4 < MaxLogical
          /\ ebr' = 0 /\ li' = 0 /\ pc' = "ebr_walk" /\ UNCHANGED results
    /\ UNCHANGED <<img, part, gi, lb, eoff, ei, ext>>

(* A read through extended_part: past its sect_count, volume_read fails   *)
(* before cache_block; otherwise cache_block allocates the cache of this  *)
(* local volume, which nothing frees when mbr_get_part returns.           *)
ExtRead(s) == ext' = [ext EXCEPT !.cache = @ \/ s < ext.count]
ExtReturn(r) ==
    /\ Return(r)
    /\ UNCHANGED <<ebr, li>>

(* One step of the EBR walk as a bug would have it, without the check     *)
(* that the chain moves forward after its first step.                     *)
EbrStepNoOrder ==
    /\ pc = "ebr_walk" /\ li < part - 4
    /\ ExtRead(ebr)
    /\ LET l == EbrAt(ebr).link IN
       \/ /\ ~ExtReadable(ebr) \/ l.type # "ext"
          /\ ExtReturn(Res("END_OF_TABLE"))
       \/ /\ ExtReadable(ebr) /\ l.type = "ext"
          /\ l.first = 0 \/ l.first >= ext.count
          /\ ExtReturn(Res("END_OF_TABLE"))
       \/ /\ ExtReadable(ebr) /\ l.type = "ext"
          /\ l.first # 0 /\ l.first < ext.count
          /\ ebr' = l.first /\ li' = li + 1
          /\ UNCHANGED <<pc, results>>
    /\ UNCHANGED <<img, part, gi, lb, eoff, ei>>

(* One step of the EBR walk: read the link at 0x1ce; it must name an      *)
(* extended entry, move forward (after the first step), and stay inside   *)
(* the extended partition.                                                *)
EbrStep ==
    /\ pc = "ebr_walk" /\ li < part - 4
    /\ ExtRead(ebr)
    /\ LET l == EbrAt(ebr).link IN
       \/ /\ ~ExtReadable(ebr) \/ l.type # "ext"
          /\ ExtReturn(Res("END_OF_TABLE"))
       \/ /\ ExtReadable(ebr) /\ l.type = "ext"
          /\ l.first = 0 \/ (li > 0 /\ l.first <= ebr) \/ l.first >= ext.count
          /\ ExtReturn(Res("END_OF_TABLE"))
       \/ /\ ExtReadable(ebr) /\ l.type = "ext"
          /\ l.first # 0 /\ ~(li > 0 /\ l.first <= ebr) /\ l.first < ext.count
          /\ ebr' = l.first /\ li' = li + 1
          /\ UNCHANGED <<pc, results>>
    /\ UNCHANGED <<img, part, gi, lb, eoff, ei>>

(* The walk has arrived: the entry at 0x1be of the EBR, relative to it.   *)
(* The three overflow checks on first_sect cannot fire: they add uint32   *)
(* values in uint64_t.                                                    *)
LogicalEntry ==
    /\ pc = "ebr_walk" /\ li = part - 4
    /\ ExtRead(ebr)
    /\ LET e == EbrAt(ebr).entry IN
       \/ /\ ~ExtReadable(ebr)
          /\ ExtReturn(Res("END_OF_TABLE"))
       \/ /\ ExtReadable(ebr) /\ (e.type = "empty" \/ e.count = 0)
          /\ ExtReturn(Res("NO_PARTITION"))
       \/ /\ ExtReadable(ebr) /\ e.type # "empty" /\ e.count > 0
          /\ ExtReturn(Child("logical", ext.first + ebr + e.first, e.count, ebr))
    /\ UNCHANGED <<img, part, gi, lb, eoff, ei>>

Next ==
    \/ \E p \in Idx : Call(p)
    \/ GptProbe \/ GptTable \/ GptEntry
    \/ MbrValid \/ MbrPrimary \/ ExtScan
    \/ LogicalStart \/ EbrStep \/ LogicalEntry

Spec == Init /\ [][Next]_vars

-----------------------------------------------------------------------------
(* Properties.                                                             *)

Result == [code : Codes, kind : {"none", "gpt", "primary", "logical"},
           first : Nat, count : Nat, at : Nat]

(* The walk index never goes past MAX_LOGICAL_PARTITIONS - 1 steps, and    *)
(* every variable keeps its type.                                          *)
TypeOK ==
    /\ img \in Images
    /\ pc \in {"idle", "gpt_probe", "gpt_table", "gpt_entry", "mbr",
               "primary", "ext_scan", "logical", "ebr_walk"}
    /\ part \in Idx
    /\ gi \in 1 .. Len(LbGuesses)
    /\ lb \in {LbGuesses[i] : i \in 1 .. Len(LbGuesses)}
    /\ eoff \in 0 .. (Word - 1)
    /\ ei \in 0 .. 4
    /\ ext \in [first : Nat, count : Nat, cache : BOOLEAN]
    /\ ebr \in Nat
    /\ li \in 0 .. (MaxLogical - 1)
    /\ results \in [Idx -> Result]

(* The logical block size of the GPT: the first guess whose sector holds   *)
(* the signature.                                                          *)
GptLb == IF SectorReadable(1) /\ 1 \in img.sig THEN 1 ELSE 8

(* Every child part_get produces is non-empty, and a child built from a   *)
(* GPT entry spans exactly the logical blocks starting_lba .. ending_lba,  *)
(* in 512-byte units, computed without wrap-around (gpt_get_part's         *)
(* overflow checks, spec 4.2).                                            *)
ChildExact ==
    \A p \in Idx :
        LET r == results[p] IN
        /\ r.code = "OK" => r.count > 0
        /\ r.code = "OK" /\ r.kind = "gpt" =>
              LET e == EntryAt(r.at) IN
              /\ r.first = e.start * GptLb
              /\ r.count = (e.end - e.start + 1) * GptLb

(* Two logical partition numbers never name the same EBR: the walk of      *)
(* mbr_get_logical_part does not revisit an EBR, whatever the chain's      *)
(* links (spec 4.2, EBR walk).                                            *)
LogicalDistinct ==
    \A p, q \in Idx :
        p # q /\ results[p].kind = "logical" /\ results[q].kind = "logical"
            => results[p].at # results[q].at

(* Spec scenario S5: when a GPT's partition_entry_lba * lb_size + index *  *)
(* size_of_partition_entry overflows 64 bits, part_get returns             *)
(* INVALID_TABLE.                                                          *)
GptOffsetOverflows(p) ==
    /\ \E i \in 1 .. Len(LbGuesses) :
          SectorReadable(LbGuesses[i]) /\ LbGuesses[i] \in img.sig
    /\ img.hdr.rev /\ p < img.hdr.n /\ img.hdr.esize > 0
    /\ img.hdr.elba * GptLb * Quanta + p * img.hdr.esize >= Word
OverflowInvalid ==
    \A p \in 0 .. MaxIndex :
        results[p].code # "NONE" /\ GptOffsetOverflows(p)
            => results[p].code = "INVALID_TABLE"
=============================================================================
