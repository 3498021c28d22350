------------------------------ MODULE A20Proofs ------------------------------
(***************************************************************************)
(* Proofs about a20_enable (A20) for every set of machines and every      *)
(* timeout.                                                                *)
(***************************************************************************)
EXTENDS A20, TLAPS

(* No key is waiting in the controller's output buffer when a20_enable    *)
(* starts.  With one, the read of line 64 may take the scancode for the    *)
(* output port (the a20_pending_key run).                                  *)
NoKeyPending == \A m \in Machines : ~m.key

(* The variables keep their types and the machine is one of Machines.     *)
TypeInv == TypeOK /\ hw \in Machines

(* NoReset made inductive.  Bit 0 (the reset line, active low) is set in  *)
(* the output port, in every byte the controller may hand back, and in    *)
(* every data byte waiting for it; the method starts at its first         *)
(* statement, and with no controller never gets past that wait; the read  *)
(* of line 64 finds the output buffer full, and the byte read keeps bit 0 *)
(* until it is written back.                                               *)
SafeInv ==
    /\ TypeInv
    /\ ~reset
    /\ Bit(outport, 0) = 1
    /\ obf # None => Bit(obf, 0) = 1
    /\ ibf.port = 96 => Bit(ibf.v, 0) = 1
    /\ ~hw.kbc => k = 1
    /\ pc \in {"start", "bios"} => k = 1
    /\ pc = "kbc" /\ k = 6 => obf # None
    /\ pc = "kbc" /\ k >= 7 => Bit(b, 0) = 1

(* What ResultAccurate rests on.  Before the keyboard controller method   *)
(* nothing was written to the controller; the BIOS method runs only after *)
(* the first check found the line closed (lines 47-51).                    *)
ResInv ==
    /\ TypeInv
    /\ pc \in {"start", "bios"} => ibf = NoIn
    /\ pc = "bios" => ~Enabled

-----------------------------------------------------------------------------
(* Bits 0 and 1 of a number.                                               *)
LEMMA BitFacts ==
    ASSUME NEW x \in Nat
    PROVE  /\ Bit(x, 0) = x % 2
           /\ Bit(x, 1) = (x \div 2) % 2
           /\ Bit(x, 0) \in {0, 1} /\ Bit(x, 1) \in {0, 1}
<1>1. 2 ^ 0 = 1 /\ 2 ^ 1 = 2
  OBVIOUS
<1>2. QED
  BY <1>1 DEF Bit

(* b | 2 (line 68) on a byte is a byte with the same bit 0.               *)
LEMMA Or2Facts ==
    ASSUME NEW x \in 0 .. 255
    PROVE  Or2(x) \in 0 .. 255 /\ Bit(Or2(x), 0) = Bit(x, 0)
<1>1. CASE Bit(x, 1) = 1
  BY <1>1 DEF Or2
<1>2. CASE Bit(x, 1) # 1
  <2>1. (x \div 2) % 2 = 0
    BY <1>2, BitFacts
  <2>2. x + 2 \in 0 .. 255
    BY <2>1
  <2>3. (x + 2) % 2 = x % 2
    OBVIOUS
  <2>4. QED
    BY <1>2, <2>2, <2>3, BitFacts DEF Or2
<1>3. QED
  BY <1>1, <1>2

(* Lines 81-83: the byte of port 0x92 with bit 0 cleared and bit 1 set,   *)
(* when bit 1 was clear, is a byte with bit 0 clear and bit 1 set.        *)
LEMMA FastByteFacts ==
    ASSUME NEW v \in 0 .. 255, Bit(v, 1) = 0
    PROVE  LET w == (v - Bit(v, 0)) + 2
           IN  w \in 0 .. 255 /\ Bit(w, 0) = 0 /\ Bit(w, 1) = 1
<1> DEFINE w == (v - Bit(v, 0)) + 2
<1>1. (v \div 2) % 2 = 0 /\ Bit(v, 0) = v % 2
  BY BitFacts
<1>2. w = (v - (v % 2)) + 2
  BY <1>1 DEF w
<1> DEFINE h == v \div 2
<1>3. h \in 0 .. 127 /\ h % 2 = 0 /\ v - (v % 2) = 2 * h
  BY <1>1 DEF h
<1>4. h \in 0 .. 126
  BY <1>3
<1>5. w = 2 * (h + 1)
  BY <1>2, <1>3
<1>6. w \in 0 .. 255 /\ w % 2 = 0 /\ w \div 2 = h + 1
  BY <1>4, <1>5
<1>7. (h + 1) % 2 = 1
  BY <1>3
<1>8. w \in 0 .. 255 /\ w % 2 = 0 /\ (w \div 2) % 2 = 1
  BY <1>6, <1>7
<1>9. QED
  BY <1>8, BitFacts

(* The statements of the keyboard controller method: thirteen of them,    *)
(* the one read (line 64) after the one wait for a full output buffer     *)
(* (line 63), and the one write of data (line 69).                        *)
LEMMA KbcProgFacts ==
    /\ Len(KbcProg) = 13
    /\ \A j \in 1 .. 13 : KbcProg[j].op \in {"wait", "cmd", "read", "data"}
    /\ \A j \in 1 .. 13 : KbcProg[j].op = "read" <=> j = 6
    /\ \A j \in 1 .. 13 : KbcProg[j].op = "data" <=> j = 10
    /\ \A j \in 1 .. 13 : KbcProg[j].op = "wait" => KbcProg[j].mask \in {1, 2}
    /\ \A j \in 1 .. 13 : KbcProg[j].op = "cmd" => KbcProg[j].v \in {173, 174, 208, 209}
    /\ KbcProg[1] = W(2, 0) /\ KbcProg[5] = W(1, 1)
  BY DEF KbcProg, W, Cmd

(* One step of the keyboard controller method, by the kind of statement.  *)
LEMMA KbcStepCases ==
    ASSUME TypeInv, KbcStep
    PROVE  /\ pc = "kbc" /\ k \in 1 .. 13
           /\ UNCHANGED <<hw, bios, outport, p92, expect, kbd, reset, res>>
           /\ \/ /\ KbcProg[k].op = "wait" /\ Poll(KbcProg[k])
                 /\ UNCHANGED <<ibf, obf, b>>
              \/ /\ KbcProg[k].op = "cmd"
                 /\ ibf' = [port |-> 100, v |-> KbcProg[k].v] /\ k' = k + 1
                 /\ UNCHANGED <<pc, i, obf, b>>
              \/ /\ k = 6 /\ ReadData /\ k' = k + 1 /\ UNCHANGED <<pc, i, ibf>>
              \/ /\ k = 10 /\ ibf' = [port |-> 96, v |-> Or2(b)] /\ k' = k + 1
                 /\ UNCHANGED <<pc, i, obf, b>>
<1>1. pc = "kbc" /\ k \in 1 .. 13
  <2>1. k \in 1 .. 14
    BY KbcProgFacts DEF TypeInv, TypeOK
  <2>2. QED
    BY <2>1, KbcProgFacts DEF KbcStep
<1>2. UNCHANGED <<hw, bios, outport, p92, expect, kbd, reset, res>>
  BY DEF KbcStep
<1>3. KbcProg[k].op \in {"wait", "cmd", "read", "data"}
  BY <1>1, KbcProgFacts
<1>4. CASE KbcProg[k].op = "wait"
  BY <1>1, <1>2, <1>4 DEF KbcStep
<1>5. CASE KbcProg[k].op = "cmd"
  BY <1>1, <1>2, <1>5 DEF KbcStep
<1>6. CASE KbcProg[k].op = "read"
  <2>1. k = 6
    BY <1>1, <1>6, KbcProgFacts
  <2>2. QED
    BY <1>1, <1>2, <1>6, <2>1 DEF KbcStep
<1>7. CASE KbcProg[k].op = "data"
  <2>1. k = 10
    BY <1>1, <1>7, KbcProgFacts
  <2>2. QED
    BY <1>1, <1>2, <1>7, <2>1 DEF KbcStep
<1>8. QED
  BY <1>1, <1>2, <1>3, <1>4, <1>5, <1>6, <1>7

(* One poll of a20_kbc_wait: through, again, or given up.                  *)
LEMMA PollCases ==
    ASSUME NEW w, Poll(w)
    PROVE  \/ Ready(w) /\ k' = k + 1 /\ i' = 0 /\ pc' = pc
           \/ ~Ready(w) /\ i + 1 < Timeout /\ i' = i + 1 /\ pc' = pc /\ k' = k
           \/ ~Ready(w) /\ ~(i + 1 < Timeout) /\ pc' = "fast" /\ i' = 0 /\ k' = k
  BY DEF Poll, PollOnce

(* The controller takes one byte, by what the byte is.                     *)
LEMMA KbcConsumeCases ==
    ASSUME KbcConsume
    PROVE  /\ hw.kbc /\ ibf # NoIn /\ ibf' = NoIn
           /\ UNCHANGED <<hw, bios, p92, pc, k, i, b, res>>
           /\ \/ /\ ibf.port = 96 /\ expect /\ outport' = ibf.v /\ expect' = FALSE
                 /\ reset' = (reset \/ Bit(ibf.v, 0) = 0) /\ UNCHANGED <<obf, kbd>>
              \/ /\ kbd' \in BOOLEAN /\ UNCHANGED <<outport, expect, reset, obf>>
              \/ /\ ibf.port = 100 /\ ibf.v = 208 /\ obf = None /\ obf' = outport
                 /\ UNCHANGED <<outport, expect, reset, kbd>>
              \/ /\ expect' = TRUE /\ UNCHANGED <<outport, reset, obf, kbd>>
              \/ UNCHANGED <<outport, expect, reset, obf, kbd>>
<1>1. /\ hw.kbc /\ ibf # NoIn /\ ibf' = NoIn
      /\ UNCHANGED <<hw, bios, p92, pc, k, i, b, res>>
  BY DEF KbcConsume
<1>2. CASE ibf.port = 96 /\ expect
  <2>1. ~(ibf.port = 100)
    BY <1>2
  <2>2. /\ outport' = ibf.v /\ expect' = FALSE
        /\ reset' = (reset \/ Bit(ibf.v, 0) = 0) /\ UNCHANGED <<obf, kbd>>
    BY <1>2, <2>1, Zenon DEF KbcConsume
  <2>3. QED
    BY <1>1, <1>2, <2>2
<1>3. CASE ~(ibf.port = 96 /\ expect) /\ ibf.port = 100 /\ ibf.v \in {173, 174}
  BY <1>3 DEF KbcConsume
<1>4. CASE ~(ibf.port = 96 /\ expect) /\ ibf.port = 100 /\ ibf.v = 208
  BY <1>4 DEF KbcConsume
<1>5. CASE ~(ibf.port = 96 /\ expect) /\ ibf.port = 100 /\ ibf.v = 209
  BY <1>5 DEF KbcConsume
<1>6. CASE ~(ibf.port = 96 /\ expect) /\ ~(ibf.port = 100 /\ ibf.v \in {173, 174, 208, 209})
  BY <1>6 DEF KbcConsume
<1>7. QED
  BY <1>1, <1>2, <1>3, <1>4, <1>5, <1>6

-----------------------------------------------------------------------------
(* What TypeInv says of the machine.                                       *)
LEMMA MachineFacts ==
    ASSUME hw \in Machines
    PROVE  /\ hw.on \in BOOLEAN /\ hw.kbc \in BOOLEAN /\ hw.wired \in BOOLEAN
           /\ hw.key \in BOOLEAN /\ hw.scancode \in 0 .. 255
           /\ hw.bios \in BOOLEAN /\ hw.fast \in BOOLEAN /\ hw.hi \in Nat
  BY MachinesAssumption

(* a20_check answers yes or no.                                            *)
LEMMA CheckBoolean ==
    ASSUME NEW en
    PROVE  A20Check(en) \in BOOLEAN
  BY DEF A20Check

(* A step of a20_enable that moves only pc and res, to a label or "done". *)
LEMMA PcResStep ==
    ASSUME TypeInv,
           pc' \in {"start", "bios", "kbc", "fast", "done"}, res' \in BOOLEAN,
           UNCHANGED <<hw, bios, outport, p92, ibf, obf, expect, kbd, reset, k, i, b>>
    PROVE  TypeInv'
  BY DEF TypeInv, TypeOK

LEMMA StartType ==
    ASSUME TypeInv, Start
    PROVE  TypeInv'
<1>1. pc' \in {"start", "bios", "kbc", "fast", "done"} /\ res' \in BOOLEAN
  BY CheckBoolean DEF Start, Return, TypeInv, TypeOK
<1>2. QED
  BY <1>1, PcResStep DEF Start

LEMMA KbcCheckType ==
    ASSUME TypeInv, KbcCheck
    PROVE  TypeInv'
<1>1. pc' \in {"start", "bios", "kbc", "fast", "done"} /\ res' \in BOOLEAN
  BY CheckBoolean DEF KbcCheck, Return, TypeInv, TypeOK
<1>2. QED
  BY <1>1, PcResStep DEF KbcCheck

LEMMA BiosType ==
    ASSUME TypeInv, BiosMethod
    PROVE  TypeInv'
<1>1. pc' \in {"start", "bios", "kbc", "fast", "done"} /\ res' \in BOOLEAN
  BY CheckBoolean DEF BiosMethod, Return, TypeInv, TypeOK
<1>2. bios' \in BOOLEAN
  BY MachineFacts DEF BiosMethod, TypeInv
<1>3. UNCHANGED <<hw, outport, p92, ibf, obf, expect, kbd, reset, k, i, b>>
  BY DEF BiosMethod
<1>4. QED
  BY <1>1, <1>2, <1>3 DEF TypeInv, TypeOK

LEMMA KbcStepType ==
    ASSUME TypeInv, KbcStep
    PROVE  TypeInv'
<1>1. /\ pc = "kbc" /\ k \in 1 .. 13
      /\ UNCHANGED <<hw, bios, outport, p92, expect, kbd, reset, res>>
  BY KbcStepCases
<1>2. /\ Timeout \in Nat \ {0} /\ i \in 0 .. Timeout - 1 /\ b \in 0 .. 255
      /\ obf \in 0 .. 256 /\ ibf \in {NoIn} \cup [port : {96, 100}, v : 0 .. 255]
  BY TimeoutAssumption DEF TypeInv, TypeOK
<1>0. /\ bios' \in BOOLEAN /\ outport' \in 0 .. 255 /\ p92' \in 0 .. 255
      /\ expect' \in BOOLEAN /\ kbd' \in BOOLEAN /\ reset' \in BOOLEAN
      /\ res' \in BOOLEAN /\ hw' \in Machines /\ Len(KbcProg) + 1 = 14
  BY <1>1, KbcProgFacts DEF TypeInv, TypeOK
<1>3. CASE KbcProg[k].op = "wait" /\ Poll(KbcProg[k]) /\ UNCHANGED <<ibf, obf, b>>
  <2>1. k' \in 1 .. 14 /\ i' \in 0 .. Timeout - 1
        /\ pc' \in {"start", "bios", "kbc", "fast", "done"}
    BY <1>1, <1>2, <1>3, PollCases
  <2>2. QED
    BY <1>0, <1>2, <1>3, <2>1 DEF TypeInv, TypeOK
<1>4. CASE /\ KbcProg[k].op = "cmd"
           /\ ibf' = [port |-> 100, v |-> KbcProg[k].v] /\ k' = k + 1
           /\ UNCHANGED <<pc, i, obf, b>>
  <2>1. ibf' \in [port : {96, 100}, v : 0 .. 255] /\ k' \in 1 .. 14
    BY <1>1, <1>4, KbcProgFacts
  <2>2. QED
    BY <1>0, <1>2, <1>4, <2>1 DEF TypeInv, TypeOK
<1>5. CASE k = 6 /\ ReadData /\ k' = k + 1 /\ UNCHANGED <<pc, i, ibf>>
  <2>1. b' \in 0 .. 255 /\ obf' = None
    <3>1. b' \in IF obf # None THEN {obf} ELSE {0, 255}
      BY <1>5 DEF ReadData
    <3>2. b' \in 0 .. 255
      <4>1. CASE obf # None
        BY <1>2, <3>1, <4>1 DEF None
      <4>2. CASE obf = None
        BY <3>1, <4>2
      <4>3. QED
        BY <4>1, <4>2
    <3>3. obf' = None
      BY <1>5 DEF ReadData
    <3>4. QED
      BY <3>2, <3>3
  <2>2. QED
    BY <1>0, <1>2, <1>5, <2>1 DEF TypeInv, TypeOK, None
<1>6. CASE /\ k = 10 /\ ibf' = [port |-> 96, v |-> Or2(b)] /\ k' = k + 1
           /\ UNCHANGED <<pc, i, obf, b>>
  <2>1. ibf' \in [port : {96, 100}, v : 0 .. 255]
    BY <1>2, <1>6, Or2Facts
  <2>2. QED
    BY <1>0, <1>2, <1>6, <2>1 DEF TypeInv, TypeOK
<1>7. QED
  BY <1>3, <1>4, <1>5, <1>6, KbcStepCases

LEMMA FastType ==
    ASSUME TypeInv, FastA20
    PROVE  TypeInv'
<1> DEFINE v == Port92
           w == (v - Bit(v, 0)) + 2
<1>1. v \in 0 .. 255
  BY MachineFacts DEF Port92, TypeInv, TypeOK
<1>2. Bit(v, 1) = 0 => w \in 0 .. 255
  BY <1>1, FastByteFacts DEF w
<1>3. /\ p92' = IF Bit(v, 1) = 0 /\ hw.fast THEN w ELSE p92
      /\ b' = IF Bit(v, 1) = 0 THEN w ELSE v
      /\ reset' \in BOOLEAN /\ pc' = "done" /\ res' \in BOOLEAN
  BY CheckBoolean DEF FastA20, Return, w, v
<1>4. p92' \in 0 .. 255 /\ b' \in 0 .. 255
  BY <1>1, <1>2, <1>3 DEF TypeInv, TypeOK
<1>5. UNCHANGED <<hw, bios, outport, ibf, obf, expect, kbd, k, i>>
  BY DEF FastA20
<1>6. QED
  BY <1>3, <1>4, <1>5 DEF TypeInv, TypeOK

LEMMA ConsumeType ==
    ASSUME TypeInv, KbcConsume
    PROVE  TypeInv'
<1>1. /\ ibf \in [port : {96, 100}, v : 0 .. 255] /\ outport \in 0 .. 255
      /\ reset \in BOOLEAN
  BY KbcConsumeCases DEF TypeInv, TypeOK
<1>2. expect \in BOOLEAN /\ kbd \in BOOLEAN /\ obf \in 0 .. 256
  BY DEF TypeInv, TypeOK
<1>3. /\ hw.kbc /\ ibf # NoIn /\ ibf' = NoIn
      /\ UNCHANGED <<hw, bios, p92, pc, k, i, b, res>>
  BY KbcConsumeCases
<1> DEFINE Types == /\ outport' \in 0 .. 255 /\ obf' \in 0 .. 256 /\ expect' \in BOOLEAN
                   /\ kbd' \in BOOLEAN /\ reset' \in BOOLEAN
<1>4. Types
  <2>1. CASE /\ ibf.port = 96 /\ expect /\ outport' = ibf.v /\ expect' = FALSE
             /\ reset' = (reset \/ Bit(ibf.v, 0) = 0) /\ UNCHANGED <<obf, kbd>>
    BY <1>1, <1>2, <2>1 DEF Types
  <2>2. CASE kbd' \in BOOLEAN /\ UNCHANGED <<outport, expect, reset, obf>>
    BY <1>1, <1>2, <2>2 DEF Types
  <2>3. CASE /\ ibf.port = 100 /\ ibf.v = 208 /\ obf = None /\ obf' = outport
             /\ UNCHANGED <<outport, expect, reset, kbd>>
    BY <1>1, <1>2, <2>3 DEF Types
  <2>4. CASE expect' = TRUE /\ UNCHANGED <<outport, reset, obf, kbd>>
    BY <1>1, <1>2, <2>4 DEF Types
  <2>5. CASE UNCHANGED <<outport, expect, reset, obf, kbd>>
    BY <1>1, <1>2, <2>5 DEF Types
  <2>6. QED
    BY <2>1, <2>2, <2>3, <2>4, <2>5, KbcConsumeCases
<1>5. QED
  BY <1>3, <1>4 DEF Types, TypeInv, TypeOK

(* Every step keeps the types.                                             *)
LEMMA TypeStep ==
    TypeInv /\ [Next]_vars => TypeInv'
<1> SUFFICES ASSUME TypeInv, [Next]_vars PROVE TypeInv'
  OBVIOUS
<1>1. CASE Start
  BY <1>1, StartType
<1>2. CASE BiosMethod
  BY <1>2, BiosType
<1>3. CASE KbcStep
  BY <1>3, KbcStepType
<1>4. CASE KbcCheck
  BY <1>4, KbcCheckType
<1>5. CASE FastA20
  BY <1>5, FastType
<1>6. CASE KbcConsume
  BY <1>6, ConsumeType
<1>7. CASE UNCHANGED vars
  <2>1. UNCHANGED <<hw, bios, outport, p92, ibf, obf, expect, kbd, reset, pc, k, i, b, res>>
    BY <1>7 DEF vars
  <2>2. QED
    BY <2>1 DEF TypeInv, TypeOK
<1>9. CASE Returned
  BY <1>7, <1>9 DEF Returned
<1>8. QED
  BY <1>1, <1>2, <1>3, <1>4, <1>5, <1>6, <1>7, <1>9 DEF Next, Cpu

-----------------------------------------------------------------------------
(* The CPU steps around the keyboard controller method keep SafeInv.      *)

(* Lines 47-48: the first check returns or goes on to the BIOS.            *)
LEMMA StartSafe ==
    ASSUME SafeInv, Start
    PROVE  SafeInv'
<1>1. TypeInv'
  BY StartType DEF SafeInv
<1>2. /\ pc = "start" /\ pc' \in {"bios", "done"}
      /\ UNCHANGED <<hw, bios, outport, p92, ibf, obf, expect, kbd, reset, k, i, b>>
  BY DEF Start, Return
<1>3. QED
  BY <1>1, <1>2 DEF SafeInv

(* Lines 51-56: the BIOS call; the method after it starts at statement 1. *)
LEMMA BiosSafe ==
    ASSUME SafeInv, BiosMethod
    PROVE  SafeInv'
<1>1. TypeInv'
  BY BiosType DEF SafeInv
<1>2. /\ pc = "bios" /\ pc' \in {"kbc", "done"}
      /\ UNCHANGED <<hw, outport, p92, ibf, obf, expect, kbd, reset, k, i, b>>
  BY DEF BiosMethod, Return
<1>3. k' = 1
  BY <1>2 DEF SafeInv
<1>4. QED
  BY <1>1, <1>2, <1>3 DEF SafeInv

(* Lines 73-74: the check after the method returns or goes to fast A20.   *)
LEMMA KbcCheckSafe ==
    ASSUME SafeInv, KbcCheck
    PROVE  SafeInv'
<1>1. TypeInv'
  BY KbcCheckType DEF SafeInv
<1>2. /\ pc' \in {"fast", "done"}
      /\ UNCHANGED <<hw, bios, outport, p92, ibf, obf, expect, kbd, reset, k, i, b>>
  BY DEF KbcCheck, Return
<1>3. QED
  BY <1>1, <1>2 DEF SafeInv

(* Lines 79-89: the byte written to port 0x92 has bit 0 clear.             *)
LEMMA FastSafe ==
    ASSUME SafeInv, FastA20
    PROVE  SafeInv'
<1> DEFINE v == Port92
           w == (v - Bit(v, 0)) + 2
           open == Bit(v, 1) = 0 /\ hw.fast
<1>1. TypeInv'
  BY FastType DEF SafeInv
<1>2. v \in 0 .. 255
  BY MachineFacts DEF Port92, SafeInv, TypeInv, TypeOK
<1>3. open => Bit(w, 0) = 0
  BY <1>2, FastByteFacts DEF open, w
<1>4. reset' = (reset \/ (open /\ Bit(w, 0) = 1))
  BY DEF FastA20, v, w, open
<1>5. ~reset'
  <2>1. ~reset
    BY DEF SafeInv
  <2>2. ~(open /\ Bit(w, 0) = 1)
    BY <1>3
  <2>3. QED
    BY <2>1, <2>2, <1>4, Zenon
<1>6. /\ pc' = "done"
      /\ UNCHANGED <<hw, bios, outport, ibf, obf, expect, kbd, k, i>>
  BY DEF FastA20, Return
<1>7. QED
  BY <1>1, <1>5, <1>6 DEF SafeInv

(* Lines 59-71: a statement of the keyboard controller method.  A wait   *)
(* passes line 63 only with the output buffer full, so the read finds a   *)
(* byte of the controller's; b | 2 keeps its bit 0.                        *)
LEMMA KbcStepSafe ==
    ASSUME SafeInv, KbcStep
    PROVE  SafeInv'
<1> DEFINE Rest == /\ obf' # None => Bit(obf', 0) = 1
                   /\ ibf'.port = 96 => Bit(ibf'.v, 0) = 1
                   /\ ~hw'.kbc => k' = 1
                   /\ pc' \in {"start", "bios"} => k' = 1
                   /\ pc' = "kbc" /\ k' = 6 => obf' # None
                   /\ pc' = "kbc" /\ k' >= 7 => Bit(b', 0) = 1
<1>1. TypeInv'
  BY KbcStepType DEF SafeInv
<1>2. /\ pc = "kbc" /\ k \in 1 .. 13
      /\ UNCHANGED <<hw, bios, outport, p92, expect, kbd, reset, res>>
  BY KbcStepCases DEF SafeInv
<1>3. /\ obf # None => Bit(obf, 0) = 1
      /\ ibf.port = 96 => Bit(ibf.v, 0) = 1
      /\ ~hw.kbc => k = 1
      /\ k = 6 => obf # None
      /\ k >= 7 => Bit(b, 0) = 1
  BY <1>2 DEF SafeInv
<1>4. b \in 0 .. 255 /\ obf \in 0 .. 256 /\ hw.kbc \in BOOLEAN
  BY MachineFacts DEF SafeInv, TypeInv, TypeOK
<1> SUFFICES Rest
  BY <1>1, <1>2 DEF SafeInv, Rest
<1>5. CASE KbcProg[k].op = "wait" /\ Poll(KbcProg[k]) /\ UNCHANGED <<ibf, obf, b>>
  <2>1. /\ pc' \in {"kbc", "fast"} /\ k' \in {k, k + 1}
        /\ k' = k + 1 => Ready(KbcProg[k])
    BY <1>2, <1>5, PollCases
  <2>2. k # 6
    BY <1>2, <1>5, KbcProgFacts
  <2>3. ~hw.kbc => ~Ready(KbcProg[k])
    BY <1>3, KbcProgFacts DEF Ready, Status, W
  <2>4. k = 5 /\ Ready(KbcProg[k]) => obf # None
    <3>1. k = 5 => hw.kbc
      BY <1>3, <1>4
    <3>2. QED
      BY <3>1, <1>4, KbcProgFacts DEF Ready, Status, W, None
  <2>5. QED
    BY <1>2, <1>3, <1>5, <2>1, <2>2, <2>3, <2>4 DEF Rest
<1>6. CASE /\ KbcProg[k].op = "cmd"
           /\ ibf' = [port |-> 100, v |-> KbcProg[k].v] /\ k' = k + 1
           /\ UNCHANGED <<pc, i, obf, b>>
  <2>1. k \notin {1, 5, 6}
    BY <1>2, <1>6, KbcProgFacts DEF W
  <2>2. QED
    BY <1>2, <1>3, <1>4, <1>6, <2>1 DEF Rest
<1>7. CASE k = 6 /\ ReadData /\ k' = k + 1 /\ UNCHANGED <<pc, i, ibf>>
  <2>1. obf # None /\ b' = obf /\ obf' = None
    BY <1>3, <1>7 DEF ReadData
  <2>2. hw.kbc
    BY <1>3, <1>4, <1>7
  <2>3. QED
    BY <1>2, <1>3, <1>7, <2>1, <2>2 DEF Rest
<1>8. CASE /\ k = 10 /\ ibf' = [port |-> 96, v |-> Or2(b)] /\ k' = k + 1
           /\ UNCHANGED <<pc, i, obf, b>>
  <2>0. Bit(b, 0) = 1
    BY <1>3, <1>8
  <2>1. Bit(Or2(b), 0) = 1
    BY <2>0, <1>4, Or2Facts
  <2>2. hw.kbc
    BY <1>3, <1>4, <1>8
  <2>3. QED
    BY <1>2, <1>3, <1>8, <2>1, <2>2 DEF Rest
<1>9. QED
  BY <1>5, <1>6, <1>7, <1>8, KbcStepCases DEF SafeInv

(* The controller takes a byte: a data byte after 0xd1 becomes the output *)
(* port, 0xd0 hands the output port back; both keep bit 0 set.            *)
LEMMA ConsumeSafe ==
    ASSUME SafeInv, KbcConsume
    PROVE  SafeInv'
<1> DEFINE Rest == /\ ~reset' /\ Bit(outport', 0) = 1
                   /\ obf' # None => Bit(obf', 0) = 1
                   /\ pc' = "kbc" /\ k' = 6 => obf' # None
<1>1. TypeInv'
  BY ConsumeType DEF SafeInv
<1>2. /\ ibf' = NoIn
      /\ UNCHANGED <<hw, bios, p92, pc, k, i, b, res>>
  BY KbcConsumeCases
<1>3. /\ ~reset /\ Bit(outport, 0) = 1
      /\ obf # None => Bit(obf, 0) = 1
      /\ ibf.port = 96 => Bit(ibf.v, 0) = 1
      /\ pc = "kbc" /\ k = 6 => obf # None
  BY DEF SafeInv
<1>4. outport \in 0 .. 255
  BY DEF SafeInv, TypeInv, TypeOK
<1> SUFFICES Rest
  <2>1. ibf'.port # 96
    BY <1>2 DEF NoIn
  <2>2. QED
    BY <1>1, <1>2, <2>1 DEF SafeInv, Rest
<1>5. CASE /\ ibf.port = 96 /\ expect /\ outport' = ibf.v /\ expect' = FALSE
           /\ reset' = (reset \/ Bit(ibf.v, 0) = 0) /\ UNCHANGED <<obf, kbd>>
  <2>1. Bit(ibf.v, 0) = 1 /\ ~reset
    BY <1>3, <1>5
  <2>2. ~(Bit(ibf.v, 0) = 0)
    BY <2>1
  <2>3. ~reset'
    BY <1>5, <2>1, <2>2, Zenon
  <2>4. QED
    BY <1>2, <1>3, <1>5, <2>1, <2>3 DEF Rest
<1>6. CASE kbd' \in BOOLEAN /\ UNCHANGED <<outport, expect, reset, obf>>
  BY <1>2, <1>3, <1>6 DEF Rest
<1>7. CASE /\ ibf.port = 100 /\ ibf.v = 208 /\ obf = None /\ obf' = outport
           /\ UNCHANGED <<outport, expect, reset, kbd>>
  BY <1>3, <1>4, <1>7 DEF Rest, None
<1>8. CASE expect' = TRUE /\ UNCHANGED <<outport, reset, obf, kbd>>
  BY <1>2, <1>3, <1>8 DEF Rest
<1>9. CASE UNCHANGED <<outport, expect, reset, obf, kbd>>
  BY <1>2, <1>3, <1>9 DEF Rest
<1>10. QED
  BY <1>5, <1>6, <1>7, <1>8, <1>9, KbcConsumeCases

(* Every step keeps SafeInv.                                               *)
LEMMA SafeStep ==
    SafeInv /\ [Next]_vars => SafeInv'
<1> SUFFICES ASSUME SafeInv, [Next]_vars PROVE SafeInv'
  OBVIOUS
<1>1. CASE Start
  BY <1>1, StartSafe
<1>2. CASE BiosMethod
  BY <1>2, BiosSafe
<1>3. CASE KbcStep
  BY <1>3, KbcStepSafe
<1>4. CASE KbcCheck
  BY <1>4, KbcCheckSafe
<1>5. CASE FastA20
  BY <1>5, FastSafe
<1>6. CASE KbcConsume
  BY <1>6, ConsumeSafe
<1>7. CASE UNCHANGED vars
  <2>1. UNCHANGED <<hw, bios, outport, p92, ibf, obf, expect, kbd, reset, pc, k, i, b, res>>
    BY <1>7 DEF vars
  <2>2. QED
    BY <2>1 DEF SafeInv, TypeInv, TypeOK
<1>9. CASE Returned
  BY <1>7, <1>9 DEF Returned
<1>8. QED
  BY <1>1, <1>2, <1>3, <1>4, <1>5, <1>6, <1>7, <1>9 DEF Next, Cpu

(* The initial states are well typed.                                     *)
LEMMA InitType ==
    Init => TypeInv
<1> SUFFICES ASSUME Init PROVE TypeInv
  OBVIOUS
<1>1. hw \in Machines /\ obf \in 0 .. 256 /\ bios \in BOOLEAN
  BY MachineFacts DEF Init, None
<1>2. /\ outport = 221 /\ p92 = 0 /\ ibf = NoIn /\ expect = FALSE /\ kbd = TRUE
      /\ reset = FALSE /\ pc = "start" /\ k = 1 /\ i = 0 /\ b = 0 /\ res = FALSE
  BY DEF Init
<1>3. k \in 1 .. Len(KbcProg) + 1 /\ i \in 0 .. Timeout - 1
  BY <1>2, TimeoutAssumption, KbcProgFacts
<1>4. ibf \in {NoIn} \cup [port : {96, 100}, v : 0 .. 255]
  BY <1>2, Zenon
<1>5. outport \in 0 .. 255 /\ p92 \in 0 .. 255 /\ b \in 0 .. 255
  BY <1>2, SMT
<1>6. /\ expect \in BOOLEAN /\ kbd \in BOOLEAN /\ reset \in BOOLEAN /\ res \in BOOLEAN
      /\ pc \in {"start", "bios", "kbc", "fast", "done"}
  BY <1>2, Zenon
<1>7. QED
  BY <1>1, <1>3, <1>5, <1>4, <1>6, Zenon DEF TypeInv, TypeOK

(* a20_enable and the controller keep every variable in its type: bytes   *)
(* in 0 .. 255, the statement index within the method and the poll count  *)
(* below A20_KBC_TIMEOUT, for every set of machines and every timeout.    *)
THEOREM A20TypeCorrect == Spec => []TypeOK
<1>1. Init => TypeInv
  BY InitType
<1>2. TypeInv => TypeOK
  BY DEF TypeInv
<1>3. QED
  BY <1>1, <1>2, TypeStep, PTL DEF Spec

(* With no key waiting in the controller, a20_enable never resets the     *)
(* machine, for every set of machines and every timeout: what line 68     *)
(* writes to the output port (0xd1 then the byte of line 64 with bit 1    *)
(* set) and what line 83 writes to port 0x92 keep the reset line high.     *)
THEOREM NoResetCorrect ==
    ASSUME NoKeyPending
    PROVE  Spec => []NoReset
<1>1. Init => SafeInv
  <2> SUFFICES ASSUME Init PROVE SafeInv
    OBVIOUS
  <2>1. TypeInv
    BY InitType
  <2>2. obf = None
    BY DEF Init, NoKeyPending
  <2>3. /\ ~reset /\ outport = 221 /\ ibf = NoIn /\ k = 1
    BY DEF Init
  <2>4. Bit(outport, 0) = 1 /\ ibf.port # 96
    BY <2>3 DEF Bit, NoIn
  <2>5. QED
    BY <2>1, <2>2, <2>3, <2>4 DEF SafeInv
<1>2. SafeInv => NoReset
  BY DEF SafeInv, NoReset
<1>3. QED
  BY <1>1, <1>2, SafeStep, PTL DEF Spec


-----------------------------------------------------------------------------
(* a20_check's answer is the state of the line: 0x1234 and 0xedcb cannot  *)
(* both be the word at 0x107dfe.                                           *)
LEMMA CheckExact ==
    ASSUME NEW en \in BOOLEAN
    PROVE  A20Check(en) = en
  BY DEF A20Check

(* A statement of the keyboard controller method stays in it or gives up *)
(* to kbc_failed.                                                          *)
LEMMA KbcStepPc ==
    ASSUME TypeInv, KbcStep
    PROVE  pc' \in {"kbc", "fast"}
<1>1. pc = "kbc" /\ k \in 1 .. 13
  BY KbcStepCases
<1>2. KbcProg[k].op = "wait" /\ Poll(KbcProg[k]) => pc' \in {"kbc", "fast"}
  BY <1>1, PollCases
<1>3. QED
  BY <1>1, <1>2, KbcStepCases

(* Every step keeps ResInv.                                                *)
LEMMA ResStep ==
    ResInv /\ [Next]_vars => ResInv'
<1> SUFFICES ASSUME ResInv, [Next]_vars PROVE ResInv'
  OBVIOUS
<1>1. TypeInv'
  BY TypeStep DEF ResInv
<1> DEFINE Rest == /\ pc' \in {"start", "bios"} => ibf' = NoIn
                   /\ pc' = "bios" => ~Enabled'
<1> SUFFICES Rest
  BY <1>1 DEF ResInv, Rest
<1>2. CASE Start
  <2>1. /\ pc = "start" /\ ibf = NoIn
        /\ UNCHANGED <<hw, bios, outport, p92, ibf>>
    BY <1>2 DEF Start, ResInv
  <2>2. Enabled \in BOOLEAN /\ Enabled' = Enabled
    BY <2>1 DEF Enabled
  <2>3. pc' = "bios" => ~Enabled
    BY <1>2, <2>2, CheckExact DEF Start, Return
  <2>4. QED
    BY <2>1, <2>2, <2>3 DEF Rest
<1>3. CASE BiosMethod
  BY <1>3 DEF BiosMethod, Return, Rest
<1>4. CASE KbcStep
  BY <1>4, KbcStepPc DEF ResInv, Rest
<1>5. CASE KbcCheck
  BY <1>5 DEF KbcCheck, Return, Rest
<1>6. CASE FastA20
  BY <1>6 DEF FastA20, Return, Rest
<1>7. CASE KbcConsume
  <2>1. ibf' = NoIn /\ ibf # NoIn /\ pc' = pc
    BY <1>7, KbcConsumeCases
  <2>2. pc # "bios"
    BY <2>1 DEF ResInv
  <2>3. QED
    BY <2>1, <2>2 DEF Rest
<1>8. CASE UNCHANGED vars
  <2>1. UNCHANGED <<hw, bios, outport, p92, ibf, pc>>
    BY <1>8 DEF vars
  <2>2. Enabled' = Enabled
    BY <2>1 DEF Enabled
  <2>3. QED
    BY <2>1, <2>2 DEF ResInv, Rest
<1>9. CASE Returned
  BY <1>8, <1>9 DEF Returned
<1>10. QED
  BY <1>2, <1>3, <1>4, <1>5, <1>6, <1>7, <1>8, <1>9 DEF Next, Cpu


(* The steps of a20_enable that return (lines 48, 56, 74, 89) return      *)
(* whether the line is open.                                               *)
LEMMA AccurateStep ==
    ResInv /\ [Next]_vars => [pc # "done" /\ pc' = "done" => res' = Enabled']_vars
<1> SUFFICES ASSUME ResInv, [Next]_vars, pc # "done", pc' = "done"
             PROVE  res' = Enabled'
  OBVIOUS
<1>1. hw \in Machines /\ bios \in BOOLEAN
  BY DEF ResInv, TypeInv, TypeOK
<1>2. CASE Start
  <2>1. UNCHANGED <<hw, bios, outport, p92>> /\ res' = A20Check(Enabled)
    BY <1>2 DEF Start, Return
  <2>2. Enabled \in BOOLEAN /\ Enabled' = Enabled
    BY <2>1 DEF Enabled
  <2>3. QED
    BY <2>1, <2>2, CheckExact
<1>3. CASE BiosMethod
  <2>1. /\ UNCHANGED <<hw, outport, p92>> /\ bios' = hw.bios
        /\ res' = A20Check(hw.bios \/ Enabled)
    BY <1>3 DEF BiosMethod, Return
  <2>2. ~Enabled
    BY <1>3 DEF BiosMethod, ResInv
  <2>3. hw.bios \in BOOLEAN
    BY <1>1, MachineFacts
  <2>4. res' = hw.bios
    BY <2>1, <2>2, <2>3, CheckExact
  <2>5. Enabled' = hw.bios
    BY <2>1, <2>2, <2>3 DEF Enabled
  <2>6. QED
    BY <2>4, <2>5
<1>4. CASE KbcStep
  BY <1>4, KbcStepPc DEF ResInv
<1>5. CASE KbcCheck
  <2>1. UNCHANGED <<hw, bios, outport, p92>> /\ res' = A20Check(Enabled)
    BY <1>5 DEF KbcCheck, Return
  <2>2. Enabled \in BOOLEAN /\ Enabled' = Enabled
    BY <2>1 DEF Enabled
  <2>3. QED
    BY <2>1, <2>2, CheckExact
<1>6. CASE FastA20
  <2> DEFINE v == Port92
             w == (v - Bit(v, 0)) + 2
             open == Bit(v, 1) = 0 /\ hw.fast
  <2>1. /\ UNCHANGED <<hw, bios, outport>>
        /\ p92' = IF open THEN w ELSE p92
        /\ res' = A20Check(Enabled \/ (open /\ Bit(w, 1) = 1))
    BY <1>6 DEF FastA20, Return, v, w, open
  <2>2. v \in 0 .. 255 /\ hw.fast \in BOOLEAN
    BY <1>1, MachineFacts DEF Port92, ResInv, TypeInv, TypeOK
  <2>3. CASE open
    <3>1. Bit(w, 1) = 1 /\ hw.fast
      BY <2>2, <2>3, FastByteFacts DEF open, w
    <3>2. res' = TRUE
      BY <2>1, <2>3, <3>1, CheckExact
    <3>3. Enabled' = TRUE
      BY <2>1, <2>3, <3>1 DEF Enabled
    <3>4. QED
      BY <3>2, <3>3
  <2>4. CASE ~open
    <3>1. p92' = p92
      BY <2>1, <2>4
    <3>2. Enabled \in BOOLEAN /\ Enabled' = Enabled
      BY <2>1, <3>1 DEF Enabled
    <3>3. res' = (Enabled \/ (open /\ Bit(w, 1) = 1))
      BY <2>1, CheckExact
    <3>4. QED
      BY <2>4, <3>2, <3>3, Zenon
  <2>5. QED
    BY <2>3, <2>4
<1>7. CASE KbcConsume
  BY <1>7, KbcConsumeCases
<1>8. CASE UNCHANGED vars
  BY <1>8 DEF vars
<1>9. CASE Returned
  BY <1>9 DEF Returned
<1>10. QED
  BY <1>2, <1>3, <1>4, <1>5, <1>6, <1>7, <1>8, <1>9 DEF Next, Cpu

(* Whenever a20_enable returns, on every machine and with every timeout,  *)
(* its result is TRUE exactly when the A20 line is open at that moment.   *)
THEOREM ResultAccurateCorrect == Spec => ResultAccurate
<1>1. Init => ResInv
  <2> SUFFICES ASSUME Init PROVE ResInv
    OBVIOUS
  <2>1. TypeInv
    BY InitType
  <2>2. pc = "start" /\ ibf = NoIn
    BY DEF Init
  <2>3. QED
    BY <2>1, <2>2 DEF ResInv
<1>2. QED
  BY <1>1, ResStep, AccurateStep, PTL DEF Spec, ResultAccurate

=============================================================================
