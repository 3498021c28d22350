------------------------------ MODULE SerialProofs ------------------------------
(***************************************************************************)
(* Proofs about the COM1 driver (Serial) for every set of rates, bytes and *)
(* every bound on the calls.                                               *)
(***************************************************************************)
EXTENDS Serial, SequenceTheorems, TLAPS

(* The UART's registers, each holding a number.                           *)
Fields == {"lcr", "ier", "dll", "dlm", "fcr", "mcr"}
Regs == [Fields -> Nat]

(* The rates whose divisor 115200 / rate fits in the latch's low byte:     *)
(* 452 baud and up.  Line 25 clears the high byte, so below this the      *)
(* divisor is wrong (the serial_low_baud run).                            *)
LowDivisors == \A bd \in Bauds : 115200 \div bd < 256

(* One outb writes the register its offset reaches and leaves the others. *)
LEMMA OutStep ==
    ASSUME NEW r \in Regs, NEW off, NEW v \in Nat, NEW f \in Fields,
           RegAt(r, off) = f
    PROVE  /\ OutReg(r, off, v) \in Regs
           /\ OutReg(r, off, v)[f] = v
           /\ \A g \in Fields \ {f} : OutReg(r, off, v)[g] = r[g]
  BY DEF OutReg, Regs

(* The register each offset reaches: by DLAB for offsets 0 and 1.          *)
LEMMA RegAtFacts ==
    ASSUME NEW r \in Regs
    PROVE  /\ r.lcr = 0 => RegAt(r, 1) = "ier"
           /\ r.lcr = 128 => RegAt(r, 0) = "dll" /\ RegAt(r, 1) = "dlm"
           /\ RegAt(r, 2) = "fcr" /\ RegAt(r, 3) = "lcr" /\ RegAt(r, 4) = "mcr"
  BY DEF RegAt

(* The nine outb of serial_initialise leave the divisor's low byte in the *)
(* latch, its high byte cleared by line 25, DLAB clear and interrupts off, *)
(* whatever the registers held before.                                     *)
LEMMA InitRegsValue ==
    ASSUME NEW r \in Regs, NEW bd \in Nat \ {0}
    PROVE  /\ InitRegs(r, bd) \in Regs
           /\ InitRegs(r, bd).dll = Divisor(bd) % 256
           /\ InitRegs(r, bd).dlm = 0
           /\ InitRegs(r, bd).lcr = 3
           /\ InitRegs(r, bd).ier = 0
<1> DEFINE dv == Divisor(bd)
           r1 == OutReg(r, 3, 0)
           r2 == OutReg(r1, 1, 0)
           r3 == OutReg(r2, 3, 128)
           r4 == OutReg(r3, 0, dv % 256)
           r5 == OutReg(r4, 1, dv \div 256)
           r6 == OutReg(r5, 1, 0)
           r7 == OutReg(r6, 3, 3)
           r8 == OutReg(r7, 2, 199)
           r9 == OutReg(r8, 4, 11)
<1>0. dv % 256 \in Nat /\ dv \div 256 \in Nat
  BY DEF Divisor
<1>1. r1 \in Regs /\ r1.lcr = 0
  BY RegAtFacts, OutStep DEF Fields
<1>2. r2 \in Regs /\ r2.lcr = 0 /\ r2.ier = 0
  BY <1>1, RegAtFacts, OutStep DEF Fields
<1>3. r3 \in Regs /\ r3.lcr = 128 /\ r3.ier = 0
  BY <1>2, RegAtFacts, OutStep DEF Fields
<1>4. r4 \in Regs /\ r4.lcr = 128 /\ r4.ier = 0 /\ r4.dll = dv % 256
  BY <1>0, <1>3, RegAtFacts, OutStep DEF Fields
<1>5. r5 \in Regs /\ r5.lcr = 128 /\ r5.ier = 0 /\ r5.dll = dv % 256
  BY <1>0, <1>4, RegAtFacts, OutStep DEF Fields
<1>6. r6 \in Regs /\ r6.lcr = 128 /\ r6.ier = 0 /\ r6.dll = dv % 256
      /\ r6.dlm = 0
  BY <1>5, RegAtFacts, OutStep DEF Fields
<1>7. r7 \in Regs /\ r7.lcr = 3 /\ r7.ier = 0 /\ r7.dll = dv % 256
      /\ r7.dlm = 0
  BY <1>6, RegAtFacts, OutStep DEF Fields
<1>8. r8 \in Regs /\ r8.lcr = 3 /\ r8.ier = 0 /\ r8.dll = dv % 256
      /\ r8.dlm = 0
  BY <1>7, RegAtFacts, OutStep DEF Fields
<1>9. r9 \in Regs /\ r9.lcr = 3 /\ r9.ier = 0 /\ r9.dll = dv % 256
      /\ r9.dlm = 0
  BY <1>8, RegAtFacts, OutStep DEF Fields
<1>10. QED
  BY <1>9 DEF InitRegs

-----------------------------------------------------------------------------
(* The divisor: the variables serial_initialise reads and writes keep     *)
(* their types, and DivisorProgrammed holds.                              *)
DivInv ==
    /\ baud \in Bauds
    /\ initialised \in BOOLEAN
    /\ reg \in Regs
    /\ DivisorProgrammed

(* A step that leaves the rate, the flag and the registers keeps DivInv.  *)
LEMMA DivFrame ==
    ASSUME DivInv, UNCHANGED <<baud, initialised, reg>>
    PROVE  DivInv'
<1>1. baud' \in Bauds /\ initialised' \in BOOLEAN /\ reg' \in Regs
  BY DEF DivInv
<1>2. DivisorProgrammed'
  <2>1. DivisorProgrammed
    BY DEF DivInv
  <2>2. QED
    BY <2>1 DEF DivisorProgrammed
<1>3. QED
  BY <1>1, <1>2 DEF DivInv

(* serial_initialise keeps DivInv, whether it returns early or writes.     *)
LEMMA InitialiseStep ==
    ASSUME LowDivisors, DivInv, Initialise, UNCHANGED baud
    PROVE  DivInv'
<1>1. CASE initialised \/ ~Enabled
  <2>1. UNCHANGED <<initialised, reg>>
    BY <1>1 DEF Initialise
  <2>2. QED
    BY <2>1, DivFrame
<1>2. CASE ~(initialised \/ ~Enabled)
  <2>1. reg' = InitRegs(reg, baud) /\ initialised' = TRUE
    BY <1>2 DEF Initialise
  <2>2. baud \in Nat \ {0} /\ 115200 \div baud < 256
    BY BaudAssumption DEF DivInv, LowDivisors
  <2>3. Divisor(baud) % 256 = 115200 \div baud
    BY <2>2 DEF Divisor
  <2>4. reg \in Regs
    BY DEF DivInv
  <2>5. /\ reg' \in Regs
        /\ reg'.dll = 115200 \div baud
        /\ reg'.dlm = 0 /\ reg'.lcr = 3 /\ reg'.ier = 0
    BY <2>1, <2>2, <2>3, <2>4, InitRegsValue
  <2>6. DivisorProgrammed'
    <3>1. baud' = baud /\ 115200 \div baud \in Nat
      BY <2>2
    <3>2. reg'.dll + 256 * reg'.dlm = 115200 \div baud'
      BY <2>5, <3>1
    <3>3. QED
      BY <2>5, <3>2 DEF DivisorProgrammed
  <2>7. baud' \in Bauds /\ initialised' \in BOOLEAN
    BY <2>1 DEF DivInv
  <2>8. QED
    BY <2>5, <2>6, <2>7 DEF DivInv
<1>3. QED
  BY <1>1, <1>2

(* Once serial_initialise has run, on a rate of 452 baud or more, the     *)
(* divisor latch holds 115200 / serial_baudrate, DLAB is clear and the    *)
(* UART's interrupts are off, whatever serial_out and serial_in do after. *)
THEOREM DivisorCorrect ==
    ASSUME LowDivisors
    PROVE  Spec => []DivisorProgrammed
<1>1. Init => DivInv
  <2> SUFFICES ASSUME Init PROVE DivInv
    OBVIOUS
  <2>1. reg = [lcr |-> 0, ier |-> 0, dll |-> 0, dlm |-> 0, fcr |-> 0, mcr |-> 0]
    BY DEF Init
  <2>2. reg \in Regs
    BY <2>1 DEF Regs, Fields
  <2>3. baud \in Bauds /\ initialised = FALSE
    BY DEF Init
  <2>4. DivisorProgrammed
    BY <2>3 DEF DivisorProgrammed
  <2>5. QED
    BY <2>2, <2>3, <2>4 DEF DivInv
<1>2. DivInv /\ [Next]_vars => DivInv'
  <2> SUFFICES ASSUME DivInv, [Next]_vars PROVE DivInv'
    OBVIOUS
  <2>1. ASSUME NEW c \in Bytes, SerialOut(c) PROVE DivInv'
    BY <2>1, InitialiseStep DEF SerialOut
  <2>2. ASSUME NEW c \in Bytes, Receive(c) PROVE DivInv'
    BY <2>2, DivFrame DEF Receive
  <2>3. CASE SerialOutWrite
    BY <2>3, DivFrame DEF SerialOutWrite
  <2>4. CASE Spin
    BY <2>4, DivFrame DEF Spin, vars
  <2>5. CASE SerialIn
    BY <2>5, InitialiseStep DEF SerialIn
  <2>6. CASE Transmit
    BY <2>6, DivFrame DEF Transmit
  <2>7. CASE UNCHANGED vars
    BY <2>7, DivFrame DEF vars
  <2>8. QED
    BY <2>1, <2>2, <2>3, <2>4, <2>5, <2>6, <2>7 DEF Next
<1>3. DivInv => DivisorProgrammed
  BY DEF DivInv
<1>4. QED
  BY <1>1, <1>2, <1>3, PTL DEF Spec
-----------------------------------------------------------------------------
(* The streams: what serial_out holds at each stage of its way out.       *)
InFlight == IF thr = None THEN <<>> ELSE <<thr>>
Waiting == IF pc = "out" THEN <<pending>> ELSE <<>>

(* StreamsInOrder made inductive: the sequences hold bytes, the holding   *)
(* register a byte or nothing, and a serial_out under way has its byte.   *)
SeqInv ==
    /\ sent \in Seq(Bytes) /\ wire \in Seq(Bytes)
    /\ got \in Seq(Bytes) /\ rx \in Seq(Bytes) /\ heard \in Seq(Bytes)
    /\ thr \in Bytes \cup {None}
    /\ pc \in {"idle", "out"}
    /\ pc = "out" => pending \in Bytes
    /\ StreamsInOrder

(* A non-empty sequence is its head followed by its tail.                  *)
LEMMA HeadThenTail ==
    ASSUME NEW S, NEW t \in Seq(S), t # <<>>
    PROVE  <<Head(t)>> \o Tail(t) = t
<1>1. Head(t) \in S /\ Tail(t) \in Seq(S) /\ Len(Tail(t)) = Len(t) - 1
  BY HeadTailProperties
<1>2. <<Head(t)>> \in Seq(S) /\ Len(<<Head(t)>>) = 1
  BY <1>1
<1>3. <<Head(t)>> \o Tail(t) \in Seq(S)
      /\ Len(<<Head(t)>> \o Tail(t)) = Len(t)
  BY <1>1, <1>2, ConcatProperties
<1>4. \A i \in 1 .. Len(t) : (<<Head(t)>> \o Tail(t))[i] = t[i]
  BY <1>1, <1>2, ConcatProperties, HeadTailProperties
<1>5. QED
  BY <1>3, <1>4, SeqEqual

(* serial_in: taking the head of the FIFO onto what was returned keeps    *)
(* their concatenation.                                                    *)
LEMMA MoveHead ==
    ASSUME NEW S, NEW s \in Seq(S), NEW t \in Seq(S), t # <<>>
    PROVE  Append(s, Head(t)) \o Tail(t) = s \o t
<1>1. Head(t) \in S /\ Tail(t) \in Seq(S) /\ <<Head(t)>> \in Seq(S)
  BY HeadTailProperties
<1>2. Append(s, Head(t)) = s \o <<Head(t)>>
  BY <1>1, AppendIsConcat
<1>3. (s \o <<Head(t)>>) \o Tail(t) = s \o (<<Head(t)>> \o Tail(t))
  BY <1>1, ConcatAssociative
<1>4. QED
  BY <1>2, <1>3, HeadThenTail

(* Appending to the right operand of a concatenation.                      *)
LEMMA AppendConcat ==
    ASSUME NEW S, NEW s \in Seq(S), NEW t \in Seq(S), NEW e \in S
    PROVE  s \o Append(t, e) = Append(s \o t, e)
<1>1. <<e>> \in Seq(S) /\ s \o t \in Seq(S)
  BY ConcatProperties
<1>2. Append(t, e) = t \o <<e>> /\ Append(s \o t, e) = (s \o t) \o <<e>>
  BY <1>1, AppendIsConcat
<1>3. QED
  BY <1>1, <1>2, ConcatAssociative

(* The two streams of StreamsInOrder, named.                              *)
LEMMA StreamsIff ==
    StreamsInOrder <=> (wire \o InFlight \o Waiting = sent /\ got \o rx = heard)
  BY DEF StreamsInOrder, InFlight, Waiting

(* A step that moves no byte keeps SeqInv.                                 *)
LEMMA SeqFrame ==
    ASSUME SeqInv, UNCHANGED <<thr, wire, rx, pc, pending, sent, got, heard>>
    PROVE  SeqInv'
<1>1. StreamsInOrder'
  <2>1. StreamsInOrder
    BY DEF SeqInv
  <2>2. QED
    BY <2>1 DEF StreamsInOrder
<1>2. QED
  BY <1>1 DEF SeqInv

(* serial_out(c): the byte joins sent and waits in serial_out.            *)
LEMMA OutStepSeq ==
    ASSUME SeqInv, NEW c \in Bytes, SerialOut(c)
    PROVE  SeqInv'
<1>1. pc = "idle" /\ pc' = "out" /\ pending' = c /\ sent' = Append(sent, c)
      /\ UNCHANGED <<thr, wire, rx, got, heard>>
  BY DEF SerialOut
<1>2. wire \o InFlight \in Seq(Bytes) /\ InFlight \in Seq(Bytes)
  BY BaudAssumption, ConcatProperties DEF SeqInv, InFlight, None
<1>3. wire \o InFlight = sent
  <2>1. Waiting = <<>>
    BY <1>1 DEF Waiting
  <2>2. QED
    BY <1>2, <2>1, StreamsIff, ConcatEmptySeq DEF SeqInv
<1>4. wire' \o InFlight' \o Waiting' = sent'
  <2>1. InFlight' = InFlight /\ Waiting' = <<c>>
    BY <1>1 DEF InFlight, Waiting
  <2>2. QED
    BY <1>1, <1>2, <1>3, <2>1, AppendIsConcat DEF SeqInv
<1>5. got' \o rx' = heard'
  BY <1>1, StreamsIff DEF SeqInv
<1>6. StreamsInOrder'
  BY <1>4, <1>5 DEF StreamsInOrder, InFlight, Waiting
<1>7. QED
  BY <1>1, <1>6, AppendProperties DEF SeqInv

(* Line 37: the byte serial_out waited with goes to the empty holding     *)
(* register.                                                               *)
LEMMA WriteStepSeq ==
    ASSUME SeqInv, SerialOutWrite
    PROVE  SeqInv'
<1>1. pc = "out" /\ thr = None /\ thr' = pending /\ pc' = "idle"
      /\ UNCHANGED <<wire, rx, sent, got, heard>>
  BY DEF SerialOutWrite, Thre
<1>2. pending \in Bytes /\ pending # None
  BY <1>1, BaudAssumption DEF SeqInv, None
<1>3. InFlight = <<>> /\ Waiting = <<pending>>
      /\ InFlight' = <<pending>> /\ Waiting' = <<>>
  BY <1>1, <1>2 DEF InFlight, Waiting
<1>4. wire \o <<>> = wire /\ (wire \o <<pending>>) \o <<>> = wire \o <<pending>>
  <2>1. wire \o <<pending>> \in Seq(Bytes)
    BY <1>2, ConcatProperties DEF SeqInv
  <2>2. QED
    BY <2>1, ConcatEmptySeq DEF SeqInv
<1>5. wire' \o InFlight' \o Waiting' = sent'
  BY <1>1, <1>3, <1>4, StreamsIff DEF SeqInv
<1>6. StreamsInOrder'
  <2>1. got' \o rx' = heard'
    BY <1>1, StreamsIff DEF SeqInv
  <2>2. QED
    BY <1>5, <2>1 DEF StreamsInOrder, InFlight, Waiting
<1>7. QED
  BY <1>1, <1>2, <1>6 DEF SeqInv

(* The UART puts the holding register's byte on the line.                 *)
LEMMA TransmitStepSeq ==
    ASSUME SeqInv, Transmit
    PROVE  SeqInv'
<1>1. thr # None /\ wire' = Append(wire, thr) /\ thr' = None
      /\ UNCHANGED <<rx, pc, pending, sent, got, heard>>
  BY DEF Transmit
<1>2. thr \in Bytes
  BY <1>1 DEF SeqInv
<1>3. InFlight = <<thr>> /\ InFlight' = <<>> /\ Waiting' = Waiting
  BY <1>1 DEF InFlight, Waiting
<1>4. wire' \in Seq(Bytes) /\ wire' = wire \o <<thr>>
  BY <1>1, <1>2, AppendProperties, AppendIsConcat DEF SeqInv
<1>5. wire' \o InFlight' = wire \o InFlight
  BY <1>3, <1>4, ConcatEmptySeq
<1>6. wire' \o InFlight' \o Waiting' = sent'
  BY <1>1, <1>3, <1>5, StreamsIff DEF SeqInv
<1>7. StreamsInOrder'
  <2>1. got' \o rx' = heard'
    BY <1>1, StreamsIff DEF SeqInv
  <2>2. QED
    BY <1>6, <2>1 DEF StreamsInOrder, InFlight, Waiting
<1>8. QED
  BY <1>1, <1>4, <1>7 DEF SeqInv, None

(* serial_in: with data ready, the FIFO's head is returned.               *)
LEMMA InStepSeq ==
    ASSUME SeqInv, SerialIn
    PROVE  SeqInv'
<1>1. UNCHANGED <<thr, wire, pc, pending, sent, heard>>
  BY DEF SerialIn
<1>2. CASE DataReady
  <2>1. rx # <<>> /\ got' = Append(got, Head(rx)) /\ rx' = Tail(rx)
    BY <1>2 DEF SerialIn, DataReady
  <2>2. got' \in Seq(Bytes) /\ rx' \in Seq(Bytes)
    BY <2>1, HeadTailProperties, AppendProperties DEF SeqInv
  <2>3. got' \o rx' = heard'
    BY <1>1, <2>1, MoveHead, StreamsIff DEF SeqInv
  <2>4. wire' \o InFlight' \o Waiting' = sent'
    BY <1>1, StreamsIff DEF SeqInv, InFlight, Waiting
  <2>5. StreamsInOrder'
    BY <2>3, <2>4 DEF StreamsInOrder, InFlight, Waiting
  <2>6. QED
    BY <1>1, <2>2, <2>5 DEF SeqInv
<1>3. CASE ~DataReady
  <2>1. UNCHANGED <<got, rx>>
    BY <1>3 DEF SerialIn, DataReady
  <2>2. QED
    BY <1>1, <2>1, SeqFrame
<1>4. QED
  BY <1>2, <1>3

(* The UART takes a byte from the line.                                    *)
LEMMA ReceiveStepSeq ==
    ASSUME SeqInv, NEW c \in Bytes, Receive(c)
    PROVE  SeqInv'
<1>1. rx' = Append(rx, c) /\ heard' = Append(heard, c)
      /\ UNCHANGED <<thr, wire, pc, pending, sent, got>>
  BY DEF Receive
<1>2. rx' \in Seq(Bytes) /\ heard' \in Seq(Bytes)
  BY <1>1, AppendProperties DEF SeqInv
<1>3. got' \o rx' = heard'
  <2>1. got \in Seq(Bytes) /\ rx \in Seq(Bytes)
    BY DEF SeqInv
  <2>2. got \o Append(rx, c) = Append(got \o rx, c)
    BY <2>1, AppendConcat
  <2>3. got \o rx = heard
    BY StreamsIff DEF SeqInv
  <2>4. QED
    BY <1>1, <2>2, <2>3
<1>4. wire' \o InFlight' \o Waiting' = sent'
  BY <1>1, StreamsIff DEF SeqInv, InFlight, Waiting
<1>5. StreamsInOrder'
  BY <1>3, <1>4 DEF StreamsInOrder, InFlight, Waiting
<1>6. QED
  BY <1>1, <1>2, <1>5 DEF SeqInv

(* Bytes leave by the line in the order serial_out was called with them,  *)
(* none lost or doubled, since serial_out writes only into an empty       *)
(* holding register; serial_in returns exactly the bytes the line         *)
(* brought, in order, since it reads only when data is ready.  For every  *)
(* set of bytes, rates and bound on the calls.                             *)
THEOREM StreamsCorrect == Spec => []StreamsInOrder
<1>1. Init => SeqInv
  <2> SUFFICES ASSUME Init PROVE SeqInv
    OBVIOUS
  <2>1. StreamsInOrder
    BY ConcatEmptySeq, EmptySeq DEF Init, StreamsInOrder
  <2>2. QED
    BY <2>1, EmptySeq DEF Init, SeqInv
<1>2. SeqInv /\ [Next]_vars => SeqInv'
  <2> SUFFICES ASSUME SeqInv, [Next]_vars PROVE SeqInv'
    OBVIOUS
  <2>1. ASSUME NEW c \in Bytes, SerialOut(c) PROVE SeqInv'
    BY <2>1, OutStepSeq
  <2>2. ASSUME NEW c \in Bytes, Receive(c) PROVE SeqInv'
    BY <2>2, ReceiveStepSeq
  <2>3. CASE SerialOutWrite
    BY <2>3, WriteStepSeq
  <2>4. CASE Spin
    BY <2>4, SeqFrame DEF Spin, vars
  <2>5. CASE SerialIn
    BY <2>5, InStepSeq
  <2>6. CASE Transmit
    BY <2>6, TransmitStepSeq
  <2>7. CASE UNCHANGED vars
    BY <2>7, SeqFrame DEF vars
  <2>8. QED
    BY <2>1, <2>2, <2>3, <2>4, <2>5, <2>6, <2>7 DEF Next
<1>3. SeqInv => StreamsInOrder
  BY DEF SeqInv
<1>4. QED
  BY <1>1, <1>2, <1>3, PTL DEF Spec

=============================================================================
