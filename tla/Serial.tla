------------------------------- MODULE Serial -------------------------------
(***************************************************************************)
(* The COM1 driver of common/drivers/serial.c against a 16550 UART.  The  *)
(* UART's registers are reached through ports 0x3f8 + 0 .. 5; while bit 7 *)
(* of the line control register (DLAB) is set, offsets 0 and 1 are the    *)
(* low and high bytes of the baud rate divisor, otherwise the transmit    *)
(* holding register and the interrupt enable register.  The UART sends    *)
(* the byte in its holding register and takes bytes from the line on its  *)
(* own; serial_out and serial_in are called one at a time.                *)
(***************************************************************************)
EXTENDS Naturals, Sequences

CONSTANTS
    Bauds,      \* the values serial_baudrate may hold
    Bytes,      \* the bytes callers send and the line delivers
    Enabled,    \* the serial global: serial output was asked for
    MaxMsgs     \* how many bytes are sent, and received, at most

ASSUME BaudAssumption == Bauds \subseteq Nat \ {0} /\ Bytes \subseteq 0 .. 255
ASSUME BoundAssumption == MaxMsgs \in Nat /\ Enabled \in BOOLEAN

VARIABLES
    baud,         \* serial_baudrate
    initialised,  \* serial_initialised
    reg,          \* the UART's registers: lcr, ier, dll, dlm, fcr, mcr
    thr,          \* the transmit holding register: a byte, or None
    wire,         \* the bytes the UART has put on the line
    rx,           \* the bytes received and not read yet
    pc,           \* "idle", or serial_out waiting for the holding register
    pending,      \* the byte that serial_out is to write
    sent,         \* every byte passed to serial_out, in order
    got,          \* every byte serial_in returned, in order
    heard         \* every byte the UART took from the line, in order

vars == <<baud, initialised, reg, thr, wire, rx, pc, pending, sent, got, heard>>

None == 256

(* The register that outb(0x3f8 + off, _) reaches: offsets 0 and 1 name *)
(* the divisor latch while DLAB (bit 7 of lcr) is set, else the holding   *)
(* and interrupt enable registers.                                         *)
RegAt(r, off) ==
    LET dl == r.lcr \div 128 = 1
    IN  CASE off = 0 /\ dl -> "dll"
          [] off = 1 /\ dl -> "dlm"
          [] off = 1 /\ ~dl -> "ier"
          [] off = 2 -> "fcr"
          [] off = 3 -> "lcr"
          [] off = 4 -> "mcr"

(* outb(0x3f8 + off, v) to a register other than the holding register.    *)
OutReg(r, off, v) == [r EXCEPT ![RegAt(r, off)] = v]

(* (uint16_t)(115200 / serial_baudrate)                                    *)
Divisor(bd) == (115200 \div bd) % 65536

(* The registers after the writes of serial_initialise, lines 17-28, one *)
(* outb per step; none of them is to offset 0 with DLAB clear.            *)
InitRegsSwapped(r, bd) ==
    LET dv == Divisor(bd)
        r3 == OutReg(OutReg(OutReg(r, 3, 0), 1, 0), 3, 128)
        r5 == OutReg(OutReg(r3, 0, dv \div 256), 1, dv % 256)
    IN  OutReg(OutReg(OutReg(OutReg(r5, 1, 0), 3, 3), 2, 199), 4, 11)
InitRegs(r, bd) ==
    LET dv == Divisor(bd)
        r1 == OutReg(r, 3, 0)                \* line 17: DLAB off
        r2 == OutReg(r1, 1, 0)               \* line 18: interrupts off
        r3 == OutReg(r2, 3, 128)             \* line 19: DLAB on
        r4 == OutReg(r3, 0, dv % 256)        \* line 22: divisor, low byte
        r5 == OutReg(r4, 1, dv \div 256)     \* line 23: divisor, high byte
        r6 == OutReg(r5, 1, 0)               \* line 25
        r7 == OutReg(r6, 3, 3)               \* line 26: 8N1, DLAB off
        r8 == OutReg(r7, 2, 199)             \* line 27: FIFOs
    IN  OutReg(r8, 4, 11)                    \* line 28: DTR, RTS, OUT2

(* serial_initialise, the whole call: nothing when done before or when    *)
(* serial output is off, else the writes and the flag.                    *)
Initialise ==
    IF initialised \/ ~Enabled THEN UNCHANGED <<initialised, reg>>
    ELSE /\ reg' = InitRegs(reg, baud)
         /\ initialised' = TRUE

(* The line status register: bit 5 the holding register is empty, bit 0   *)
(* data is ready.                                                          *)
ThreInverted == thr # None
Thre == thr = None
DataReady == rx # <<>>

Init ==
    /\ baud \in Bauds
    /\ initialised = FALSE
    /\ reg = [lcr |-> 0, ier |-> 0, dll |-> 0, dlm |-> 0, fcr |-> 0, mcr |-> 0]
    /\ thr = None /\ wire = <<>> /\ rx = <<>>
    /\ pc = "idle" /\ pending = None
    /\ sent = <<>> /\ got = <<>> /\ heard = <<>>

(* serial_out(c), lines 33-34: the call and serial_initialise.            *)
SerialOut(c) ==
    /\ pc = "idle" /\ Len(sent) < MaxMsgs
    /\ Initialise
    /\ pc' = "out" /\ pending' = c /\ sent' = Append(sent, c)
    /\ UNCHANGED <<baud, thr, wire, rx, got, heard>>

(* Lines 36-37: spin until the holding register is empty, then write the  *)
(* byte to it.  The spins change nothing; the write is this step.         *)
SerialOutWriteNoWait ==
    /\ pc = "out"
    /\ thr' = pending /\ pc' = "idle" /\ pending' = None
    /\ UNCHANGED <<baud, initialised, reg, wire, rx, sent, got, heard>>
SerialOutWrite ==
    /\ pc = "out" /\ Thre
    /\ thr' = pending /\ pc' = "idle" /\ pending' = None
    /\ UNCHANGED <<baud, initialised, reg, wire, rx, sent, got, heard>>

(* serial_in, lines 40-47: -1 when no data is ready, else the byte read   *)
(* from the receive buffer.                                                *)
SerialIn ==
    /\ pc = "idle"
    /\ Initialise
    /\ IF DataReady THEN got' = Append(got, Head(rx)) /\ rx' = Tail(rx)
                    ELSE UNCHANGED <<got, rx>>
    /\ UNCHANGED <<baud, thr, wire, pc, pending, sent, heard>>

(* The UART puts the byte in its holding register on the line.            *)
Transmit ==
    /\ thr # None
    /\ wire' = Append(wire, thr) /\ thr' = None
    /\ UNCHANGED <<baud, initialised, reg, rx, pc, pending, sent, got, heard>>

(* The UART takes a byte from the line into its receive FIFO.             *)
Receive(c) ==
    /\ Len(heard) < MaxMsgs
    /\ rx' = Append(rx, c) /\ heard' = Append(heard, c)
    /\ UNCHANGED <<baud, initialised, reg, thr, wire, pc, pending, sent, got>>

(* Line 36 while the holding register is full: a read of the line status *)
(* register that changes nothing.                                          *)
Spin == pc = "out" /\ ~Thre /\ UNCHANGED vars

Next ==
    \/ \E c \in Bytes : SerialOut(c) \/ Receive(c)
    \/ SerialOutWrite \/ Spin \/ SerialIn \/ Transmit

(* The UART sends at its rate, and the CPU goes on running serial_out.     *)
Spec == Init /\ [][Next]_vars /\ WF_vars(Transmit) /\ WF_vars(SerialOutWrite)

-----------------------------------------------------------------------------
(* Once serial_initialise has run, the UART divides its clock by          *)
(* 115200 / serial_baudrate, DLAB is clear (8N1) and its interrupts are   *)
(* off: the writes of lines 17-28 leave the divisor latch as computed at  *)
(* line 21.                                                                *)
DivisorProgrammed ==
    initialised =>
        /\ reg.dll + 256 * reg.dlm = 115200 \div baud
        /\ reg.lcr = 3 /\ reg.ier = 0

(* Bytes go out on the line in the order serial_out was called with them, *)
(* none lost or doubled (serial_out waits for the holding register, line  *)
(* 36), and serial_in returns the bytes the line brought, in order, none  *)
(* invented (it checks data ready first, line 43).                        *)
StreamsInOrder ==
    /\ wire \o (IF thr = None THEN <<>> ELSE <<thr>>)
            \o (IF pc = "out" THEN <<pending>> ELSE <<>>) = sent
    /\ got \o rx = heard

(* serial_out returns: the holding register empties at the UART's rate.   *)
OutReturns == pc = "out" ~> pc = "idle"
=============================================================================
