-------------------------------- MODULE Uart --------------------------------
(***************************************************************************)
(* The registers 0x3a to 0x3d (iv_uart.cpp): four banks of four, which the *)
(* low bits of 0x3d select, so that selecting a bank also writes a control *)
(* register of the bank that is left.  The guest's main program and its    *)
(* interrupt handler share them: the handler reads the vector from 0x3d in *)
(* bank 0 and has to leave everything as it was.                           *)
(*                                                                         *)
(* A byte is the set of its bits that are 1.  The program is built without *)
(* a serial port, as by default: nothing is ever received or ready.        *)
(***************************************************************************)
EXTENDS Integers

CONSTANTS UartBytes,   \* bound: the values the guest writes, beside the bank
          UsedRegisters \* bound: the registers at 0x3a to 0x3c it writes

UartBits == 0 .. 7
Banks == 0 .. 3
BankBits == [b \in Banks |-> (IF b % 2 = 1 THEN {0} ELSE {}) \cup (IF b >= 2 THEN {1} ELSE {})]
BankOf(value) == CHOOSE b \in Banks : BankBits[b] = value \cap {0, 1}

\* The registers of bank 0 to 3 at each address.
At3a == <<"THR", "BSR", "CSTOP", "GPC">>
At3b == <<"LCR", "IRCR", "CSTART", "RESERVED">>
At3c == <<"MCR", "MSR", "TMR", "P05">>
At3d == <<"IVR", "FCR", "IER", "none">>
UartRegisters == {"BSR", "CSTOP", "GPC", "LCR", "IRCR", "CSTART", "RESERVED",
                  "MCR", "MSR", "TMR", "P05", "IVR", "FCR", "IER"}

ASSUME UartAssumption == UartBytes \subseteq SUBSET UartBits

VARIABLES bk, uart,   \* the bank, and what the registers hold
          vector,     \* the first of iv_set, as a byte; 0x1f if there is none
          handler,    \* where the interrupt handler is
          saved_bk,   \* what it read from 0x3d
          asked       \* history: the bank and values the main program asked for

uartVars == <<bk, uart, vector, handler, saved_bk, asked>>

\* IV_2HZ, IV_SAMPLE, IV_ALARM and IV_NONE.
VectorBytes == {{}, {0}, {1}, {0, 1, 2, 3, 4}}

UartInit == /\ bk = 0 /\ uart = [r \in UartRegisters |-> {}]
            /\ vector = {0, 1, 2, 3, 4}
            /\ handler = "out" /\ saved_bk = {}
            /\ asked = [bank |-> 0, uart |-> uart]
-----------------------------------------------------------------------------
(* What the registers do *)

\* The bits of a control register that its bank keeps.
Kept == [b \in Banks |-> CASE b = 0 -> {2}           \* UCE
                           [] b = 1 -> {3, 6, 7}     \* 0xc8
                           [] b = 2 -> 2 .. 7
                           [] b = 3 -> {}]

Shift3(value) == {bit + 3 : bit \in {v \in value : v <= 4}}

\* Mutant: the vector is not moved out of the way of the other bits.
Read3dUnshifted == CASE bk = 0 -> vector \cup (uart["IVR"] \cap {2})
                     [] bk = 1 -> uart["FCR"] \cup BankBits[1]
                     [] bk = 2 -> uart["IER"] \cup BankBits[2]
                     [] bk = 3 -> BankBits[3]

read_3d == CASE bk = 0 -> Shift3(vector) \cup (uart["IVR"] \cap {2})
             [] bk = 1 -> uart["FCR"] \cup BankBits[1]
             [] bk = 2 -> uart["IER"] \cup BankBits[2]
             [] bk = 3 -> BankBits[3]

\* write_3d(): the bank that is left takes the value, then the new one comes.
Wrote3d(registers3d, bank, value) ==
    IF bank = 3 THEN registers3d
    ELSE [registers3d EXCEPT ![At3d[bank + 1]] = value \cap Kept[bank]]

\* write_3a(), write_3b(), write_3c(): bits 4 and 5 of BSR read back as zero,
\* and P05 holds the pins that GPC makes outputs.  What is sent is dropped.
Stored(registers3a, at, bank, value) ==
    LET r == at[bank + 1]
    IN  CASE r = "THR" -> registers3a
          [] r = "BSR" -> [registers3a EXCEPT !["BSR"] = value \ {4, 5}]
          [] r = "P05" -> [registers3a EXCEPT !["P05"] = value \cap registers3a["GPC"]]
          [] OTHER -> [registers3a EXCEPT ![r] = value]

\* Reading MCR clears its bit 4, as there is nothing to read.
AfterRead(registers3c, at, bank) ==
    IF at[bank + 1] = "MCR" THEN [registers3c EXCEPT !["MCR"] = @ \ {4}] ELSE registers3c
-----------------------------------------------------------------------------
(* The main program, when no handler runs *)

MainWritesControl(value) ==
    /\ handler = "out"
    /\ uart' = Wrote3d(uart, bk, value) /\ bk' = BankOf(value)
    /\ asked' = [bank |-> BankOf(value),
                 uart |-> IF asked.bank = 3 THEN asked.uart
                          ELSE [asked.uart EXCEPT ![At3d[asked.bank + 1]] = value \cap Kept[asked.bank]]]
    /\ UNCHANGED <<vector, handler, saved_bk>>

MainWrites(at, value) ==
    /\ handler = "out" /\ at[bk + 1] \in UsedRegisters
    /\ uart' = Stored(uart, at, bk, value)
    /\ asked' = [asked EXCEPT !.uart = Stored(@, at, asked.bank, value)]
    /\ UNCHANGED <<bk, vector, handler, saved_bk>>

MainReads(at) ==
    /\ handler = "out"
    /\ uart' = AfterRead(uart, at, bk)
    /\ asked' = [asked EXCEPT !.uart = AfterRead(@, at, asked.bank)]
    /\ UNCHANGED <<bk, vector, handler, saved_bk>>
-----------------------------------------------------------------------------
(* The interrupt handler: it remembers 0x3d, selects bank 0 to read the    *)
(* vector, and writes back what it remembers.                              *)

Interrupt == /\ handler = "out" /\ handler' = "entered"
             /\ vector' \in VectorBytes
             /\ UNCHANGED <<bk, uart, asked>>
             /\ saved_bk' = read_3d'

\* It selects bank 0, without disturbing the control bits it has read.
SelectsBank0 == /\ handler = "entered" /\ handler' = "bank0"
                /\ uart' = Wrote3d(uart, bk, saved_bk \ {0, 1}) /\ bk' = 0
                /\ UNCHANGED <<vector, saved_bk, asked>>

\* Back to the bank: UCE is what bank 0 says, the bank what was remembered, and
\* the bank's own control bits are still in place.
Returns == /\ handler = "bank0" /\ handler' = "out"
           /\ uart' = Wrote3d(uart, bk, (read_3d \ {0, 1}) \cup (saved_bk \cap {0, 1}))
           /\ bk' = BankOf(saved_bk)
           /\ vector' \in VectorBytes
           /\ UNCHANGED <<saved_bk, asked>>

UartNext == \/ \E value \in UartBytes, b \in Banks : MainWritesControl(value \cup BankBits[b])
            \/ \E at \in {At3a, At3b, At3c}, value \in UartBytes : MainWrites(at, value)
            \/ \E at \in {At3a, At3b, At3c} : MainReads(at)
            \/ Interrupt \/ SelectsBank0 \/ Returns

UartSpec == UartInit /\ [][UartNext]_uartVars
-----------------------------------------------------------------------------
(* Properties *)

\* An interrupt handler that puts 0x3d back leaves no trace: between handlers
\* the bank and every register are what the main program made them, although a
\* single address selects the bank, holds control bits that differ from bank to
\* bank and reports the vector (write_3d, read_3d).
HandlerLeavesNoTrace == handler = "out" => bk = asked.bank /\ uart = asked.uart
-----------------------------------------------------------------------------
(* What makes it inductive *)

UartTypeOK == /\ bk \in Banks /\ handler \in {"out", "entered", "bank0"}
              /\ uart \in [UartRegisters -> SUBSET UartBits]
              /\ vector \subseteq 0 .. 4

\* A control register holds the bits of its bank only, so that what is read from
\* 0x3d tells all of it.
OnlyKept == /\ uart["IVR"] \subseteq {2} /\ uart["FCR"] \subseteq {3, 6, 7}
            /\ uart["IER"] \subseteq 2 .. 7

\* What the handler remembers, until it has put it back.
Remembered ==
    CASE handler = "out" -> bk = asked.bank
      [] handler = "entered" -> bk = asked.bank /\ saved_bk = read_3d
      [] handler = "bank0" -> bk = 0 /\ asked.bank \in Banks
                              /\ saved_bk \cap {0, 1} = BankBits[asked.bank]

UartInv == /\ UartTypeOK /\ OnlyKept
           /\ asked = [bank |-> asked.bank, uart |-> uart] /\ Remembered
=============================================================================
