------------------------------ MODULE MemoryMap ------------------------------
(***************************************************************************)
(* The bank switching of src/src/mem.cpp: the 64K address space of the     *)
(* 6502 is eight 8K pages, memmap[0..7], that super_switch() recomputes    *)
(* from four I/O registers after every write to one of them, after every   *)
(* reset and after a saved state is loaded.                                *)
(*                                                                         *)
(* A page is <<device, bank, slice>>: an 8K slice of a 32K bank of NOR or  *)
(* ROM, or of the RAM arrays.  Bank and register values keep the numbers   *)
(* of the code.                                                            *)
(***************************************************************************)
EXTENDS Integers

CONSTANTS Models,        \* the emulated models one of which is started
          BankValues,    \* values the guest writes to I/O register 0x00,
          RoaBbsValues,  \*   0x0a,
          RambVolValues, \*   0x0d,
          ZpValues       \*   and 0x0f

AllModels == {"nc2000", "nc1020", "nc1020tw", "nc3000", "pc1000"}
Byte == 0 .. 255

ASSUME ModelsAssumption == Models \subseteq AllModels
ASSUME RegisterAssumption == /\ BankValues \subseteq Byte
                             /\ RoaBbsValues \subseteq Byte
                             /\ RambVolValues \subseteq Byte
                             /\ ZpValues \subseteq Byte

VARIABLES machine,  \* the mode flags, chosen once on the command line
          io,       \* ram_io[0x00], [0x0a], [0x0d], [0x0f]
          memmap,   \* the eight page pointers
          ram_40,   \* offset in ram_buff of the page at 0x40..0x7f
          saved,    \* the register part of the .state file: {} or {r}
          shown     \* history: page table and ram_40 when it was saved

mapVars == <<machine, io, memmap, ram_40, saved, shown>>

Registers == [bs : Byte, roa_bbs : Byte, ramb_vol : Byte, zp : Byte]
NoRegisters == [bs |-> 0, roa_bbs |-> 0, ramb_vol |-> 0, zp |-> 0]
IsNc1020(m) == m \in {"nc1020", "nc1020tw"}

\* NOR banks of 32K.
num_nor_pages(m) == IF m \in {"nc1020tw", "nc3000"} THEN 32 ELSE 16
-----------------------------------------------------------------------------
(* Pages *)

Pages ==      ({"nor"} \X (0 .. 31) \X (0 .. 3))
         \cup ({"rom"} \X (0 .. 383) \X (0 .. 3))
         \cup ({"ram"} \X {0} \X (0 .. 7))
         \cup ({"ext"} \X {0} \X (0 .. 3))
         \cup {<<"ram_b", 0, 0>>}

\* A 32K region that GetBank returns, and its four 8K slices.
Nor(i) == <<"nor", i>>
Ext == <<"ext", 0>>
Null == <<"null", 0>>
Slice(bank, n) == <<bank[1], bank[2], n>>

\* ram00, ram02, ... ram0e are the eight slices of the main RAM.
Ram(n) == <<"ram", 0, n>>
RamB == <<"ram_b", 0, 0>>
NullPage == Slice(Null, 0)

\* rom_volume0..2: the volumes share the lower half on pc1000, and only have
\* an upper half on nc1020.
RomVolume(m, volume, i) ==
    <<"rom", IF m = "pc1000"
               THEN IF i < 128 THEN i ELSE 128 * volume + i
               ELSE 128 * volume + i - 128>>
-----------------------------------------------------------------------------
(* The registers' bits *)

Roa(r) == r.roa_bbs \div 128 = 1
Bbs(r) == r.roa_bbs % 16
VolBit(r) == r.ramb_vol % 2

\* The nc1020's ROM volume: two bits, of which the value 3 selects volume 0.
Volume(r) == IF r.ramb_vol % 4 \in {1, 2} THEN r.ramb_vol % 4 ELSE 0

RambSelected(r) == (r.ramb_vol \div 4) % 2 = 1

\* The bank the window at 0x4000..0xbfff shows; Null when no such bank exists.
GetBank(m, r) ==
    CASE r.bs < num_nor_pages(m) -> Nor(r.bs)
      [] r.bs >= 128 /\ IsNc1020(m) -> RomVolume(m, Volume(r), r.bs)
      [] r.bs >= 128 /\ m = "nc2000" -> Ext
      [] OTHER -> Null
-----------------------------------------------------------------------------
(* super_switch() *)

Switch0x2000(m, r) ==
    IF (IsNc1020(m) \/ m = "nc2000") /\ RambSelected(r) THEN RamB ELSE Ram(1)

\* Page p of the bbs: slices 2, 3, 0, 1 of banks 0..3 of the NOR, or of the
\* ROM volume on pc1000.
BbsPage(m, r, p) ==
    Slice(IF m = "pc1000" THEN RomVolume(m, VolBit(r), p \div 4) ELSE Nor(p \div 4),
          (p + 2) % 4)

BbsBios6(m, r) ==
    IF Bbs(r) # 1 THEN BbsPage(m, r, Bbs(r))
    ELSE CASE IsNc1020(m) \/ m = "nc2000" -> Ram(2)
           [] m = "nc3000" -> Ram(3)
           [] m = "pc1000" -> IF VolBit(r) = 1 THEN Slice(Nor(0), 3) ELSE Ram(2)

\* A bank seen through the window: its upper half first.
Straight(bank) == [p \in 2 .. 5 |-> Slice(bank, p % 4)]

WindowPc1000(r) ==
    LET bank == IF Roa(r) THEN Nor(r.bs % 16) ELSE RomVolume("pc1000", VolBit(r), r.bs)
    IN  [p \in 2 .. 5 |->
           IF p >= 4 \/ r.bs # 0 \/ Roa(r) THEN Slice(bank, p % 4)
           ELSE IF VolBit(r) = 1 THEN Slice(Nor(0), p)
           ELSE Ram(2)]

WindowNc3000(r) ==
    CASE r.bs \in {0, 1} /\ Roa(r) -> [p \in 2 .. 5 |-> Ram(4 * r.bs + (p % 4))]
      [] r.bs = 0 /\ ~Roa(r) -> [Straight(Nor(0)) EXCEPT ![2] = Ram(2), ![3] = Ram(3)]
      [] OTHER -> Straight(GetBank("nc3000", r))

WindowNc2000(m, r) ==
    [p \in 2 .. 5 |->
       CASE r.bs = 0 /\ p < 4 -> Ram(2)
         [] r.bs = 0 /\ p >= 4 /\ Roa(r) -> Slice(Ext, p % 4)
         [] OTHER -> Slice(GetBank(m, r), p % 4)]

\* SwitchBank_2345: a bank that does not exist leaves the window alone (the
\* RAM windows of the nc3000 are chosen before GetBank is asked; pc1000 does
\* not ask it at all).
BankExists(m, r) == m = "pc1000" \/ GetBank(m, r) # Null

\* Mutant: SwitchBank_2345 without "if(bank== NULL) return".
SwitchBankUnchecked(m, r, old) ==
    CASE m = "pc1000" -> WindowPc1000(r)
      [] m = "nc3000" -> WindowNc3000(r)
      [] OTHER -> WindowNc2000(m, r)

SwitchBank_2345(m, r, old) ==
    IF BankExists(m, r)
      THEN CASE m = "pc1000" -> WindowPc1000(r)
             [] m = "nc3000" -> WindowNc3000(r)
             [] OTHER -> WindowNc2000(m, r)
      ELSE [p \in 2 .. 5 |-> old[p]]

Switched(m, r, old) ==
    [p \in 0 .. 7 |->
       CASE p = 0 -> old[0]
         [] p = 1 -> Switch0x2000(m, r)
         [] p \in 2 .. 5 -> SwitchBank_2345(m, r, old)[p]
         [] p = 6 -> BbsBios6(m, r)
         [] p = 7 -> BbsPage(m, r, 1)]

\* SwitchZP40: the three low bits of register 0x0f.
ZP40(r) == LET v == r.zp % 8
           IN  CASE v = 0 -> 64
                 [] v \in 1 .. 3 -> 0
                 [] OTHER -> 512 + 64 * (v - 4)

super_switch(r) == /\ memmap' = Switched(machine, r, memmap)
                   /\ ram_40' = ZP40(r)
-----------------------------------------------------------------------------
(* init_mem(): static pointers start NULL, memmap[0] is set by hand *)

Unmapped == [p \in 0 .. 7 |-> IF p = 0 THEN Ram(0) ELSE NullPage]
PowerOnMap(m) == Switched(m, NoRegisters, Unmapped)

MapInit == /\ machine \in Models
           /\ io = NoRegisters
           /\ memmap = PowerOnMap(machine)
           /\ ram_40 = ZP40(NoRegisters)
           /\ saved = {}
           /\ shown = <<memmap, ram_40>>

WriteRegister(field, value) ==
    /\ io' = [io EXCEPT ![field] = value]
    /\ super_switch(io')
    /\ UNCHANGED <<machine, saved, shown>>

\* Mutant: the register is stored, the map is not switched.
WriteBankNoSwitch == \E v \in BankValues :
    /\ io' = [io EXCEPT !.bs = v]
    /\ UNCHANGED <<machine, memmap, ram_40, saved, shown>>

WriteBankSwitch == \E v \in BankValues : WriteRegister("bs", v)
WriteBiosBsw == \E v \in RoaBbsValues : WriteRegister("roa_bbs", v)
WriteRambVol == \E v \in RambVolValues : WriteRegister("ramb_vol", v)
WriteZp40 == \E v \in ZpValues : WriteRegister("zp", v)

\* nc2k_state_warm_reset with simple_warm_reset: the bank registers survive.
StateWarmReset == /\ super_switch(io)
                  /\ UNCHANGED <<machine, io, saved, shown>>

\* nc2k_state_cold_reset: a warm reset first, then every register is zeroed
\* and the map switched again.
StateColdReset ==
    /\ io' = NoRegisters
    /\ memmap' = Switched(machine, NoRegisters, Switched(machine, io, memmap))
    /\ ram_40' = ZP40(NoRegisters)
    /\ UNCHANGED <<machine, saved, shown>>

\* The "wqxhex" command copies a program to the extended RAM and maps it.
Wqxhex == /\ io' = [io EXCEPT !.bs = 128, !.roa_bbs = 128]
          /\ super_switch(io')
          /\ UNCHANGED <<machine, saved, shown>>

\* Mutant: register 0x0f lies behind the end of what save_state writes.
SaveStateTooShort == /\ saved' = {[io EXCEPT !.zp = 0]}
                     /\ shown' = <<memmap, ram_40>>
                     /\ UNCHANGED <<machine, io, memmap, ram_40>>

\* save_state stores the registers; the pointers are not in the file.
SaveState == /\ saved' = {io}
             /\ shown' = <<memmap, ram_40>>
             /\ UNCHANGED <<machine, io, memmap, ram_40>>

\* The process ends and LoadNC2k() builds the map again: once for the zeroed
\* registers, and once more after load_state if loading is enabled and the
\* file can be opened.  reset_after_load_state switches a third time.
Restart(load) ==
    \E r \in IF load /\ saved # {} THEN saved ELSE {NoRegisters} :
        /\ io' = r
        /\ memmap' = Switched(machine, r, PowerOnMap(machine))
        /\ ram_40' = ZP40(r)
        /\ UNCHANGED <<machine, saved, shown>>

MapNext == \/ WriteBankSwitch \/ WriteBiosBsw \/ WriteRambVol \/ WriteZp40
           \/ StateWarmReset \/ StateColdReset \/ Wqxhex
           \/ SaveState
           \/ \E load \in BOOLEAN : Restart(load)

MapSpec == MapInit /\ [][MapNext]_mapVars
-----------------------------------------------------------------------------
(* Properties *)

\* Registers are bytes, every page pointer points to an 8K slice that lies
\* inside one of the emulator's arrays, and ram_40 into the first kilobyte of
\* RAM.
MapTypeOK == /\ machine \in Models
             /\ io \in Registers
             /\ memmap \in [0 .. 7 -> Pages]
             /\ ram_40 \in 0 .. 704
             /\ saved \subseteq Registers
             /\ shown \in [0 .. 7 -> Pages] \X (0 .. 704)

\* Every page pointer can be dereferenced, which Load and Store do unchecked:
\* it is never NULL, although GetBank returns NULL for a bank that does not
\* exist and the table starts zeroed, and a NOR page belongs to a bank that
\* init_nor has filled in.
PagesExist == \A p \in 0 .. 7 : /\ memmap[p][1] # "null"
                                /\ memmap[p][1] = "nor" => memmap[p][2] < num_nor_pages(machine)

\* Below 0x4000 the map always shows RAM.  Load and Store ask the NOR before
\* they decode an I/O register or the zero page, and Store writes there
\* without the check it makes above 0x4000, so a NOR page in the low 16K would
\* swallow register accesses or let a store bypass the NOR's protocol.
LowPagesAreRam == \A p \in 0 .. 1 : memmap[p][1] \in {"ram", "ram_b"}

\* What Load and Store rely on without checking it, mem.cpp 41-118.
PagesSound == PagesExist /\ LowPagesAreRam

\* However the registers were written and in whatever order, the map shows
\* what a machine started with these registers would show; only the window is
\* exempt, while it waits for a bank that exists.
MapCoherent ==
    /\ BankExists(machine, io) => memmap = Switched(machine, io, PowerOnMap(machine))
    /\ \A p \in {0, 1, 6, 7} : memmap[p] = Switched(machine, io, PowerOnMap(machine))[p]
    /\ ram_40 = ZP40(io)

\* A state that is loaded brings back what was mapped when it was saved,
\* whatever was mapped since and although no page pointer is in the file.  Only
\* a window that waited for a bank is not: it comes back as a machine that was
\* just turned on shows it, and not as the bank the guest saw.
RestoreSameMap ==
    [][\A load \in BOOLEAN, r \in saved :
         Restart(load) /\ load =>
           /\ ram_40' = shown[2]
           /\ \A p \in 0 .. 7 :
                memmap'[p] = IF p \in 2 .. 5 /\ ~BankExists(machine, r)
                               THEN PowerOnMap(machine)[p]
                               ELSE shown[1][p]]_mapVars
=============================================================================
