------------------------------ MODULE NorFlash ------------------------------
(***************************************************************************)
(* The NOR flash of src/src/nor.cpp: the command state machine             *)
(* (fp_step, fp_type) that write_nor0 runs on every store into a NOR page, *)
(* the byte array and the 256-byte information block behind it, and what   *)
(* read_nor answers while a command is in progress.  The guest switches    *)
(* banks between any two stores, and a warm or a cold reset may hit in the *)
(* middle of a command.                                                    *)
(*                                                                         *)
(* One bit of every byte is observed (BitWeight); zeros is the set of      *)
(* cells whose bit is 0.                                                   *)
(***************************************************************************)
EXTENDS MemoryMap

CONSTANTS Writes,     \* <<address, value>> pairs the guest stores
          BitWeight,  \* weight of the observed bit
          Images      \* contents the .nor file may have at start, as zeros

Addresses == 16384 .. 65535

ASSUME WritesAssumption == Writes \subseteq Addresses \X Byte
ASSUME BitAssumption == BitWeight \in {1, 2, 4, 8, 16, 32, 64, 128}

VARIABLES fp,     \* fp_step and fp_type
          zeros   \* cells of the array and the info block whose bit is 0

norVars == <<mapVars, fp, zeros>>
-----------------------------------------------------------------------------
(* The array *)

Offsets == {w[1] % 8192 : w \in Writes}
InfoOffsets == {w[1] % 256 : w \in Writes}

NorCells == {"nor"} \X (0 .. 31) \X (0 .. 3) \X Offsets
InfoCells == {"info"} \X {0} \X {0} \X InfoOffsets
Cell == NorCells \cup InfoCells

ASSUME ImagesAssumption == Images \subseteq SUBSET Cell

Page(a) == memmap[a \div 8192]

CellAt(a) == <<"nor", Page(a)[2], Page(a)[3], a % 8192>>
InfoCellAt(a) == <<"info", 0, 0, a % 256>>

\* The cells of bank b, slice q whose offset lies in the sector of size bytes
\* that holds offset off.
Sector(b, q, off, size) ==
    {c \in NorCells : c[2] = b /\ c[3] = q /\ c[4] \div size = off \div size}

SectorSize == IF machine = "nc2000" \/ IsNc1020(machine) THEN 2048 ELSE 4096
SectorAt(a) == Sector(Page(a)[2], Page(a)[3], a % 8192, SectorSize)
BankCells(count) == {c \in NorCells : c[2] < count}

BitClear(v) == (v \div BitWeight) % 2 = 0

\* Mutant: "= value" instead of "&= value".
ProgrammedOver(cell, v) == IF BitClear(v) THEN zeros \cup {cell} ELSE zeros \ {cell}

Programmed(cell, v) == IF BitClear(v) THEN zeros \cup {cell} ELSE zeros

in_nor_range(a) == Page(a)[1] = "nor"
-----------------------------------------------------------------------------
(* The command state machine *)

Types == {"NONE", "SW_ID", "BYTE_PROGRAM", "BLOCK_OR_MASS_ERASE", "INFO_BYTE_PROGRAM",
          "INFO_OR_BMASS_ERASE", "INFO_READ", "POLL_STATUS"}
ProgramTypes == {"BYTE_PROGRAM", "INFO_BYTE_PROGRAM"}
EraseTypes == {"BLOCK_OR_MASS_ERASE", "INFO_OR_BMASS_ERASE"}

Idle == [step |-> 0, type |-> "NONE"]

\* addr_is_0x5555 and 0xaaaa, and the values the protocol knows.
Addr5555 == {21845, 54613}
AddrAAAA == 43690
UnlockAA == 170
Unlock55 == 85
MassErase == 16
SectorErase == 48
ResetF0 == 240
CommandValues == {144, 160, 128, 168, 136, 120, 112}
CommandType(v) == CASE v = 144 -> "SW_ID"
                    [] v = 160 -> "BYTE_PROGRAM"
                    [] v = 128 -> "BLOCK_OR_MASS_ERASE"
                    [] v = 168 -> "INFO_BYTE_PROGRAM"
                    [] v = 136 -> "INFO_OR_BMASS_ERASE"
                    [] v = 120 -> "INFO_READ"
                    [] v = 112 -> "POLL_STATUS"

\* A finished program or erase keeps answering with the status until it is
\* reset; pc1000 resets at once.
Finished(f, step) == IF machine = "pc1000" THEN Idle ELSE [f EXCEPT !.step = step]

IsUnlock1(a, v) == a \in Addr5555 /\ v = UnlockAA
IsUnlock2(a, v) == a = AddrAAAA /\ v = Unlock55
IsMassErase(a, v) == a \in Addr5555 /\ v = MassErase

\* Mutant: 0xf0 understood only before a command is selected.
NextFpEarlyReset(f, a, v) ==
    CASE v = ResetF0 /\ f.step < 3 -> Idle
      [] f.step = 0 /\ IsUnlock1(a, v) -> [f EXCEPT !.step = 1]
      [] f.step = 1 /\ IsUnlock2(a, v) -> [f EXCEPT !.step = 2]
      [] f.step = 2 /\ a \in Addr5555 /\ v \in CommandValues ->
           [step |-> 3, type |-> CommandType(v)]
      [] f.step = 3 /\ f.type \in ProgramTypes -> Finished(f, 4)
      [] OTHER -> f

\* Mutant: reset_nor_status clears the type and keeps the step.
NextFpKeepsStep(f, a, v) ==
    CASE f.step = 0 /\ IsUnlock1(a, v) -> [f EXCEPT !.step = 1]
      [] f.step = 1 /\ IsUnlock2(a, v) -> [f EXCEPT !.step = 2]
      [] f.step = 2 /\ a \in Addr5555 /\ v \in CommandValues ->
           [step |-> 3, type |-> CommandType(v)]
      [] f.step = 3 /\ f.type \in ProgramTypes -> Finished(f, 4)
      [] v = ResetF0 /\ ~(f.step = 3 /\ f.type \in ProgramTypes) -> [f EXCEPT !.type = "NONE"]
      [] OTHER -> f

\* fp_step and fp_type after write_nor0(a, v).  A store that does not continue
\* the sequence leaves it where it is; only 0xf0 abandons it.
NextFp(f, a, v) ==
    CASE f.step = 0 /\ IsUnlock1(a, v) -> [f EXCEPT !.step = 1]
      [] f.step = 1 /\ IsUnlock2(a, v) -> [f EXCEPT !.step = 2]
      [] f.step = 2 /\ a \in Addr5555 /\ v \in CommandValues ->
           [step |-> 3, type |-> CommandType(v)]
      [] f.step = 3 /\ f.type \in ProgramTypes -> Finished(f, 4)
      [] f.step = 3 /\ f.type \in EraseTypes /\ IsUnlock1(a, v) -> [f EXCEPT !.step = 4]
      [] f.step = 4 /\ f.type \in EraseTypes /\ IsUnlock2(a, v) -> [f EXCEPT !.step = 5]
      [] f.step = 5 /\ (IsMassErase(a, v) \/ (f.type \in EraseTypes /\ v = SectorErase)) ->
           Finished(f, 6)
      [] v = ResetF0 /\ ~(f.step = 3 /\ f.type \in ProgramTypes) -> Idle
      [] OTHER -> f

\* The array after write_nor0(a, v) in state f.
NextZeros(f, a, v) ==
    CASE f.step = 3 /\ f.type = "BYTE_PROGRAM" -> Programmed(CellAt(a), v)
      [] f.step = 3 /\ f.type = "INFO_BYTE_PROGRAM" -> Programmed(InfoCellAt(a), v)
      [] f.step = 5 /\ IsMassErase(a, v) ->
           zeros \ (BankCells(num_nor_pages(machine)) \cup
                    IF f.type = "INFO_OR_BMASS_ERASE" THEN InfoCells ELSE {})
      [] f.step = 5 /\ ~IsMassErase(a, v) /\ v = SectorErase /\ f.type = "BLOCK_OR_MASS_ERASE" ->
           zeros \ SectorAt(a)
      [] f.step = 5 /\ ~IsMassErase(a, v) /\ v = SectorErase /\ f.type = "INFO_OR_BMASS_ERASE" ->
           zeros \ InfoCells
      [] OTHER -> zeros

\* Where read_nor(a) takes its answer from; "memory" when it declines and Load
\* goes on to the mapped page.  The nc3000 has no identification: an assertion
\* fails, or a build without assertions answers with a value nobody has set.
read_nor(f, a) ==
    CASE ~in_nor_range(a) -> "memory"
      [] in_nor_range(a) /\ f.step = 3 /\ f.type = "INFO_READ" -> "info"
      [] in_nor_range(a) /\ f.step = 3 /\ f.type = "SW_ID" /\ a \in {32768, 32769} ->
           IF a = 32768 /\ machine = "nc3000" THEN "undefined" ELSE "id"
      [] in_nor_range(a) /\ f \in {[step |-> 3, type |-> "POLL_STATUS"],
                                   [step |-> 4, type |-> "BYTE_PROGRAM"],
                                   [step |-> 6, type |-> "BLOCK_OR_MASS_ERASE"]} -> "status"
      [] OTHER -> "memory"
-----------------------------------------------------------------------------
NorInit == /\ MapInit
           /\ fp = Idle
           /\ zeros \in Images

\* Store(a, v) on a NOR page.  With the bank register beyond the NOR banks the
\* store is swallowed, the reset command included.
write_nor(a, v) ==
    /\ in_nor_range(a)
    /\ io.bs < num_nor_pages(machine)
    /\ fp' = NextFp(fp, a, v)
    /\ zeros' = NextZeros(fp, a, v)
    /\ UNCHANGED mapVars

Store == \E w \in Writes : write_nor(w[1], w[2])

SwitchBank == /\ WriteBankSwitch \/ WriteBiosBsw \/ WriteRambVol
              /\ UNCHANGED <<fp, zeros>>

\* warm_reset(): the chip's command state survives it, and the processor then
\* fetches the boot vector through Load.
WarmReset == /\ StateWarmReset
             /\ UNCHANGED <<fp, zeros>>

\* Mutant: a cold reset leaves the NOR's state alone.
ColdResetKeepsFp == /\ StateColdReset
                    /\ UNCHANGED <<fp, zeros>>

\* cold_reset(): nc2k_states.reset() clears fp_step and fp_type as well.
ColdReset == /\ StateColdReset
             /\ fp' = Idle
             /\ UNCHANGED zeros

NorNext == Store \/ SwitchBank \/ WarmReset \/ ColdReset

NorSpec == NorInit /\ [][NorNext]_norVars
-----------------------------------------------------------------------------
(* Properties *)

\* Steps and types are those of the code, and every cell that was ever
\* programmed lies inside the array or the information block.
NorTypeOK == fp \in [step : 0 .. 6, type : Types] /\ zeros \subseteq Cell

\* The assertions of write_nor0 never fire: no command is selected before the
\* third store of the sequence, and only an erase gets to the sixth.  Resets
\* come between any two stores.
NorAssertsHold == /\ fp.step \in 0 .. 2 => fp.type = "NONE"
                  /\ fp.step = 5 => fp.type \in EraseTypes

\* The chip cannot be wedged, although a store, a reset command included, is
\* lost while the bank register names no NOR bank.  Whatever the registers and
\* the window hold, a guest that selects bank 2 sees it in the whole window,
\* and two reset commands stored there bring the chip back to reading the
\* array.  One is enough unless it waits for the data byte of a program
\* command, and that is also the only state in which a reset command changes a
\* cell.
FreeingBank == [io EXCEPT !.bs = 2, !.roa_bbs = 128]
AwaitsData == fp.step = 3 /\ fp.type \in ProgramTypes
ResetRecovers ==
    /\ FreeingBank.bs < num_nor_pages(machine)
    /\ \A p \in 2 .. 5 : Switched(machine, FreeingBank, memmap)[p] = Slice(Nor(2), p % 4)
    /\ \A w \in Writes :
         LET once == NextFp(fp, w[1], ResetF0)
         IN  /\ NextFp(once, w[1], ResetF0) = Idle
             /\ ~AwaitsData => once = Idle /\ NextZeros(fp, w[1], ResetF0) = zeros

\* The chip neither ends the emulator nor gets stuck itself (write_nor0).
NeverStuck == NorAssertsHold /\ ResetRecovers

\* Whatever stores, bank switches and resets are interleaved, the array
\* behaves as a flash chip: single bytes lose bits, whole sectors, the array
\* or the information block get them back.
SectorUnits == {Sector(b, q, off, size) :
                  b \in 0 .. 31, q \in 0 .. 3, off \in Offsets, size \in {2048, 4096}}
MassUnits == {BankCells(count) \cup info : count \in {16, 32}, info \in {InfoCells, {}}}
ByteUnits == {{c} : c \in Cell}
NorEraseUnits == SectorUnits \cup MassUnits \cup {InfoCells}
Flash == INSTANCE FlashArray WITH
           ProgramUnits <- ByteUnits,
           EraseUnits <- NorEraseUnits,
           Overwrite <- FALSE
FlashPromise == Flash!Spec
=============================================================================
