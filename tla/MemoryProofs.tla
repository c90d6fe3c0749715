---------------------------- MODULE MemoryProofs ----------------------------
(***************************************************************************)
(* Proofs about the bank switching and the NOR flash behind it, for any    *)
(* models, register values, stores, file images and observed bit.          *)
(*                                                                         *)
(* The page table holds pages that exist and is a function of the          *)
(* registers.  The assertions of the NOR never fire, it can always be      *)
(* brought back to reading the array, it implements the abstract flash     *)
(* array, it modifies no cell without the unlock sequence of the command   *)
(* concerned and answers no read itself unless a command was selected.     *)
(***************************************************************************)
EXTENDS NorProtocol, TLAPS

(* Bank switching *)


\* A byte's quotients and remainders stay in the ranges the tables expect.
LEMMA ByteBits ==
    ASSUME NEW v \in Byte
    PROVE  /\ v % 2 \in 0 .. 1
           /\ v % 4 \in 0 .. 3
           /\ v % 8 \in 0 .. 7
           /\ v % 16 \in 0 .. 15
BY DEF Byte

\* Slices of a bank of the array bounds are pages.
LEMMA SlicePages ==
    ASSUME NEW n \in 0 .. 3
    PROVE  /\ \A i \in 0 .. 31 : Slice(Nor(i), n) \in Pages
           /\ \A i \in 0 .. 383 : Slice(<<"rom", i>>, n) \in Pages
           /\ Slice(Ext, n) \in Pages
BY DEF Slice, Nor, Ext, Pages

LEMMA RamPages == /\ \A n \in 0 .. 7 : Ram(n) \in Pages
                  /\ RamB \in Pages
BY DEF Ram, RamB, Pages

\* The bank behind the window, whichever model computes it, lies in its array.
LEMMA BankRange ==
    ASSUME NEW m \in AllModels, NEW r \in Registers, NEW n \in 0 .. 3, GetBank(m, r) # Null
    PROVE  Slice(GetBank(m, r), n) \in Pages
<1> DEFINE b == r.bs
           v == r.ramb_vol
<1>1. b \in Byte /\ v \in Byte
  BY DEF Registers
<1> DEFINE k == num_nor_pages(m)
<1>0. k \in {16, 32}
  BY DEF num_nor_pages
<1> HIDE DEF k
<1>2. Volume(r) \in 0 .. 2
  BY <1>1, ByteBits DEF Volume
<1>3. CASE b < k
  <2>2. b \in 0 .. 31 /\ ~(b >= 128)
    BY <1>0, <1>1, <1>3 DEF Byte
  <2>1. GetBank(m, r) = Nor(b)
    BY <1>3, <2>2 DEF GetBank, k
  <2> QED BY <2>1, <2>2, SlicePages
<1>4. CASE ~(b < k) /\ b >= 128 /\ IsNc1020(m)
  <2>1. GetBank(m, r) = <<"rom", 128 * Volume(r) + b - 128>>
    BY <1>4 DEF k, GetBank, RomVolume, IsNc1020
  <2>2. 128 * Volume(r) + b - 128 \in 0 .. 383
    BY <1>1, <1>2, <1>4 DEF Byte
  <2> QED BY <2>1, <2>2, SlicePages
<1>5. CASE ~(b < k) /\ b >= 128 /\ ~IsNc1020(m) /\ m = "nc2000"
  <2>1. GetBank(m, r) = Ext
    BY <1>5 DEF k, GetBank
  <2> QED BY <2>1, SlicePages
<1>6. CASE /\ ~(b < k)
           /\ ~(b >= 128 /\ IsNc1020(m))
           /\ ~(b >= 128 /\ m = "nc2000")
  <2>1. GetBank(m, r) = Null
    BY <1>6 DEF k, GetBank
  <2> QED BY <2>1
<1> QED BY <1>3, <1>4, <1>5, <1>6

LEMMA NcWindowPages ==
    ASSUME NEW m \in AllModels, m \notin {"nc3000", "pc1000"},
           NEW r \in Registers, NEW p \in 2 .. 5, GetBank(m, r) # Null
    PROVE  WindowNc2000(m, r)[p] \in Pages
<1>1. p % 4 \in 0 .. 3
  OBVIOUS
<1>2. Slice(GetBank(m, r), p % 4) \in Pages /\ Slice(Ext, p % 4) \in Pages /\ Ram(2) \in Pages
  BY <1>1, BankRange, SlicePages, RamPages
<1> QED BY <1>2 DEF WindowNc2000

LEMMA Nc3000WindowPages ==
    ASSUME NEW r \in Registers, NEW p \in 2 .. 5, GetBank("nc3000", r) # Null
    PROVE  WindowNc3000(r)[p] \in Pages
<1>1. p % 4 \in 0 .. 3 /\ "nc3000" \in AllModels
  BY DEF AllModels
<1>2. /\ Slice(GetBank("nc3000", r), p % 4) \in Pages
      /\ Slice(Nor(0), p % 4) \in Pages
      /\ Ram(2) \in Pages /\ Ram(3) \in Pages
  BY <1>1, BankRange, SlicePages, RamPages
<1>3. CASE r.bs \in {0, 1} /\ Roa(r)
  <2>1. 4 * r.bs + (p % 4) \in 0 .. 7
    BY <1>1, <1>3
  <2>2. WindowNc3000(r)[p] = Ram(4 * r.bs + (p % 4))
    BY <1>3 DEF WindowNc3000
  <2> QED BY <2>1, <2>2, RamPages
<1>4. CASE r.bs = 0 /\ ~Roa(r)
  <2>1. WindowNc3000(r) = [Straight(Nor(0)) EXCEPT ![2] = Ram(2), ![3] = Ram(3)]
    BY <1>4 DEF WindowNc3000
  <2> QED BY <2>1, <1>2 DEF Straight
<1>5. CASE ~(r.bs \in {0, 1} /\ Roa(r)) /\ ~(r.bs = 0 /\ ~Roa(r))
  <2>1. WindowNc3000(r) = Straight(GetBank("nc3000", r))
    BY <1>5 DEF WindowNc3000
  <2> QED BY <2>1, <1>2 DEF Straight
<1> QED BY <1>3, <1>4, <1>5

LEMMA Pc1000WindowPages ==
    ASSUME NEW r \in Registers, NEW p \in 2 .. 5
    PROVE  WindowPc1000(r)[p] \in Pages
<1>1. /\ p % 4 \in 0 .. 3
      /\ r.bs \in Byte /\ VolBit(r) \in 0 .. 1 /\ r.bs % 16 \in 0 .. 31
  BY ByteBits DEF Registers, VolBit, Byte
<1>2. \E i \in 0 .. 383 : RomVolume("pc1000", VolBit(r), r.bs) = <<"rom", i>>
  <2>1. CASE r.bs < 128
    BY <1>1, <2>1 DEF RomVolume, Byte
  <2>2. CASE ~(r.bs < 128)
    <3>1. 128 * VolBit(r) + r.bs \in 0 .. 383
      BY <1>1 DEF Byte
    <3>2. RomVolume("pc1000", VolBit(r), r.bs) = <<"rom", 128 * VolBit(r) + r.bs>>
      BY <2>2 DEF RomVolume
    <3> QED BY <3>1, <3>2
  <2> QED BY <2>1, <2>2
<1>3. /\ Slice(RomVolume("pc1000", VolBit(r), r.bs), p % 4) \in Pages
      /\ Slice(Nor(r.bs % 16), p % 4) \in Pages
      /\ p < 4 => Slice(Nor(0), p) \in Pages
      /\ Ram(2) \in Pages
  <2>1. Slice(RomVolume("pc1000", VolBit(r), r.bs), p % 4) \in Pages
    BY <1>1, <1>2, SlicePages
  <2>2. Slice(Nor(r.bs % 16), p % 4) \in Pages
    BY <1>1, SlicePages
  <2>3. ASSUME p < 4 PROVE Slice(Nor(0), p) \in Pages
    <3>1. p \in 0 .. 3 /\ 0 \in 0 .. 31
      BY <2>3
    <3> QED BY <3>1, SlicePages
  <2> QED BY <2>1, <2>2, <2>3, RamPages
<1> QED BY <1>3 DEF WindowPc1000

LEMMA BbsPages ==
    ASSUME NEW m \in AllModels, NEW r \in Registers
    PROVE  /\ BbsPage(m, r, 1) \in Pages
           /\ BbsBios6(m, r) \in Pages
           /\ Switch0x2000(m, r) \in Pages
<1>1. VolBit(r) \in 0 .. 1 /\ Bbs(r) \in 0 .. 15
  BY ByteBits DEF Registers, VolBit, Bbs, Byte
<1>2. ASSUME NEW p \in 0 .. 15 PROVE BbsPage(m, r, p) \in Pages
  <2>1. (p + 2) % 4 \in 0 .. 3 /\ p \div 4 \in 0 .. 3
    OBVIOUS
  <2>2. CASE m = "pc1000"
    <3>1. RomVolume(m, VolBit(r), p \div 4) = <<"rom", p \div 4>>
      BY <2>1, <2>2 DEF RomVolume
    <3>2. Slice(<<"rom", p \div 4>>, (p + 2) % 4) \in Pages
      <4>1. p \div 4 \in 0 .. 383
        BY <2>1
      <4> QED BY <2>1, <4>1, SlicePages
    <3> QED BY <2>2, <3>1, <3>2 DEF BbsPage
  <2>3. CASE m # "pc1000"
    <3>1. Slice(Nor(p \div 4), (p + 2) % 4) \in Pages
      <4>1. p \div 4 \in 0 .. 31
        BY <2>1
      <4> QED BY <2>1, <4>1, SlicePages
    <3> QED BY <2>3, <3>1 DEF BbsPage
  <2> QED BY <2>2, <2>3
<1>3. Ram(1) \in Pages /\ Ram(2) \in Pages /\ Ram(3) \in Pages /\ RamB \in Pages
      /\ Slice(Nor(0), 3) \in Pages
  BY SlicePages, RamPages
<1>4. BbsBios6(m, r) \in Pages
  BY <1>1, <1>2, <1>3 DEF BbsBios6, AllModels, IsNc1020
<1> QED BY <1>2, <1>3, <1>4 DEF Switch0x2000

\* super_switch() turns a table of pages into a table of pages.
LEMMA SwitchedType ==
    ASSUME NEW m \in AllModels, NEW r \in Registers, NEW old \in [0 .. 7 -> Pages]
    PROVE  Switched(m, r, old) \in [0 .. 7 -> Pages]
<1>1. ASSUME NEW p \in 2 .. 5 PROVE SwitchBank_2345(m, r, old)[p] \in Pages
  <2>1. CASE ~BankExists(m, r)
    BY <1>1, <2>1 DEF SwitchBank_2345
  <2>2. CASE BankExists(m, r) /\ m = "pc1000"
    BY <1>1, <2>2, Pc1000WindowPages DEF SwitchBank_2345
  <2>3. CASE BankExists(m, r) /\ m = "nc3000"
    BY <1>1, <2>3, Nc3000WindowPages DEF SwitchBank_2345, BankExists
  <2>4. CASE BankExists(m, r) /\ m \notin {"pc1000", "nc3000"}
    BY <1>1, <2>4, NcWindowPages DEF SwitchBank_2345, BankExists
  <2> QED BY <2>1, <2>2, <2>3, <2>4
<1>2. ASSUME NEW p \in 0 .. 7 PROVE Switched(m, r, old)[p] \in Pages
  <2>1. p \in {0, 1, 6, 7} \/ p \in 2 .. 5
    OBVIOUS
  <2> QED BY <1>1, <2>1, BbsPages DEF Switched
<1> QED BY <1>2 DEF Switched
\* What a started m shows: the zeroed registers leave no page NULL.
LEMMA PowerOnType ==
    ASSUME NEW m \in AllModels
    PROVE  PowerOnMap(m) \in [0 .. 7 -> Pages] /\ NoRegisters \in Registers
<1>1. NoRegisters \in Registers
  BY DEF NoRegisters, Registers, Byte
<1>2. Switched(m, NoRegisters, Unmapped) = Switched(m, NoRegisters, [p \in 0 .. 7 |-> Ram(0)])
  <2>1. BankExists(m, NoRegisters)
    BY DEF BankExists, GetBank, num_nor_pages, NoRegisters, Nor, Null
  <2>2. Unmapped[0] = Ram(0)
    BY DEF Unmapped
  <2>3. SwitchBank_2345(m, NoRegisters, Unmapped)
        = SwitchBank_2345(m, NoRegisters, [p \in 0 .. 7 |-> Ram(0)])
    BY <2>1 DEF SwitchBank_2345
  <2> QED BY <2>2, <2>3 DEF Switched
<1>3. [p \in 0 .. 7 |-> Ram(0)] \in [0 .. 7 -> Pages]
  BY RamPages
<1> QED BY <1>1, <1>2, <1>3, SwitchedType DEF PowerOnMap

LEMMA ZP40Range == ASSUME NEW r \in Registers PROVE ZP40(r) \in 0 .. 704
<1>1. r.zp % 8 \in 0 .. 7
  BY ByteBits DEF Registers
<1> QED BY <1>1 DEF ZP40

\* One super_switch() after any change of the registers.
LEMMA SwitchKeepsType ==
    ASSUME machine \in AllModels, NEW r \in Registers, memmap \in [0 .. 7 -> Pages],
           super_switch(r)
    PROVE  memmap' \in [0 .. 7 -> Pages] /\ ram_40' \in 0 .. 704
BY SwitchedType, ZP40Range DEF super_switch

\* The page pointers stay inside the emulator's arrays: of all the code's
\* mapping rules none yields a page of a bank that GetBank refuses.
THEOREM MapTypeCorrect == MapSpec => []MapTypeOK
<1>1. MapInit => MapTypeOK
  <2> SUFFICES ASSUME MapInit PROVE MapTypeOK
    OBVIOUS
  <2>1. machine \in AllModels
    BY ModelsAssumption DEF MapInit
  <2> QED BY <2>1, PowerOnType, ZP40Range DEF MapInit, MapTypeOK
<1>2. MapTypeOK /\ [MapNext]_mapVars => MapTypeOK'
  <2> SUFFICES ASSUME MapTypeOK, [MapNext]_mapVars PROVE MapTypeOK'
    OBVIOUS
  <2> USE DEF MapTypeOK
  <2>0. machine \in AllModels
    BY ModelsAssumption
  <2>1. ASSUME NEW f \in {"bs", "roa_bbs", "ramb_vol", "zp"}, NEW v \in Byte,
               WriteRegister(f, v)
        PROVE  MapTypeOK'
    <3>1. io' \in Registers
      BY <2>1 DEF WriteRegister, Registers
    <3> QED BY <2>0, <2>1, <3>1, SwitchKeepsType DEF WriteRegister
  <2>2. CASE WriteBankSwitch
    BY <2>1, <2>2, RegisterAssumption DEF WriteBankSwitch
  <2>3. CASE WriteBiosBsw
    BY <2>1, <2>3, RegisterAssumption DEF WriteBiosBsw
  <2>4. CASE WriteRambVol
    BY <2>1, <2>4, RegisterAssumption DEF WriteRambVol
  <2>5. CASE WriteZp40
    BY <2>1, <2>5, RegisterAssumption DEF WriteZp40
  <2>6. CASE StateWarmReset
    BY <2>0, <2>6, SwitchKeepsType DEF StateWarmReset
  <2>7. CASE StateColdReset
    BY <2>0, <2>7, SwitchedType, ZP40Range, PowerOnType DEF StateColdReset
  <2>8. CASE Wqxhex
    <3>1. 128 \in Byte
      BY DEF Byte
    <3>2. io' = [io EXCEPT !.bs = 128, !.roa_bbs = 128]
      BY <2>8 DEF Wqxhex
    <3>3. io' \in Registers
      BY <3>1, <3>2 DEF Registers
    <3> QED BY <2>0, <2>8, <3>3, SwitchKeepsType DEF Wqxhex
  <2>9. CASE SaveState
    BY <2>9 DEF SaveState
  <2>10. ASSUME NEW load \in BOOLEAN, Restart(load) PROVE MapTypeOK'
    <3>1. PICK r \in IF load /\ saved # {} THEN saved ELSE {NoRegisters} :
             /\ io' = r
             /\ memmap' = Switched(machine, r, PowerOnMap(machine))
             /\ ram_40' = ZP40(r)
             /\ UNCHANGED <<machine, saved, shown>>
      BY <2>10 DEF Restart
    <3>2. r \in Registers
      BY <3>1, PowerOnType, <2>0
    <3> QED BY <2>0, <3>1, <3>2, SwitchedType, ZP40Range, PowerOnType
  <2>11. CASE UNCHANGED mapVars
    BY <2>11 DEF mapVars
  <2> QED
    BY <2>2, <2>3, <2>4, <2>5, <2>6, <2>7, <2>8, <2>9, <2>10, <2>11 DEF MapNext
<1> QED BY <1>1, <1>2, PTL DEF MapSpec

\* The switch code overwrites everything it is responsible for: two tables
\* that agree on page 0 agree after it, up to the window of a missing bank.
LEMMA SwitchForgets ==
    ASSUME NEW m, NEW r, NEW old, NEW new, old[0] = new[0]
    PROVE  /\ BankExists(m, r) => Switched(m, r, old) = Switched(m, r, new)
           /\ \A p \in {0, 1, 6, 7} : Switched(m, r, old)[p] = Switched(m, r, new)[p]
           /\ Switched(m, r, old)[0] = old[0]
<1>1. BankExists(m, r) => SwitchBank_2345(m, r, old) = SwitchBank_2345(m, r, new)
  BY DEF SwitchBank_2345
<1>2. BankExists(m, r) => Switched(m, r, old) = Switched(m, r, new)
  BY <1>1 DEF Switched
<1>3. ASSUME NEW p \in {0, 1, 6, 7}
      PROVE  Switched(m, r, old)[p] = Switched(m, r, new)[p]
  BY <1>3 DEF Switched
<1>4. Switched(m, r, old)[0] = old[0]
  BY DEF Switched
<1> QED BY <1>2, <1>3, <1>4

\* MapCoherent after one super_switch() of a coherent table.
LEMMA SwitchIsCoherent ==
    ASSUME NEW m, NEW r, NEW old, old[0] = Unmapped[0]
    PROVE  /\ BankExists(m, r) => Switched(m, r, old) = Switched(m, r, PowerOnMap(m))
           /\ \A p \in {0, 1, 6, 7} :
                Switched(m, r, old)[p] = Switched(m, r, PowerOnMap(m))[p]
           /\ Switched(m, r, old)[0] = Unmapped[0]
<1>1. PowerOnMap(m)[0] = Unmapped[0]
  BY SwitchForgets DEF PowerOnMap
<1> QED BY <1>1, SwitchForgets

\* The map is a function of the four registers, whatever sequence of writes,
\* resets, saves and restarts led to them; the exception is the window while
\* its bank does not exist.
THEOREM MapAlwaysCoherent == MapSpec => []MapCoherent
<1> DEFINE Inv == MapCoherent /\ memmap[0] = Unmapped[0]
<1>1. MapInit => Inv
  <2> SUFFICES ASSUME MapInit PROVE Inv
    OBVIOUS
  <2>1. memmap = Switched(machine, NoRegisters, Unmapped) /\ io = NoRegisters
    BY DEF MapInit, PowerOnMap
  <2>2. ram_40 = ZP40(io)
    BY DEF MapInit
  <2> QED BY <2>1, <2>2, SwitchIsCoherent DEF MapCoherent
<1>2. Inv /\ [MapNext]_mapVars => Inv'
  <2> SUFFICES ASSUME Inv, [MapNext]_mapVars PROVE Inv'
    OBVIOUS
  <2>1. ASSUME NEW old, old[0] = Unmapped[0], machine' = machine,
               memmap' = Switched(machine, io', old), ram_40' = ZP40(io')
        PROVE  Inv'
    BY <2>1, SwitchIsCoherent DEF MapCoherent
  <2>2. ASSUME super_switch(io'), machine' = machine PROVE Inv'
    BY <2>1, <2>2 DEF super_switch
  <2>3. CASE WriteBankSwitch
    BY <2>2, <2>3 DEF WriteBankSwitch, WriteRegister
  <2>4. CASE WriteBiosBsw
    BY <2>2, <2>4 DEF WriteBiosBsw, WriteRegister
  <2>5. CASE WriteRambVol
    BY <2>2, <2>5 DEF WriteRambVol, WriteRegister
  <2>6. CASE WriteZp40
    BY <2>2, <2>6 DEF WriteZp40, WriteRegister
  <2>7. CASE StateWarmReset
    BY <2>2, <2>7 DEF StateWarmReset
  <2>8. CASE StateColdReset
    <3>1. Switched(machine, io, memmap)[0] = Unmapped[0]
      BY SwitchForgets
    <3> QED BY <2>1, <2>8, <3>1 DEF StateColdReset
  <2>9. CASE Wqxhex
    BY <2>2, <2>9 DEF Wqxhex
  <2>10. CASE SaveState
    BY <2>10 DEF SaveState, MapCoherent
  <2>11. ASSUME NEW load \in BOOLEAN, Restart(load) PROVE Inv'
    <3>1. PowerOnMap(machine)[0] = Unmapped[0]
      BY SwitchForgets DEF PowerOnMap
    <3> QED BY <2>1, <2>11, <3>1 DEF Restart
  <2>12. CASE UNCHANGED mapVars
    BY <2>12 DEF mapVars, MapCoherent
  <2> QED
    BY <2>3, <2>4, <2>5, <2>6, <2>7, <2>8, <2>9, <2>10, <2>11, <2>12 DEF MapNext
<1>3. Inv => MapCoherent
  OBVIOUS
<1> QED BY <1>1, <1>2, <1>3, PTL DEF MapSpec

\* No pointer of a table may be NULL or name a NOR bank that init_nor has not
\* filled in.
Usable(m, page) == page[1] # "null" /\ (page[1] = "nor" => page[2] < num_nor_pages(m))

LEMMA UsableSlices ==
    ASSUME NEW m, NEW n
    PROVE  /\ \A i \in Int : i < num_nor_pages(m) => Usable(m, Slice(Nor(i), n))
           /\ \A i : Usable(m, Slice(<<"rom", i>>, n))
           /\ Usable(m, Slice(Ext, n)) /\ Usable(m, Ram(n)) /\ Usable(m, RamB)
BY DEF Usable, Slice, Nor, Ext, Ram, RamB

LEMMA NorPages == ASSUME NEW m PROVE num_nor_pages(m) \in {16, 32}
BY DEF num_nor_pages

LEMMA RomVolumeIsRom == ASSUME NEW m, NEW v, NEW b PROVE \E i : RomVolume(m, v, b) = <<"rom", i>>
<1> DEFINE i == IF m = "pc1000" THEN IF b < 128 THEN b ELSE 128 * v + b ELSE 128 * v + b - 128
<1>1. RomVolume(m, v, b) = <<"rom", i>>
  BY DEF RomVolume
<1> QED BY <1>1

\* GetBank() answers NULL exactly for the banks that do not exist.
LEMMA BankUsable ==
    ASSUME NEW m, NEW r \in Registers, NEW n, GetBank(m, r) # Null
    PROVE  Usable(m, Slice(GetBank(m, r), n))
<1>1. r.bs \in Int /\ num_nor_pages(m) \in {16, 32}
  BY NorPages DEF Registers, Byte
<1>2. CASE r.bs < num_nor_pages(m)
  <2>1. ~(r.bs >= 128)
    BY <1>1, <1>2
  <2>2. GetBank(m, r) = Nor(r.bs)
    BY <1>2, <2>1 DEF GetBank
  <2> QED BY <1>1, <1>2, <2>2, UsableSlices
<1>3. CASE ~(r.bs < num_nor_pages(m)) /\ r.bs >= 128 /\ IsNc1020(m)
  <2>1. GetBank(m, r) = RomVolume(m, Volume(r), r.bs)
    BY <1>3 DEF GetBank, IsNc1020
  <2> QED BY <2>1, RomVolumeIsRom, UsableSlices
<1>4. CASE ~(r.bs < num_nor_pages(m)) /\ r.bs >= 128 /\ ~IsNc1020(m) /\ m = "nc2000"
  <2>1. GetBank(m, r) = Ext
    BY <1>4 DEF GetBank
  <2> QED BY <2>1, UsableSlices
<1>5. CASE /\ ~(r.bs < num_nor_pages(m))
           /\ ~(r.bs >= 128 /\ IsNc1020(m)) /\ ~(r.bs >= 128 /\ m = "nc2000")
  BY <1>5 DEF GetBank
<1> QED BY <1>2, <1>3, <1>4, <1>5

LEMMA WindowUsable ==
    ASSUME NEW m \in AllModels, NEW r \in Registers, NEW old, NEW p \in 2 .. 5,
           Usable(m, old[p])
    PROVE  Usable(m, SwitchBank_2345(m, r, old)[p])
<1>1. \A n : /\ Usable(m, Slice(Nor(0), n)) /\ Usable(m, Slice(Nor(r.bs % 16), n))
             /\ Usable(m, Slice(Ext, n)) /\ Usable(m, Ram(n))
             /\ Usable(m, Slice(RomVolume("pc1000", VolBit(r), r.bs), n))
  <2>1. r.bs % 16 \in 0 .. 15
    BY ByteBits DEF Registers
  <2>2. 0 < num_nor_pages(m) /\ r.bs % 16 < num_nor_pages(m)
    BY <2>1, NorPages
  <2>3. PICK i : RomVolume("pc1000", VolBit(r), r.bs) = <<"rom", i>>
    BY RomVolumeIsRom
  <2> QED BY <2>1, <2>2, <2>3, UsableSlices
<1>2. CASE ~BankExists(m, r)
  BY <1>2 DEF SwitchBank_2345
<1>3. CASE BankExists(m, r) /\ m = "pc1000"
  <2>1. Usable(m, WindowPc1000(r)[p])
    BY <1>1 DEF WindowPc1000
  <2> QED BY <1>3, <2>1 DEF SwitchBank_2345
<1>4. CASE BankExists(m, r) /\ m = "nc3000"
  <2>1. Usable(m, Slice(GetBank("nc3000", r), p % 4))
    BY <1>4, BankUsable DEF BankExists
  <2>2. Usable(m, WindowNc3000(r)[p])
    <3>1. CASE r.bs \in {0, 1} /\ Roa(r)
      BY <1>1, <3>1 DEF WindowNc3000
    <3>2. CASE r.bs = 0 /\ ~Roa(r)
      <4>1. WindowNc3000(r) = [Straight(Nor(0)) EXCEPT ![2] = Ram(2), ![3] = Ram(3)]
        BY <3>2 DEF WindowNc3000
      <4> QED BY <1>1, <4>1 DEF Straight
    <3>3. CASE ~(r.bs \in {0, 1} /\ Roa(r)) /\ ~(r.bs = 0 /\ ~Roa(r))
      <4>1. WindowNc3000(r) = Straight(GetBank("nc3000", r))
        BY <3>3 DEF WindowNc3000
      <4> QED BY <2>1, <4>1 DEF Straight
    <3> QED BY <3>1, <3>2, <3>3
  <2> QED BY <1>4, <2>2 DEF SwitchBank_2345
<1>5. CASE BankExists(m, r) /\ m \notin {"pc1000", "nc3000"}
  <2>1. Usable(m, Slice(GetBank(m, r), p % 4))
    BY <1>5, BankUsable DEF BankExists
  <2>2. Usable(m, WindowNc2000(m, r)[p])
    BY <1>1, <2>1 DEF WindowNc2000
  <2> QED BY <1>5, <2>2 DEF SwitchBank_2345
<1> QED BY <1>2, <1>3, <1>4, <1>5

LEMMA UpperUsable ==
    ASSUME NEW m \in AllModels, NEW r \in Registers
    PROVE  Usable(m, BbsPage(m, r, 1)) /\ Usable(m, BbsBios6(m, r))
<1>1. Bbs(r) \in 0 .. 15
  BY ByteBits DEF Registers, Bbs
<1>2. ASSUME NEW p \in 0 .. 15 PROVE Usable(m, BbsPage(m, r, p))
  <2>1. p \div 4 \in 0 .. 3 /\ p \div 4 < num_nor_pages(m)
    BY NorPages
  <2>2. Usable(m, Slice(Nor(p \div 4), (p + 2) % 4))
    <3> DEFINE k == p \div 4
               n == (p + 2) % 4
    <3>1. k \in Int /\ k < num_nor_pages(m)
      BY <2>1
    <3> HIDE DEF k, n
    <3>2. Usable(m, Slice(Nor(k), n))
      BY <3>1, UsableSlices
    <3> QED BY <3>2 DEF k, n
  <2>3. PICK i : RomVolume(m, VolBit(r), p \div 4) = <<"rom", i>>
    BY RomVolumeIsRom
  <2> QED BY <2>2, <2>3, UsableSlices DEF BbsPage
<1>3. /\ Usable(m, Ram(2)) /\ Usable(m, Ram(3)) /\ Usable(m, Slice(Nor(0), 3))
  <2>1. 0 < num_nor_pages(m)
    BY NorPages
  <2> QED BY <2>1, UsableSlices
<1>4. Usable(m, BbsPage(m, r, 1))
  BY <1>2
<1>5. CASE Bbs(r) # 1
  BY <1>1, <1>2, <1>5 DEF BbsBios6
<1>6. CASE Bbs(r) = 1
  <2>1. CASE m = "pc1000"
    <3>1. BbsBios6(m, r) = IF VolBit(r) = 1 THEN Slice(Nor(0), 3) ELSE Ram(2)
      BY <1>6, <2>1 DEF BbsBios6, IsNc1020
    <3> QED BY <1>3, <1>4, <3>1
  <2>2. CASE m = "nc3000"
    <3>1. BbsBios6(m, r) = Ram(3)
      BY <1>6, <2>2 DEF BbsBios6, IsNc1020
    <3> QED BY <1>3, <1>4, <3>1
  <2>3. CASE IsNc1020(m) \/ m = "nc2000"
    <3>1. BbsBios6(m, r) = Ram(2)
      BY <1>6, <2>3 DEF BbsBios6, IsNc1020
    <3> QED BY <1>3, <1>4, <3>1
  <2> QED BY <2>1, <2>2, <2>3 DEF AllModels, IsNc1020
<1> QED BY <1>2, <1>5, <1>6

\* PagesSound is what super_switch() makes of a table with a sound window, and
\* of any table if the bank exists.
Sound(m, map) ==
    /\ \A p \in 0 .. 7 : Usable(m, map[p])
    /\ \A p \in 0 .. 1 : map[p][1] \in {"ram", "ram_b"}

LEMMA SwitchedSound ==
    ASSUME NEW m \in AllModels, NEW r \in Registers, NEW old,
           old[0] = Ram(0), \A p \in 2 .. 5 : Usable(m, old[p])
    PROVE  Sound(m, Switched(m, r, old)) /\ Switched(m, r, old)[0] = Ram(0)
<1> DEFINE new == Switched(m, r, old)
<1>1. new[0] = Ram(0) /\ new[1] = Switch0x2000(m, r) /\ new[6] = BbsBios6(m, r)
      /\ new[7] = BbsPage(m, r, 1)
  BY DEF Switched
<1>2. \A p \in 2 .. 5 : Usable(m, new[p])
  <2>1. \A p \in 2 .. 5 : new[p] = SwitchBank_2345(m, r, old)[p]
    BY DEF Switched
  <2> QED BY <2>1, WindowUsable
<1>3. /\ Usable(m, new[0]) /\ Usable(m, new[1])
      /\ new[0][1] = "ram" /\ new[1][1] \in {"ram", "ram_b"}
  <2>1. new[0] = Ram(0) /\ new[1] \in {Ram(1), RamB}
    BY <1>1 DEF Switch0x2000
  <2>2. Ram(0)[1] = "ram" /\ Ram(1)[1] = "ram" /\ RamB[1] = "ram_b"
    BY DEF Ram, RamB
  <2> HIDE DEF new
  <2> QED BY <2>1, <2>2, UsableSlices
<1>4. \A p \in 0 .. 7 : p \in 2 .. 5 \/ p \in {0, 1, 6, 7}
  OBVIOUS
<1> HIDE DEF new
<1>5. Usable(m, new[6]) /\ Usable(m, new[7])
  BY <1>1, UpperUsable
<1> QED BY <1>1, <1>2, <1>3, <1>4, <1>5 DEF Sound, new

\* The first switch of a process finds NULL pointers, and bank 0.
LEMMA PowerOnSound ==
    ASSUME NEW m \in AllModels
    PROVE  Sound(m, PowerOnMap(m)) /\ PowerOnMap(m)[0] = Ram(0)
<1> DEFINE full == [p \in 0 .. 7 |-> Ram(0)]
<1>1. NoRegisters \in Registers
  BY PowerOnType
<1>2. BankExists(m, NoRegisters)
  BY DEF BankExists, GetBank, num_nor_pages, NoRegisters, Nor, Null
<1>3. Switched(m, NoRegisters, Unmapped) = Switched(m, NoRegisters, full)
  <2>1. Unmapped[0] = full[0]
    BY DEF Unmapped
  <2> QED BY <1>2, <2>1, SwitchForgets
<1>4. full[0] = Ram(0) /\ \A p \in 2 .. 5 : Usable(m, full[p])
  BY UsableSlices
<1> HIDE DEF full
<1>5. Sound(m, Switched(m, NoRegisters, full)) /\ Switched(m, NoRegisters, full)[0] = Ram(0)
  BY <1>1, <1>4, SwitchedSound
<1> QED BY <1>3, <1>5 DEF PowerOnMap

LEMMA SoundIs == Sound(machine, memmap) <=> PagesSound
BY DEF Sound, Usable, PagesSound, PagesExist, LowPagesAreRam

\* Load() and Store() dereference page pointers and write below 0x4000 without
\* a check: whatever the guest writes to the registers, and whatever is saved
\* and loaded, no pointer is NULL, none leads into a NOR bank that is not
\* there, and the low pages are RAM.
THEOREM PagesAlwaysSound == MapSpec => []PagesSound
<1> DEFINE Inv == Sound(machine, memmap) /\ memmap[0] = Ram(0)
<1>1. MapInit => Inv
  BY PowerOnSound, ModelsAssumption DEF MapInit
<1>2. MapTypeOK /\ Inv /\ [MapNext]_mapVars => Inv'
  <2> SUFFICES ASSUME MapTypeOK, Inv, [MapNext]_mapVars PROVE Inv'
    OBVIOUS
  <2>0. machine \in AllModels /\ io \in Registers /\ saved \subseteq Registers
    BY ModelsAssumption DEF MapTypeOK
  <2>1. ASSUME NEW r \in Registers, NEW old, Sound(machine, old), old[0] = Ram(0),
               machine' = machine, memmap' = Switched(machine, r, old)
        PROVE  Inv'
    <3>1. \A p \in 2 .. 5 : Usable(machine, old[p])
      BY <2>1 DEF Sound
    <3> QED BY <2>0, <2>1, <3>1, SwitchedSound
  <2>2. ASSUME NEW f \in {"bs", "roa_bbs", "ramb_vol", "zp"}, NEW v \in Byte,
               WriteRegister(f, v)
        PROVE  Inv'
    <3>1. io' \in Registers
      BY <2>0, <2>2 DEF WriteRegister, Registers
    <3> QED BY <2>1, <2>2, <3>1 DEF WriteRegister, super_switch
  <2>3. CASE WriteBankSwitch \/ WriteBiosBsw \/ WriteRambVol \/ WriteZp40
    BY <2>2, <2>3, RegisterAssumption
       DEF WriteBankSwitch, WriteBiosBsw, WriteRambVol, WriteZp40
  <2>4. CASE StateWarmReset
    BY <2>0, <2>1, <2>4 DEF StateWarmReset, super_switch
  <2>5. CASE StateColdReset
    <3> DEFINE warm == Switched(machine, io, memmap)
    <3>1. Sound(machine, warm) /\ warm[0] = Ram(0)
      <4>1. \A p \in 2 .. 5 : Usable(machine, memmap[p])
        BY DEF Sound
      <4> QED BY <2>0, <4>1, SwitchedSound
    <3> HIDE DEF warm
    <3>2. memmap' = Switched(machine, NoRegisters, warm) /\ machine' = machine
      BY <2>5 DEF StateColdReset, warm
    <3>3. NoRegisters \in Registers
      BY <2>0, PowerOnType
    <3> QED BY <2>1, <3>1, <3>2, <3>3
  <2>6. CASE Wqxhex
    <3>1. 128 \in Byte
      BY DEF Byte
    <3>2. io' = [io EXCEPT !.bs = 128, !.roa_bbs = 128]
      BY <2>6 DEF Wqxhex
    <3>3. io' \in Registers
      BY <2>0, <3>1, <3>2 DEF Registers
    <3> QED BY <2>1, <2>6, <3>3 DEF Wqxhex, super_switch
  <2>7. CASE SaveState \/ UNCHANGED mapVars
    BY <2>7 DEF SaveState, mapVars
  <2>8. ASSUME NEW load \in BOOLEAN, Restart(load) PROVE Inv'
    <3>1. PICK r \in IF load /\ saved # {} THEN saved ELSE {NoRegisters} :
             memmap' = Switched(machine, r, PowerOnMap(machine)) /\ machine' = machine
      BY <2>8 DEF Restart
    <3>2. r \in Registers
      BY <2>0, <3>1, PowerOnType
    <3> QED BY <2>0, <2>1, <3>1, <3>2, PowerOnSound
  <2> QED BY <2>3, <2>4, <2>5, <2>6, <2>7, <2>8 DEF MapNext
<1>3. Inv => PagesSound
  BY SoundIs
<1> QED BY <1>1, <1>2, <1>3, MapTypeCorrect, PTL DEF MapSpec

\* What a state file and the table that was shown with it have in common: they
\* agree but for a window that waited for its bank.
SavedAsShown ==
    /\ \A r, q \in saved : r = q
    /\ \A r \in saved :
         /\ shown[2] = ZP40(r)
         /\ \A p \in 0 .. 7 :
              BankExists(machine, r) \/ p \notin 2 .. 5 =>
                shown[1][p] = Switched(machine, r, PowerOnMap(machine))[p]

LEMMA SavedMapShown == MapSpec => []SavedAsShown
<1>1. MapInit => SavedAsShown
  BY DEF MapInit, SavedAsShown
<1>2. MapCoherent /\ SavedAsShown /\ [MapNext]_mapVars => SavedAsShown'
  <2> SUFFICES ASSUME MapCoherent, SavedAsShown, [MapNext]_mapVars PROVE SavedAsShown'
    OBVIOUS
  <2>1. CASE SaveState
    <3>1. saved' = {io} /\ shown' = <<memmap, ram_40>> /\ machine' = machine
      BY <2>1 DEF SaveState
    <3>2. /\ ram_40 = ZP40(io)
          /\ \A p \in 0 .. 7 :
               BankExists(machine, io) \/ p \notin 2 .. 5 =>
                 memmap[p] = Switched(machine, io, PowerOnMap(machine))[p]
      BY DEF MapCoherent
    <3> QED BY <3>1, <3>2 DEF SavedAsShown
  <2>2. CASE UNCHANGED <<machine, saved, shown>>
    BY <2>2 DEF SavedAsShown
  <2> QED
    BY <2>1, <2>2
    DEF MapNext, mapVars, WriteBankSwitch, WriteBiosBsw, WriteRambVol, WriteZp40, WriteRegister,
        StateWarmReset, StateColdReset, Wqxhex, Restart
<1> QED BY <1>1, <1>2, MapAlwaysCoherent, PTL DEF MapSpec

\* A state that is loaded brings the saved map back, whatever was mapped in
\* between: LoadNC2k() switches from the map of a machine that was just turned
\* on, which shows in the window if the saved one waited for its bank.
THEOREM RestoreBringsMapBack == MapSpec => RestoreSameMap
<1> DEFINE Same(load, r) ==
             Restart(load) /\ load =>
               /\ ram_40' = shown[2]
               /\ \A p \in 0 .. 7 :
                    memmap'[p] = IF p \in 2 .. 5 /\ ~BankExists(machine, r)
                                   THEN PowerOnMap(machine)[p]
                                   ELSE shown[1][p]
<1>1. SavedAsShown /\ [MapNext]_mapVars =>
        [\A load \in BOOLEAN, r \in saved : Same(load, r)]_mapVars
  <2> SUFFICES ASSUME SavedAsShown, NEW load \in BOOLEAN, NEW r \in saved, Restart(load), load
               PROVE  /\ ram_40' = shown[2]
                      /\ \A p \in 0 .. 7 :
                           memmap'[p] = IF p \in 2 .. 5 /\ ~BankExists(machine, r)
                                          THEN PowerOnMap(machine)[p]
                                          ELSE shown[1][p]
    OBVIOUS
  <2>1. memmap' = Switched(machine, r, PowerOnMap(machine)) /\ ram_40' = ZP40(r)
    <3>1. PICK q \in saved : /\ memmap' = Switched(machine, q, PowerOnMap(machine))
                             /\ ram_40' = ZP40(q)
      BY DEF Restart
    <3>2. q = r
      BY DEF SavedAsShown
    <3> QED BY <3>1, <3>2
  <2>2. ram_40' = shown[2]
    BY <2>1 DEF SavedAsShown
  <2>3. ASSUME NEW p \in 0 .. 7
        PROVE  memmap'[p] = IF p \in 2 .. 5 /\ ~BankExists(machine, r)
                              THEN PowerOnMap(machine)[p]
                              ELSE shown[1][p]
    <3>1. CASE p \in 2 .. 5 /\ ~BankExists(machine, r)
      <4>1. memmap'[p] = SwitchBank_2345(machine, r, PowerOnMap(machine))[p]
        BY <2>1, <3>1 DEF Switched
      <4> QED BY <3>1, <4>1 DEF SwitchBank_2345
    <3>2. CASE ~(p \in 2 .. 5 /\ ~BankExists(machine, r))
      BY <2>1, <3>2 DEF SavedAsShown
    <3> QED BY <3>1, <3>2
  <2> QED BY <2>2, <2>3
<1> QED BY <1>1, SavedMapShown, PTL DEF MapSpec, RestoreSameMap

-----------------------------------------------------------------------------
(* The NOR flash *)

\* The NOR's guest drives the bank switching as any guest does.
THEOREM NorDrivesMap == NorSpec => MapSpec
<1>1. NorInit => MapInit
  BY DEF NorInit
<1>2. [NorNext]_norVars => [MapNext]_mapVars
  BY DEF NorNext, norVars, Store, write_nor, SwitchBank, WarmReset, ColdReset, MapNext
<1> QED BY <1>1, <1>2, PTL DEF NorSpec, MapSpec

-----------------------------------------------------------------------------
(* The command state machine *)

\* The inductive strengthening of NorAssertsHold: which commands can be in
\* progress at which step.
StepMatchesType(f) ==
    /\ f \in [step : 0 .. 6, type : Types]
    /\ f.step \in 0 .. 2 => f.type = "NONE"
    /\ f.step = 3 => f.type # "NONE"
    /\ f.step = 4 => f.type \in ProgramTypes \cup EraseTypes
    /\ f.step \in 5 .. 6 => f.type \in EraseTypes

LEMMA IdleMatches == StepMatchesType(Idle)
BY DEF StepMatchesType, Idle, Types

LEMMA CommandTypes ==
    ASSUME NEW v \in CommandValues PROVE CommandType(v) \in Types \ {"NONE"}
BY DEF CommandValues, CommandType, Types

LEMMA FinishedMatches ==
    ASSUME NEW f, StepMatchesType(f), NEW step \in {4, 6},
           step = 4 => f.type \in ProgramTypes, step = 6 => f.type \in EraseTypes
    PROVE  StepMatchesType(Finished(f, step))
BY IdleMatches DEF StepMatchesType, Finished

LEMMA NextFpMatches ==
    ASSUME NEW f, StepMatchesType(f), NEW a, NEW v
    PROVE  StepMatchesType(NextFp(f, a, v))
<1> USE DEF NextFp
<1>1. CASE f.step = 0
  BY <1>1, IdleMatches DEF StepMatchesType, ProgramTypes
<1>2. CASE f.step = 1
  BY <1>2, IdleMatches DEF StepMatchesType
<1>3. CASE f.step = 2
  BY <1>3, IdleMatches, CommandTypes DEF StepMatchesType
<1>4. CASE f.step = 3
  BY <1>4, IdleMatches, FinishedMatches DEF StepMatchesType
<1>5. CASE f.step = 4
  BY <1>5, IdleMatches DEF StepMatchesType
<1>6. CASE f.step = 5
  BY <1>6, IdleMatches, FinishedMatches DEF StepMatchesType
<1>7. CASE f.step = 6
  BY <1>7, IdleMatches DEF StepMatchesType
<1> QED BY <1>1, <1>2, <1>3, <1>4, <1>5, <1>6, <1>7 DEF StepMatchesType

LEMMA StepsMatchTypes == NorSpec => []StepMatchesType(fp)
<1>1. NorInit => StepMatchesType(fp)
  BY IdleMatches DEF NorInit
<1>2. StepMatchesType(fp) /\ [NorNext]_norVars => StepMatchesType(fp)'
  <2> SUFFICES ASSUME StepMatchesType(fp), [NorNext]_norVars PROVE StepMatchesType(fp')
    BY DEF StepMatchesType
  <2>1. CASE Store
    BY <2>1, NextFpMatches DEF Store, write_nor
  <2>2. CASE SwitchBank
    BY <2>2 DEF SwitchBank
  <2>3. CASE WarmReset
    BY <2>3 DEF WarmReset
  <2>4. CASE ColdReset
    BY <2>4, IdleMatches DEF ColdReset
  <2>5. CASE UNCHANGED norVars
    BY <2>5 DEF norVars
  <2> QED BY <2>1, <2>2, <2>3, <2>4, <2>5 DEF NorNext
<1> QED BY <1>1, <1>2, PTL DEF NorSpec

\* No assertion of write_nor0 can fail, whatever the guest stores and wherever
\* a reset hits.
LEMMA NorNeverAsserts == NorSpec => []NorAssertsHold
<1>1. StepMatchesType(fp) => NorAssertsHold
  BY DEF StepMatchesType, NorAssertsHold
<1> QED BY <1>1, StepsMatchTypes, PTL

\* With the bank selected that frees the chip, every page of the window is the
\* NOR's, whatever it showed before.
LEMMA FreeingBankShows ==
    ASSUME machine \in AllModels, io \in Registers, NEW old
    PROVE  /\ FreeingBank.bs < num_nor_pages(machine)
           /\ \A p \in 2 .. 5 : Switched(machine, FreeingBank, old)[p] = Slice(Nor(2), p % 4)
<1> DEFINE r == FreeingBank
<1>1. r.bs = 2 /\ r.roa_bbs = 128
  BY DEF FreeingBank, Registers
<1> HIDE DEF r
<1>2. r.bs < num_nor_pages(machine) /\ Roa(r) /\ r.bs % 16 = 2
  BY <1>1, NorPages DEF Roa
<1>3. GetBank(machine, r) = Nor(2) /\ BankExists(machine, r)
  BY <1>1, <1>2 DEF GetBank, BankExists, Nor, Null
<1>4. ASSUME NEW p \in 2 .. 5 PROVE Switched(machine, r, old)[p] = Slice(Nor(2), p % 4)
  <2>1. Switched(machine, r, old)[p] = SwitchBank_2345(machine, r, old)[p]
    BY DEF Switched
  <2>2. CASE machine = "pc1000"
    BY <1>1, <1>2, <1>3, <2>1, <2>2 DEF SwitchBank_2345, WindowPc1000
  <2>3. CASE machine = "nc3000"
    <3>1. WindowNc3000(r) = Straight(Nor(2))
      BY <1>1, <1>3, <2>3 DEF WindowNc3000
    <3> QED BY <1>3, <2>1, <2>3, <3>1 DEF SwitchBank_2345, Straight
  <2>4. CASE machine \notin {"pc1000", "nc3000"}
    BY <1>1, <1>3, <2>1, <2>4 DEF SwitchBank_2345, WindowNc2000
  <2> QED BY <2>2, <2>3, <2>4
<1> QED BY <1>2, <1>4 DEF r

\* A guest that selects bank 2 can reset the chip, and at most two reset
\* commands bring it back to reading its array; only as the data of a program
\* command does one of them change a byte.
LEMMA NorAlwaysRecovers == NorSpec => []ResetRecovers
<1>1. MapTypeOK /\ StepMatchesType(fp) => ResetRecovers
  <2> SUFFICES ASSUME machine \in AllModels, StepMatchesType(fp), NEW w \in Writes
               PROVE  LET once == NextFp(fp, w[1], ResetF0)
                      IN  /\ NextFp(once, w[1], ResetF0) = Idle
                          /\ ~AwaitsData => /\ once = Idle
                                            /\ NextZeros(fp, w[1], ResetF0) = zeros
    BY FreeingBankShows, ModelsAssumption DEF ResetRecovers, MapTypeOK
  <2>1. /\ ResetF0 \notin CommandValues /\ ResetF0 # UnlockAA /\ ResetF0 # Unlock55
        /\ ResetF0 # MassErase /\ ResetF0 # SectorErase
    BY DEF ResetF0, CommandValues, UnlockAA, Unlock55, MassErase, SectorErase
  <2>2. ASSUME NEW f, ~(f.step = 3 /\ f.type \in ProgramTypes)
        PROVE  NextFp(f, w[1], ResetF0) = Idle
    BY <2>1, <2>2 DEF NextFp, IsUnlock1, IsUnlock2, IsMassErase
  <2>3. CASE AwaitsData
    <3>1. NextFp(fp, w[1], ResetF0) = Finished(fp, 4)
      BY <2>1, <2>3 DEF AwaitsData, NextFp, ProgramTypes, EraseTypes
    <3>2. Finished(fp, 4).step # 3
      BY DEF Finished, Idle, StepMatchesType
    <3> QED BY <2>2, <2>3, <3>1, <3>2
  <2>4. CASE ~AwaitsData
    <3>1. NextFp(fp, w[1], ResetF0) = Idle
      BY <2>2, <2>4 DEF AwaitsData
    <3>2. NextFp(Idle, w[1], ResetF0) = Idle
      BY <2>2 DEF Idle
    <3>3. NextZeros(fp, w[1], ResetF0) = zeros
      BY <2>1, <2>4 DEF AwaitsData, NextZeros, ProgramTypes, IsMassErase
    <3> QED BY <3>1, <3>2, <3>3
  <2> QED BY <2>3, <2>4
<1> QED BY <1>1, StepsMatchTypes, NorDrivesMap, MapTypeCorrect, PTL

\* Whatever is stored and wherever a reset hits, the chip neither ends the
\* emulator nor gets stuck.
THEOREM NorNeverStuck == NorSpec => []NeverStuck
BY NorNeverAsserts, NorAlwaysRecovers, PTL DEF NeverStuck
-----------------------------------------------------------------------------
(* The array *)

LEMMA PageNumber == ASSUME NEW a \in Addresses PROVE a \div 8192 \in 0 .. 7
<1>1. a \in Int /\ 0 <= a /\ a < 65536
  BY DEF Addresses
<1>2. a \div 8192 \in Int /\ a % 8192 \in 0 .. 8191 /\ a = 8192 * (a \div 8192) + (a % 8192)
  BY <1>1
<1> QED BY <1>1, <1>2

\* A store into a NOR page hits a cell of the array.
LEMMA CellAtType ==
    ASSUME MapTypeOK, NEW w \in Writes, in_nor_range(w[1])
    PROVE  /\ CellAt(w[1]) \in NorCells
           /\ InfoCellAt(w[1]) \in InfoCells
           /\ Page(w[1])[2] \in 0 .. 31 /\ Page(w[1])[3] \in 0 .. 3
<1>1. w[1] \in Addresses
  BY WritesAssumption
<1>2. w[1] \div 8192 \in 0 .. 7
  BY <1>1, PageNumber
<1>3. Page(w[1]) \in Pages
  BY <1>2 DEF MapTypeOK, Page
<1>4. Page(w[1])[2] \in 0 .. 31 /\ Page(w[1])[3] \in 0 .. 3
  BY <1>3 DEF in_nor_range, Pages
<1>5. w[1] % 8192 \in Offsets /\ w[1] % 256 \in InfoOffsets
  BY DEF Offsets, InfoOffsets
<1> QED BY <1>4, <1>5 DEF CellAt, InfoCellAt, NorCells, InfoCells

\* What one store may do to the array: nothing, a program of one cell that
\* only clears its bit, or the erase of a unit.
LEMMA StoreEffect ==
    ASSUME MapTypeOK, zeros \subseteq Cell, NEW w \in Writes, in_nor_range(w[1]),
           zeros' = NextZeros(fp, w[1], w[2])
    PROVE  \/ zeros' = zeros
           \/ \E c \in Cell : zeros' = zeros \cup {c}
           \/ \E unit \in NorEraseUnits : zeros' = zeros \ unit
<1> DEFINE a == w[1]
           v == w[2]
<1>1. CASE fp.step = 3 /\ fp.type = "BYTE_PROGRAM"
  <2>1. zeros' = Programmed(CellAt(a), v)
    BY <1>1 DEF NextZeros
  <2> QED BY <2>1, CellAtType DEF Programmed, Cell
<1>2. CASE fp.step = 3 /\ fp.type = "INFO_BYTE_PROGRAM"
  <2>1. zeros' = Programmed(InfoCellAt(a), v)
    BY <1>2 DEF NextZeros
  <2> QED BY <2>1, CellAtType DEF Programmed, Cell
<1>3. CASE fp.step = 5 /\ IsMassErase(a, v)
  <2> DEFINE info == IF fp.type = "INFO_OR_BMASS_ERASE" THEN InfoCells ELSE {}
  <2>1. zeros' = zeros \ (BankCells(num_nor_pages(machine)) \cup info)
    BY <1>3 DEF NextZeros
  <2>2. BankCells(num_nor_pages(machine)) \cup info \in MassUnits
    BY DEF MassUnits, num_nor_pages
  <2> QED BY <2>1, <2>2 DEF NorEraseUnits
<1>4. CASE /\ fp.step = 5 /\ ~IsMassErase(a, v) /\ v = SectorErase
           /\ fp.type = "BLOCK_OR_MASS_ERASE"
  <2>1. zeros' = zeros \ SectorAt(a)
    BY <1>4 DEF NextZeros
  <2>2. a % 8192 \in Offsets /\ SectorSize \in {2048, 4096}
    BY DEF Offsets, SectorSize
  <2>3. SectorAt(a) \in SectorUnits
    BY <2>2, CellAtType DEF SectorAt, SectorUnits
  <2> QED BY <2>1, <2>3 DEF NorEraseUnits
<1>5. CASE /\ fp.step = 5 /\ ~IsMassErase(a, v) /\ v = SectorErase
           /\ fp.type = "INFO_OR_BMASS_ERASE"
  <2>1. zeros' = zeros \ InfoCells
    BY <1>5 DEF NextZeros
  <2> QED BY <2>1 DEF NorEraseUnits
<1>6. CASE /\ ~(fp.step = 3 /\ fp.type \in ProgramTypes)
           /\ ~(fp.step = 5 /\ IsMassErase(a, v))
           /\ ~(fp.step = 5 /\ ~IsMassErase(a, v) /\ v = SectorErase /\ fp.type \in EraseTypes)
  <2>1. zeros' = zeros
    BY <1>6 DEF NextZeros, ProgramTypes, EraseTypes
  <2> QED BY <2>1
<1> QED BY <1>1, <1>2, <1>3, <1>4, <1>5, <1>6 DEF ProgramTypes, EraseTypes
\* Cells are only created by programs, so they stay inside the chip.
THEOREM NorTypeCorrect == NorSpec => []NorTypeOK
<1> DEFINE Inv == zeros \subseteq Cell
<1>1. NorInit => Inv
  BY ImagesAssumption DEF NorInit
<1>2. MapTypeOK /\ Inv /\ [NorNext]_norVars => Inv'
  <2> SUFFICES ASSUME MapTypeOK, Inv, [NorNext]_norVars PROVE Inv'
    OBVIOUS
  <2>1. CASE Store
    <3>1. PICK w \in Writes : write_nor(w[1], w[2])
      BY <2>1 DEF Store
    <3> QED BY <3>1, StoreEffect DEF write_nor
  <2>2. CASE UNCHANGED zeros
    BY <2>2
  <2> QED BY <2>1, <2>2 DEF NorNext, SwitchBank, WarmReset, ColdReset, norVars
<1>3. StepMatchesType(fp) /\ Inv => NorTypeOK
  BY DEF StepMatchesType, NorTypeOK
<1> QED
  BY <1>1, <1>2, <1>3, NorDrivesMap, MapTypeCorrect, StepsMatchTypes, PTL DEF NorSpec

\* The NOR implements the abstract flash array: between resets, bank switches
\* and abandoned commands, no sequence of stores sets a bit of a byte except
\* by erasing the whole sector, array or information block it belongs to.
THEOREM NorImplementsFlash == NorSpec => FlashPromise
<1>1. NorInit => Flash!Init
  BY ImagesAssumption DEF NorInit, Flash!Init
<1>2. MapTypeOK /\ NorTypeOK /\ [NorNext]_norVars => [Flash!Next]_zeros
  <2> SUFFICES ASSUME MapTypeOK, NorTypeOK, [NorNext]_norVars PROVE [Flash!Next]_zeros
    OBVIOUS
  <2>1. CASE Store
    <3>1. PICK w \in Writes : write_nor(w[1], w[2])
      BY <2>1 DEF Store
    <3>2. \/ zeros' = zeros
          \/ \E c \in Cell : zeros' = zeros \cup {c}
          \/ \E unit \in NorEraseUnits : zeros' = zeros \ unit
      BY <3>1, StoreEffect DEF write_nor, NorTypeOK
    <3>3. ASSUME NEW c \in Cell, zeros' = zeros \cup {c} PROVE Flash!Next
      <4>1. Flash!Program({c})
        BY <3>3 DEF Flash!Program, NorTypeOK
      <4> QED BY <4>1 DEF Flash!Next, ByteUnits
    <3>4. ASSUME NEW unit \in NorEraseUnits,
                 zeros' = zeros \ unit
          PROVE  Flash!Next
      BY <3>4 DEF Flash!Next, Flash!Erase
    <3> QED BY <3>2, <3>3, <3>4
  <2>2. CASE UNCHANGED zeros
    BY <2>2
  <2> QED BY <2>1, <2>2 DEF NorNext, SwitchBank, WarmReset, ColdReset, norVars
<1> QED
  BY <1>1, <1>2, NorDrivesMap, MapTypeCorrect, NorTypeCorrect, PTL
  DEF NorSpec, FlashPromise, Flash!Spec

-----------------------------------------------------------------------------
(* Unlock sequences.  The invariant, Observed, says how much of its sequences *)
(* the observer must have seen for the chip to be in a step of its own.       *)

Kinds == {"program", "infoProgram", "erase", "infoErase"}

\* The sequence that a command belongs to.
KindOf(type) == CASE type = "BYTE_PROGRAM" -> "program"
                  [] type = "INFO_BYTE_PROGRAM" -> "infoProgram"
                  [] type = "BLOCK_OR_MASS_ERASE" -> "erase"
                  [] type = "INFO_OR_BMASS_ERASE" -> "infoErase"

\* Steps that the chip has gone through and that the observer m has seen.
Observed(f, m) ==
    /\ m \in [Kinds -> 0 .. 5]
    /\ \A s \in Kinds : m[s] <= Len(Sequence[s])
    /\ f.step \in {1, 2} => \A s \in Kinds : m[s] >= f.step
    /\ f.step = 3 /\ f.type \in ProgramTypes => m[KindOf(f.type)] >= 3
    /\ f.step \in 3 .. 5 /\ f.type \in EraseTypes => m[KindOf(f.type)] >= f.step

\* The observer's step, as an operator.
Advance(m, w) == [s \in Kinds |->
                    IF m[s] # Len(Sequence[s]) /\ w \in Sequence[s][m[s] + 1]
                      THEN m[s] + 1 ELSE m[s]]

LEMMA SequenceDomain == DOMAIN Sequence = Kinds
BY DEF Sequence, Kinds

LEMMA Sequences ==
    /\ \A s \in Kinds : Sequence[s][1] = Unlock1 /\ Sequence[s][2] = Unlock2
    /\ \A s \in {"program", "infoProgram"} : Len(Sequence[s]) = 3
    /\ \A s \in {"erase", "infoErase"} :
         Len(Sequence[s]) = 5 /\ Sequence[s][4] = Unlock1 /\ Sequence[s][5] = Unlock2
    /\ Sequence["program"][3] = Command(160) /\ Sequence["infoProgram"][3] = Command(168)
    /\ Sequence["erase"][3] = Command(128) /\ Sequence["infoErase"][3] = Command(136)
BY DEF Sequence, Kinds

LEMMA NothingObserved == Observed(Idle, Nothing)
BY Sequences, SequenceDomain DEF Observed, Idle, Nothing, Kinds

LEMMA Lengths == \A s \in Kinds : Len(Sequence[s]) \in {3, 5}
BY Sequences DEF Kinds

LEMMA KindTypes ==
    ASSUME NEW type
    PROVE  /\ type \in ProgramTypes => KindOf(type) \in {"program", "infoProgram"}
           /\ type \in EraseTypes => KindOf(type) \in {"erase", "infoErase"}
BY DEF KindOf, ProgramTypes, EraseTypes

\* The observer never goes back, and goes on whenever the store is the next of
\* a sequence.
Follows(n, m, w) ==
    /\ n \in [Kinds -> 0 .. 5]
    /\ \A s \in Kinds : n[s] >= m[s] /\ n[s] <= Len(Sequence[s])
    /\ \A s \in Kinds : m[s] < Len(Sequence[s]) /\ w \in Sequence[s][m[s] + 1] => n[s] = m[s] + 1

LEMMA AdvanceFollows ==
    ASSUME NEW m \in [Kinds -> 0 .. 5], \A s \in Kinds : m[s] <= Len(Sequence[s]), NEW w
    PROVE  Follows(Advance(m, w), m, w)
<1> DEFINE n == Advance(m, w)
<1>1. ASSUME NEW s \in Kinds
      PROVE  /\ n[s] \in 0 .. 5 /\ n[s] >= m[s] /\ n[s] <= Len(Sequence[s])
             /\ m[s] < Len(Sequence[s]) /\ w \in Sequence[s][m[s] + 1] => n[s] = m[s] + 1
  <2>1. m[s] \in 0 .. 5 /\ m[s] <= Len(Sequence[s]) /\ Len(Sequence[s]) \in {3, 5}
    BY Lengths
  <2>2. n[s] = IF m[s] # Len(Sequence[s]) /\ w \in Sequence[s][m[s] + 1] THEN m[s] + 1 ELSE m[s]
    BY DEF Advance
  <2>3. CASE m[s] # Len(Sequence[s]) /\ w \in Sequence[s][m[s] + 1]
    <3>1. n[s] = m[s] + 1
      BY <2>2, <2>3
    <3> HIDE DEF n
    <3> QED BY <2>1, <2>3, <3>1
  <2>4. CASE ~(m[s] # Len(Sequence[s]) /\ w \in Sequence[s][m[s] + 1])
    <3>1. n[s] = m[s]
      BY <2>2, <2>4
    <3> HIDE DEF n
    <3> QED BY <2>1, <2>4, <3>1
  <2> QED BY <2>3, <2>4
<1>2. n \in [Kinds -> 0 .. 5]
  <2>1. n = [s \in Kinds |-> n[s]]
    BY DEF Advance
  <2> HIDE DEF n
  <2> QED BY <1>1, <2>1
<1> HIDE DEF n
<1>3. Follows(n, m, w)
  BY <1>1, <1>2 DEF Follows
<1> QED BY <1>3 DEF n

LEMMA StoreObserved ==
    ASSUME NEW f, StepMatchesType(f), NEW m, Observed(f, m), NEW a, NEW v,
           v # ResetF0, NEW n, Follows(n, m, <<a, v>>)
    PROVE  Observed(NextFp(f, a, v), n)
<1> DEFINE g == NextFp(f, a, v)
<1>1. /\ n \in [Kinds -> 0 .. 5]
      /\ \A s \in Kinds : /\ n[s] >= m[s] /\ n[s] <= Len(Sequence[s])
                          /\ m[s] < Len(Sequence[s]) /\ <<a, v>> \in Sequence[s][m[s] + 1]
                               => n[s] = m[s] + 1
  BY DEF Follows
<1>2. \A s \in Kinds : m[s] \in 0 .. 5 /\ n[s] \in 0 .. 5
  BY <1>1 DEF Observed
<1>types. f.step \in 0 .. 6 /\ f.type \in Types
  BY DEF StepMatchesType
<1>3. CASE g = f
  <2>1. f.step \in {1, 2} => \A s \in Kinds : n[s] >= f.step
    BY <1>1, <1>2, <1>types DEF Observed
  <2>2. f.step = 3 /\ f.type \in ProgramTypes => n[KindOf(f.type)] >= 3
    BY <1>1, <1>2, KindTypes DEF Observed, Kinds
  <2>3. f.step \in 3 .. 5 /\ f.type \in EraseTypes => n[KindOf(f.type)] >= f.step
    BY <1>1, <1>2, <1>types, KindTypes DEF Observed, Kinds
  <2> QED BY <1>1, <1>3, <2>1, <2>2, <2>3 DEF Observed
<1>4. CASE f.step = 0 /\ IsUnlock1(a, v)
  <2>1. g = [f EXCEPT !.step = 1]
    BY <1>4 DEF NextFp
  <2>2. g.step = 1
    BY <2>1 DEF StepMatchesType
  <2>3. <<a, v>> \in Unlock1
    BY <1>4 DEF IsUnlock1, Unlock1
  <2>4. \A s \in Kinds : Sequence[s][1] = Unlock1 /\ Len(Sequence[s]) >= 3
    BY Sequences, Lengths
  <2>5. \A s \in Kinds : n[s] >= 1
    BY <1>1, <1>2, <2>3, <2>4
  <2> QED BY <1>1, <2>2, <2>5 DEF Observed
<1>5. CASE f.step = 1 /\ IsUnlock2(a, v)
  <2>1. g = [f EXCEPT !.step = 2]
    BY <1>5 DEF NextFp
  <2>2. g.step = 2
    BY <2>1 DEF StepMatchesType
  <2>3. <<a, v>> \in Unlock2
    BY <1>5 DEF IsUnlock2, Unlock2
  <2>4. \A s \in Kinds : Sequence[s][2] = Unlock2 /\ Len(Sequence[s]) >= 3
    BY Sequences, Lengths
  <2>5. \A s \in Kinds : m[s] >= 1
    BY <1>5 DEF Observed
  <2>6. \A s \in Kinds : n[s] >= 2
    BY <1>1, <1>2, <2>3, <2>4, <2>5
  <2> QED BY <1>1, <2>2, <2>6 DEF Observed
<1>6. CASE f.step = 2 /\ a \in Addr5555 /\ v \in CommandValues
  <2>1. g = [step |-> 3, type |-> CommandType(v)]
    BY <1>6 DEF NextFp
  <2>2. <<a, v>> \in Command(v)
    BY <1>6 DEF Command
  <2>3. \A s \in Kinds : n[s] >= 2
    BY <1>1, <1>2, <1>6 DEF Observed
  <2>4. ASSUME g.type \in ProgramTypes \cup EraseTypes PROVE n[KindOf(g.type)] >= 3
    <3>1. PICK s \in Kinds : KindOf(g.type) = s /\ Sequence[s][3] = Command(v)
      <4>1. CASE v = 160
        BY <2>1, <4>1, Sequences DEF CommandType, KindOf, Kinds
      <4>2. CASE v = 168
        BY <2>1, <4>2, Sequences DEF CommandType, KindOf, Kinds
      <4>3. CASE v = 128
        BY <2>1, <4>3, Sequences DEF CommandType, KindOf, Kinds
      <4>4. CASE v = 136
        BY <2>1, <4>4, Sequences DEF CommandType, KindOf, Kinds
      <4> QED BY <1>6, <2>1, <2>4, <4>1, <4>2, <4>3, <4>4
           DEF CommandValues, CommandType, ProgramTypes, EraseTypes
    <3>2. m[s] >= 2 /\ Len(Sequence[s]) >= 3
      <4>1. m[s] >= 2
        BY <1>6 DEF Observed
      <4>2. Len(Sequence[s]) >= 3
        BY Lengths
      <4> QED BY <4>1, <4>2
    <3>3. n[s] >= 3
      BY <1>1, <1>2, <2>2, <3>1, <3>2
    <3> QED BY <3>1, <3>3
  <2> QED BY <1>1, <2>1, <2>4 DEF Observed
<1>7. CASE f.step = 3 /\ f.type \in ProgramTypes
  <2>1. g = Finished(f, 4)
    BY <1>7 DEF NextFp, ProgramTypes, EraseTypes
  <2>2. g.step \in {0, 4} /\ (g.step = 4 => g.type \in ProgramTypes)
    BY <1>7, <2>1 DEF Finished, Idle, StepMatchesType
  <2> QED BY <1>1, <2>2 DEF Observed, ProgramTypes, EraseTypes
<1>8. CASE f.step = 3 /\ f.type \in EraseTypes /\ IsUnlock1(a, v)
  <2>1. g = [f EXCEPT !.step = 4]
    BY <1>8 DEF NextFp, ProgramTypes, EraseTypes
  <2>2. g.step = 4 /\ g.type = f.type
    BY <2>1 DEF StepMatchesType
  <2>3. <<a, v>> \in Unlock1
    BY <1>8 DEF IsUnlock1, Unlock1
  <2>4. PICK s \in Kinds : KindOf(f.type) = s /\ Sequence[s][4] = Unlock1 /\ Len(Sequence[s]) = 5
    BY <1>8, KindTypes, Sequences DEF Kinds
  <2>5. m[s] >= 3
    BY <1>8, <2>4 DEF Observed
  <2>6. n[s] >= 4
    BY <1>1, <1>2, <2>3, <2>4, <2>5
  <2> QED BY <1>1, <2>2, <2>4, <2>6 DEF Observed, ProgramTypes, EraseTypes
<1>9. CASE f.step = 4 /\ f.type \in EraseTypes /\ IsUnlock2(a, v)
  <2>1. g = [f EXCEPT !.step = 5]
    BY <1>9 DEF NextFp, ProgramTypes, EraseTypes
  <2>2. g.step = 5 /\ g.type = f.type
    BY <2>1 DEF StepMatchesType
  <2>3. <<a, v>> \in Unlock2
    BY <1>9 DEF IsUnlock2, Unlock2
  <2>4. PICK s \in Kinds : KindOf(f.type) = s /\ Sequence[s][5] = Unlock2 /\ Len(Sequence[s]) = 5
    BY <1>9, KindTypes, Sequences DEF Kinds
  <2>5. m[s] >= 4
    BY <1>9, <2>4 DEF Observed
  <2>6. n[s] >= 5
    BY <1>1, <1>2, <2>3, <2>4, <2>5
  <2> QED BY <1>1, <2>2, <2>4, <2>6 DEF Observed, ProgramTypes, EraseTypes
<1>10. CASE /\ f.step = 5
            /\ IsMassErase(a, v) \/ (f.type \in EraseTypes /\ v = SectorErase)
  <2>1. g = Finished(f, 6)
    BY <1>10 DEF NextFp
  <2>2. g.step \in {0, 6}
    BY <2>1 DEF Finished, Idle, StepMatchesType
  <2> QED BY <1>1, <2>2 DEF Observed
<1> QED BY <1>3, <1>4, <1>5, <1>6, <1>7, <1>8, <1>9, <1>10 DEF NextFp

\* A step that modifies a cell, or a reset command, leaves the chip in a step
\* of which the invariant asks nothing.
LEMMA ModifiedIsDone ==
    ASSUME StepMatchesType(fp), NEW a, NEW v,
           v = ResetF0 \/ NextZeros(fp, a, v) # zeros
    PROVE  Observed(NextFp(fp, a, v), Nothing)
<1> DEFINE g == NextFp(fp, a, v)
<1>1. \/ g = Idle
      \/ g.step = 4 /\ g.type \in ProgramTypes
      \/ g.step = 6
  <2>1. CASE fp.step = 3 /\ fp.type \in ProgramTypes
    <3>1. g = Finished(fp, 4)
      BY <2>1 DEF NextFp, ProgramTypes, EraseTypes
    <3> QED BY <2>1, <3>1 DEF Finished, StepMatchesType
  <2>2. CASE fp.step = 5 /\ (IsMassErase(a, v) \/ (fp.type \in EraseTypes /\ v = SectorErase))
    <3>1. g = Finished(fp, 6)
      BY <2>2 DEF NextFp, IsMassErase, MassErase, SectorErase, ResetF0
    <3> QED BY <3>1 DEF Finished, StepMatchesType
  <2>3. CASE /\ ~(fp.step = 3 /\ fp.type \in ProgramTypes)
             /\ ~(fp.step = 5 /\ (IsMassErase(a, v) \/ (fp.type \in EraseTypes /\ v = SectorErase)))
    <3>1. NextZeros(fp, a, v) = zeros
      BY <2>3 DEF NextZeros, ProgramTypes, EraseTypes
    <3>2. v = ResetF0
      BY <3>1
    <3> QED BY <2>3, <3>2 DEF NextFp, IsUnlock1, IsUnlock2, ResetF0, UnlockAA, Unlock55, CommandValues
  <2> QED BY <2>1, <2>2, <2>3
<1>2. Nothing \in [Kinds -> 0 .. 5] /\ \A s \in Kinds : Nothing[s] <= Len(Sequence[s])
  BY NothingObserved DEF Observed
<1> QED BY <1>1, <1>2, NothingObserved DEF Observed, ProgramTypes, EraseTypes

LEMMA ProtocolObserved == Spec => [](StepMatchesType(fp) /\ Observed(fp, matched))
<1> DEFINE Inv == StepMatchesType(fp) /\ Observed(fp, matched)
<1>1. Init => Inv
  BY IdleMatches, NothingObserved DEF Init, NorInit
<1>2. Inv /\ [Next]_protocolVars => Inv'
  <2> SUFFICES ASSUME Inv, [Next]_protocolVars
               PROVE  StepMatchesType(fp') /\ Observed(fp', matched')
    BY DEF StepMatchesType, Observed
  <2>1. CASE ObservedStore
    <3>1. PICK w \in Writes :
            /\ write_nor(w[1], w[2])
            /\ matched' = IF w[2] = ResetF0 \/ zeros' # zeros THEN Nothing
                          ELSE [s \in DOMAIN Sequence |->
                                  IF ~Complete(s) /\ w \in Sequence[s][matched[s] + 1]
                                    THEN matched[s] + 1 ELSE matched[s]]
      BY <2>1 DEF ObservedStore
    <3>2. fp' = NextFp(fp, w[1], w[2]) /\ zeros' = NextZeros(fp, w[1], w[2])
      BY <3>1 DEF write_nor
    <3>3. w = <<w[1], w[2]>>
      BY WritesAssumption
    <3>4. CASE w[2] = ResetF0 \/ zeros' # zeros
      BY <3>1, <3>2, <3>4, NextFpMatches, ModifiedIsDone
    <3>5. CASE ~(w[2] = ResetF0 \/ zeros' # zeros)
      <4>1. matched' = Advance(matched, w)
        BY <3>1, <3>5, SequenceDomain DEF Advance, Complete
      <4> QED BY <3>2, <3>3, <3>5, <4>1, NextFpMatches, AdvanceFollows, StoreObserved DEF Observed
    <3> QED BY <3>4, <3>5
  <2>2. CASE (SwitchBank \/ WarmReset) /\ UNCHANGED <<matched, asked>>
    BY <2>2 DEF SwitchBank, WarmReset
  <2>3. CASE ColdReset /\ matched' = Nothing /\ asked' = 0
    BY <2>3, IdleMatches, NothingObserved DEF ColdReset
  <2>4. CASE UNCHANGED protocolVars
    BY <2>4 DEF protocolVars, norVars
  <2> QED BY <2>1, <2>2, <2>3, <2>4 DEF Next
<1> QED BY <1>1, <1>2, PTL DEF Spec

\* The observed specification is the NOR's.
LEMMA ProtocolDrivesNor == Spec => NorSpec
<1>1. Init => NorInit
  BY DEF Init
<1>2. [Next]_protocolVars => [NorNext]_norVars
  BY DEF Next, ObservedStore, NorNext, Store, protocolVars
<1> QED BY <1>1, <1>2, PTL DEF Spec, NorSpec

\* Where the chip modifies a cell, the observer has seen the whole sequence.
LEMMA ObservedComplete ==
    ASSUME Observed(fp, matched),
           \/ fp.step = 3 /\ fp.type \in ProgramTypes
           \/ fp.step = 5 /\ fp.type \in EraseTypes
    PROVE  Complete(KindOf(fp.type))
<1> DEFINE s == KindOf(fp.type)
<1>1. s \in Kinds /\ Len(Sequence[s]) = IF fp.step = 3 THEN 3 ELSE 5
  <2>1. CASE fp.step = 3 /\ fp.type \in ProgramTypes
    <3>1. s \in {"program", "infoProgram"}
      BY <2>1, KindTypes
    <3> HIDE DEF s
    <3> QED BY <2>1, <3>1, Sequences DEF Kinds
  <2>2. CASE fp.step = 5 /\ fp.type \in EraseTypes
    <3>1. s \in {"erase", "infoErase"}
      BY <2>2, KindTypes
    <3> HIDE DEF s
    <3> QED BY <2>2, <3>1, Sequences DEF Kinds
  <2> QED BY <2>1, <2>2
<1>2. matched[s] \in 0 .. 5 /\ matched[s] <= Len(Sequence[s])
  BY <1>1 DEF Observed
<1>3. matched[s] >= IF fp.step = 3 THEN 3 ELSE 5
  BY DEF Observed, ProgramTypes, EraseTypes
<1> HIDE DEF s
<1>4. matched[s] = Len(Sequence[s])
  BY <1>1, <1>2, <1>3
<1> QED BY <1>4 DEF Complete, s

\* No byte is programmed or erased but by the last store of its own command,
\* whatever the guest stores and whenever banks are switched or resets hit.
THEOREM NorModifiesUnlocked == Spec => ModificationsAreUnlocked
<1> DEFINE Unlocked ==
             LET programmed == zeros' \ zeros
                 erased == zeros \ zeros'
             IN  /\ programmed \cap NorCells # {} => Complete("program")
                 /\ programmed \cap InfoCells # {} => Complete("infoProgram")
                 /\ erased \cap NorCells # {} => Complete("erase") \/ Complete("infoErase")
                 /\ erased \cap InfoCells # {} => Complete("infoErase")
<1>1. MapTypeOK /\ StepMatchesType(fp) /\ Observed(fp, matched) /\ [Next]_protocolVars
        => [Unlocked]_protocolVars
  <2> SUFFICES ASSUME MapTypeOK, StepMatchesType(fp), Observed(fp, matched), ObservedStore
               PROVE  Unlocked
    <3>1. CASE UNCHANGED zeros
      BY <3>1
    <3> QED BY <3>1 DEF Next, SwitchBank, WarmReset, ColdReset, protocolVars, norVars
  <2>1. PICK w \in Writes : write_nor(w[1], w[2])
    BY DEF ObservedStore
  <2> DEFINE a == w[1]
             v == w[2]
  <2>2. zeros' = NextZeros(fp, a, v) /\ in_nor_range(a)
    BY <2>1 DEF write_nor
  <2>3. CellAt(a) \in NorCells /\ InfoCellAt(a) \in InfoCells
    BY <2>2, CellAtType
  <2>4. NorCells \cap InfoCells = {}
    BY DEF NorCells, InfoCells
  <2>5. \A count : BankCells(count) \subseteq NorCells
    BY DEF BankCells
  <2>6. SectorAt(a) \subseteq NorCells
    BY DEF SectorAt, Sector
  <2>7. CASE fp.step = 3 /\ fp.type = "BYTE_PROGRAM"
    <3>1. zeros' \ zeros \subseteq NorCells /\ zeros \ zeros' = {}
      BY <2>2, <2>3, <2>7 DEF NextZeros, Programmed
    <3>2. Complete("program")
      BY <2>7, ObservedComplete DEF KindOf, ProgramTypes
    <3> QED BY <2>4, <3>1, <3>2
  <2>8. CASE fp.step = 3 /\ fp.type = "INFO_BYTE_PROGRAM"
    <3>1. zeros' \ zeros \subseteq InfoCells /\ zeros \ zeros' = {}
      BY <2>2, <2>3, <2>8 DEF NextZeros, Programmed
    <3>2. Complete("infoProgram")
      BY <2>8, ObservedComplete DEF KindOf, ProgramTypes
    <3> QED BY <2>4, <3>1, <3>2
  <2>9. CASE fp.step = 5 /\ fp.type = "BLOCK_OR_MASS_ERASE"
    <3>1. zeros' \ zeros = {} /\ zeros \ zeros' \subseteq NorCells
      BY <2>2, <2>5, <2>6, <2>9 DEF NextZeros
    <3>2. Complete("erase")
      BY <2>9, ObservedComplete DEF KindOf, EraseTypes
    <3> QED BY <2>4, <3>1, <3>2
  <2>10. CASE fp.step = 5 /\ fp.type = "INFO_OR_BMASS_ERASE"
    <3>1. zeros' \ zeros = {}
      BY <2>2, <2>10 DEF NextZeros
    <3>2. Complete("infoErase")
      BY <2>10, ObservedComplete DEF KindOf, EraseTypes
    <3> QED BY <3>1, <3>2
  <2>11. CASE ~(fp.step = 3 /\ fp.type \in ProgramTypes) /\ fp.step # 5
    <3>1. zeros' = zeros
      BY <2>2, <2>11 DEF NextZeros, ProgramTypes
    <3> QED BY <3>1
  <2> QED BY <2>7, <2>8, <2>9, <2>10, <2>11 DEF StepMatchesType, ProgramTypes, EraseTypes
<1> QED
  BY <1>1, ProtocolObserved, ProtocolDrivesNor, NorDrivesMap, MapTypeCorrect, PTL
  DEF Spec, ModificationsAreUnlocked

\* How many stores of a selection the observer has seen of a chip in a step.
Asked(f, n) == /\ n \in 0 .. 3
               /\ f.step \in {1, 2} => n >= f.step
               /\ f.step >= 3 => n = 3

\* The observer's step.
LEMMA AskedStep ==
    ASSUME StepMatchesType(fp), Observed(fp, matched), Asked(fp, asked),
           NEW w \in Writes, NEW n,
           n = IF w[2] = ResetF0
                 THEN IF Complete("program") \/ Complete("infoProgram") THEN asked ELSE 0
                 ELSE IF asked < 3 /\ w \in Selection[asked + 1] THEN asked + 1 ELSE asked
    PROVE  Asked(NextFp(fp, w[1], w[2]), n)
<1> DEFINE g == NextFp(fp, w[1], w[2])
<1>1. g.step \in 0 .. 6 /\ fp.step \in 0 .. 6
  BY NextFpMatches DEF StepMatchesType
<1>2. w = <<w[1], w[2]>>
  BY WritesAssumption
<1>3. asked \in 0 .. 3 /\ n \in 0 .. 3
  BY DEF Asked
<1>4. CASE n = 3
  BY <1>1, <1>4 DEF Asked
<1>5. CASE w[2] = ResetF0 /\ n # 3
  <2>1. ~(fp.step = 3 /\ fp.type \in ProgramTypes)
    <3> SUFFICES ASSUME fp.step = 3, fp.type \in ProgramTypes PROVE FALSE
      OBVIOUS
    <3>1. Complete(KindOf(fp.type))
      BY ObservedComplete
    <3>2. KindOf(fp.type) \in {"program", "infoProgram"}
      BY KindTypes
    <3>3. asked = 3
      BY DEF Asked
    <3> QED BY <1>5, <3>1, <3>2, <3>3
  <2>2. g = Idle
    BY <1>5, <2>1 DEF NextFp, IsUnlock1, IsUnlock2, IsMassErase, ResetF0, UnlockAA, Unlock55,
                      MassErase, SectorErase, CommandValues
  <2> HIDE DEF g
  <2>3. Asked(g, n)
    BY <1>3, <2>2 DEF Asked, Idle
  <2> QED BY <2>3 DEF g
<1>6. CASE w[2] # ResetF0 /\ n # 3
  <2>1. asked < 3 /\ fp.step < 3 /\ fp.step <= asked /\ n >= asked
    BY <1>1, <1>3, <1>6 DEF Asked
  <2>2. CASE g = fp
    BY <1>3, <2>1, <2>2 DEF Asked
  <2>3. CASE g # fp
    <3>1. \/ fp.step = 0 /\ IsUnlock1(w[1], w[2])
          \/ fp.step = 1 /\ IsUnlock2(w[1], w[2])
          \/ fp.step = 2 /\ w[1] \in Addr5555 /\ w[2] \in CommandValues
      BY <1>6, <2>1, <2>3 DEF NextFp
    <3>2. g.step = fp.step + 1 /\ w \in Selection[fp.step + 1]
      <4>1. CASE fp.step = 0 /\ IsUnlock1(w[1], w[2])
        <5>1. g = [fp EXCEPT !.step = 1]
          BY <1>6, <4>1 DEF NextFp
        <5> HIDE DEF g
        <5> QED BY <1>2, <4>1, <5>1 DEF StepMatchesType, Selection, Unlock1, IsUnlock1
      <4>2. CASE fp.step = 1 /\ IsUnlock2(w[1], w[2])
        <5>1. g = [fp EXCEPT !.step = 2]
          BY <1>6, <4>2 DEF NextFp
        <5> HIDE DEF g
        <5> QED BY <1>2, <4>2, <5>1 DEF StepMatchesType, Selection, Unlock2, IsUnlock2
      <4>3. CASE fp.step = 2 /\ w[1] \in Addr5555 /\ w[2] \in CommandValues
        <5>1. g = [step |-> 3, type |-> CommandType(w[2])]
          BY <1>6, <4>3 DEF NextFp
        <5> HIDE DEF g
        <5> QED BY <1>2, <4>3, <5>1 DEF Selection
      <4> QED BY <3>1, <4>1, <4>2, <4>3
    <3> HIDE DEF g
    <3>3. n >= fp.step + 1
      <4>1. CASE fp.step = asked
        <5>1. w \in Selection[asked + 1]
          BY <3>2, <4>1
        <5>2. n = asked + 1
          BY <1>6, <2>1, <5>1
        <5> QED BY <1>1, <1>3, <4>1, <5>2
      <4>2. CASE fp.step # asked
        BY <1>1, <1>3, <2>1, <4>2
      <4> QED BY <4>1, <4>2
    <3>4. Asked(g, n)
      BY <1>1, <1>3, <1>6, <2>1, <3>2, <3>3 DEF Asked
    <3> QED BY <3>4 DEF g
  <2> QED BY <2>2, <2>3
<1> QED BY <1>4, <1>5, <1>6

\* A read is answered by the chip itself only after three stores that selected
\* a command and no reset since, whatever is stored and switched in between.
\* What a reset boots from follows.
THEOREM AnswersAlwaysAskedFor == Spec => []AnswersAreAskedFor
<1>1. Init => Asked(fp, asked)
  BY DEF Init, NorInit, Asked, Idle
<1>2. /\ StepMatchesType(fp) /\ Observed(fp, matched) /\ Asked(fp, asked)
      /\ [Next]_protocolVars
      => Asked(fp, asked)'
  <2> SUFFICES ASSUME StepMatchesType(fp), Observed(fp, matched), Asked(fp, asked),
                      [Next]_protocolVars
               PROVE  Asked(fp', asked')
    BY DEF Asked
  <2>1. CASE ObservedStore
    BY <2>1, AskedStep DEF ObservedStore, write_nor
  <2>2. CASE (SwitchBank \/ WarmReset) /\ UNCHANGED <<matched, asked>>
    BY <2>2 DEF SwitchBank, WarmReset
  <2>3. CASE ColdReset /\ matched' = Nothing /\ asked' = 0
    BY <2>3 DEF ColdReset, Asked, Idle
  <2>4. CASE UNCHANGED protocolVars
    BY <2>4 DEF protocolVars, norVars
  <2> QED BY <2>1, <2>2, <2>3, <2>4 DEF Next
<1>3. Asked(fp, asked) => AnswersAreAskedFor
  BY DEF Asked, AnswersAreAskedFor, read_nor
<1> QED BY <1>1, <1>2, <1>3, ProtocolObserved, PTL DEF Spec
=============================================================================
