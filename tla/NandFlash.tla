------------------------------ MODULE NandFlash ------------------------------
(***************************************************************************)
(* The NAND flash of src/src/nand.cpp: the guest drives it one byte at a   *)
(* time through I/O register 0x29, with the CLE and ALE lines taken from   *)
(* register 0x18; the emulator collects command, address and data bytes in *)
(* three queues and acts when a command completes.                         *)
(*                                                                         *)
(* The code checks the guest's sequence with assert().  A Debug build      *)
(* aborts on a sequence it does not expect; a Release build, which is what *)
(* the packages contain, goes on.                                          *)
(*                                                                         *)
(* The geometry is a parameter (528-byte pages of 512 + 16, blocks of 32   *)
(* pages, address bytes of base 256 in the code), and one bit of every     *)
(* byte is observed: zeros is the set of bytes, numbered from the start of *)
(* the array, whose bit is 0.                                              *)
(***************************************************************************)
EXTENDS Integers, Sequences

CONSTANTS Base,            \* number of values of an address byte
          Half,            \* bytes of half a page's main area
          Spare,           \* bytes of a page's spare area
          BlockPages,      \* pages of an erase block
          ExtraPages,      \* pages of the array beyond the addressable ones
          ForcedErase,     \* forced_erase_before_write
          Builds,          \* builds of the program: "debug" and "release"
          Images           \* contents the image files may have, as zeros

Main == 2 * Half
PageLen == Main + Spare
Pages == 2 * Base * Base
Cell == 0 .. (Pages + ExtraPages) * PageLen - 1

ASSUME GeometryAssumption == /\ Base \in Nat \ {0} /\ Half \in Nat \ {0}
                             /\ Spare \in Nat \ {0} /\ BlockPages \in Nat \ {0}
                             /\ ExtraPages \in Nat /\ ExtraPages >= BlockPages
                             /\ Base <= Main
ASSUME ModeAssumption == ForcedErase \in BOOLEAN /\ Builds \subseteq {"debug", "release"}
ASSUME ImagesAssumption == Images \subseteq SUBSET Cell

VARIABLES nand_cmd, nand_addr, nand_data,  \* the queues; data holds the observed bits
          nand_read_cnt,
          zeros,
          out,                             \* what the last read returned
          process                          \* the build, or "aborted" by an assertion

queues == <<nand_cmd, nand_addr, nand_data, nand_read_cnt>>
nandVars == <<nand_cmd, nand_addr, nand_data, nand_read_cnt, zeros, out, process>>
-----------------------------------------------------------------------------
(* Commands: the values the guest sends with CLE *)

ReadLow == 0
ReadHigh == 1
ReadSpare == 80       \* 0x50
EraseSetup == 96      \* 0x60
ReadStatus == 112     \* 0x70
ReadId == 144         \* 0x90
ResetChip == 255
ProgramConfirm == 16  \* 0x10
ProgramSetup == 128   \* 0x80
EraseConfirm == 208   \* 0xd0

ReadCommands == {ReadLow, ReadHigh, ReadSpare}
FirstCommands == ReadCommands \cup {EraseSetup, ReadStatus, ReadId, ResetChip}

Lens(c, a, d) == Len(nand_cmd) = c /\ Len(nand_addr) = a /\ Len(nand_data) = d

\* Row numbers: of the four address bytes of a read or a program, and of the
\* three of an erase.
PageOfAddr == ((nand_addr[4] % 2) * Base + nand_addr[3]) * Base + nand_addr[2]
RowOfAddr == ((nand_addr[3] % 2) * Base + nand_addr[2]) * Base + nand_addr[1]
Column == nand_addr[1]

Run(first, length) == first .. first + length - 1

\* The bytes from first on take the bits: "&= data", after setting them to
\* 0xff if an erase is forced.
Programmed(first, bits) ==
    (IF ForcedErase THEN zeros \ Run(first, Len(bits)) ELSE zeros)
      \cup {first + i - 1 : i \in {j \in 1 .. Len(bits) : bits[j] = 0}}
-----------------------------------------------------------------------------
NandInit == /\ nand_cmd = <<>> /\ nand_addr = <<>> /\ nand_data = <<>>
            /\ nand_read_cnt = 0
            /\ zeros \in Images
            /\ out = <<"ff", 1>>
            /\ process \in Builds

\* assert(cond) before an effect.
Passes(cond) == process = "release" \/ (process = "debug" /\ cond)
Aborts(cond) == /\ process = "debug" /\ ~cond
                /\ process' = "aborted"
                /\ UNCHANGED <<queues, zeros, out>>

clear_nand_status == /\ nand_cmd' = <<>> /\ nand_addr' = <<>> /\ nand_data' = <<>>
                     /\ nand_read_cnt' = 0
-----------------------------------------------------------------------------
(* nand_write() with CLE *)

\* 0xff, or the first byte of a command: whatever was pending is dropped; the
\* assertions expect nothing, a finished read or a finished erase.
NothingHalfDone ==
    \/ nand_cmd = <<>>
    \/ Lens(1, 4, 0) /\ nand_cmd[1] \in ReadCommands
    \/ Lens(2, 3, 0) /\ nand_cmd[1] = EraseSetup

\* Mutant: the data of a program that was cut short stays in its queue.
StartCommandKeepsData(v) ==
    /\ v \in FirstCommands
    /\ \/ /\ Passes(NothingHalfDone)
          /\ nand_cmd' = IF v = ResetChip THEN <<>> ELSE <<v>>
          /\ nand_addr' = <<>> /\ nand_read_cnt' = 0
          /\ UNCHANGED <<nand_data, zeros, out, process>>
       \/ Aborts(NothingHalfDone)

StartCommand(v) ==
    /\ v \in FirstCommands
    /\ \/ /\ Passes(NothingHalfDone)
          /\ nand_cmd' = IF v = ResetChip THEN <<>> ELSE <<v>>
          /\ nand_addr' = <<>> /\ nand_data' = <<>> /\ nand_read_cnt' = 0
          /\ UNCHANGED <<zeros, out, process>>
       \/ Aborts(NothingHalfDone)

\* Mutant: the column is not checked against the start of the page.
ProgramAreaShifted(first, length) ==
    /\ Lens(2, 4, length) /\ nand_cmd[2] = ProgramSetup
    /\ zeros' = Programmed(PageOfAddr * PageLen + first + Column, nand_data)
    /\ clear_nand_status
    /\ UNCHANGED <<out, process>>

\* 0x10 after 0x00 or 0x50, 0x80, four address bytes and exactly an area's
\* length of data programs the area that starts at byte "first" of the page;
\* the assertions want column 0.
ProgramArea(first, length) ==
    LET legal == nand_cmd[2] = ProgramSetup /\ Column % PageLen = 0
    IN  /\ Lens(2, 4, length)
        /\ \/ /\ Passes(legal)
              /\ zeros' = Programmed(PageOfAddr * PageLen + first + Column, nand_data)
              /\ clear_nand_status
              /\ UNCHANGED <<out, process>>
           \/ Aborts(legal)

Programmable == /\ nand_cmd # <<>>
                /\ \/ Lens(2, 4, Spare) /\ nand_cmd[1] = ReadSpare
                   \/ Lens(2, 4, PageLen) /\ nand_cmd[1] = ReadLow

ProgramSpare == Programmable /\ nand_cmd[1] = ReadSpare /\ ProgramArea(Main, Spare)
ProgramPage == Programmable /\ nand_cmd[1] = ReadLow /\ ProgramArea(0, PageLen)

\* 0x10 in any other state: an assertion, or a Release build ignores the byte
\* and the queues keep what they hold.
ProgramUnexpected == /\ ~Programmable
                     /\ \/ Passes(FALSE) /\ UNCHANGED nandVars
                        \/ Aborts(FALSE)

\* 0xd0: without its three address bytes a Release build reads past the end of
\* the queue, so any row may be erased.
EraseBlock ==
    LET legal == /\ Lens(1, 3, 0) /\ nand_cmd[1] = EraseSetup
                 /\ RowOfAddr % BlockPages = 0
    IN  \/ /\ Passes(legal)
           /\ \E row \in IF Len(nand_addr) >= 3 THEN {RowOfAddr} ELSE 0 .. Pages - 1 :
                zeros' = zeros \ Run(row * PageLen, BlockPages * PageLen)
           /\ nand_cmd' = Append(nand_cmd, EraseConfirm)
           /\ nand_read_cnt' = nand_read_cnt + 1
           /\ UNCHANGED <<nand_addr, nand_data, out, process>>
        \/ Aborts(legal)

\* 0x80.
BeginProgram ==
    LET legal == /\ nand_cmd # <<>> /\ nand_cmd[1] \in {ReadLow, ReadSpare}
                 /\ nand_addr = <<>> /\ nand_data = <<>>
    IN  \/ /\ Passes(legal)
           /\ nand_cmd' = Append(nand_cmd, ProgramSetup)
           /\ UNCHANGED <<nand_addr, nand_data, nand_read_cnt, zeros, out, process>>
        \/ Aborts(legal)

write_cle(v) == \/ StartCommand(v)
                \/ v = ProgramConfirm /\ (ProgramSpare \/ ProgramPage \/ ProgramUnexpected)
                \/ v = EraseConfirm /\ EraseBlock
                \/ v = ProgramSetup /\ BeginProgram

\* With ALE: an address byte.
write_ale(v) ==
    \/ /\ Passes(nand_cmd # <<>>)
       /\ nand_addr' = Append(nand_addr, v)
       /\ UNCHANGED <<nand_cmd, nand_data, nand_read_cnt, zeros, out, process>>
    \/ Aborts(nand_cmd # <<>>)

\* With neither: a data byte.  The assertions' limits 22 and 534 are compared
\* with the length of the command queue, which data does not lengthen.
write_data(bit) ==
    LET legal == /\ Len(nand_cmd) >= 2 /\ nand_cmd[1] \in {ReadLow, ReadSpare}
                 /\ nand_cmd[2] = ProgramSetup
                 /\ Len(nand_cmd) < (IF nand_cmd[1] = ReadSpare THEN Spare + 6 ELSE PageLen + 6)
    IN  \/ /\ Passes(legal)
           /\ nand_data' = IF nand_cmd # <<>> THEN Append(nand_data, bit) ELSE nand_data
           /\ UNCHANGED <<nand_cmd, nand_addr, nand_read_cnt, zeros, out, process>>
        \/ Aborts(legal)

\* With CLE, a value that is no command: an assertion, after which a Release
\* build takes the byte for data.
WriteOther(v) == \/ Aborts(FALSE)
                 \/ /\ Passes(FALSE)
                    /\ \E bit \in {0, 1} : write_data(bit)
-----------------------------------------------------------------------------
(* read_nand() *)

IsStatus == Lens(1, 0, 0) /\ nand_cmd[1] = ReadStatus
IsId == Lens(1, 1, 0) /\ nand_cmd[1] = ReadId /\ nand_addr[1] = 0
IsRead == Lens(1, 4, 0) /\ nand_cmd[1] \in ReadCommands

ReadNothing == /\ process # "aborted" /\ nand_cmd = <<>>
               /\ out' = <<"ff", 1>>
               /\ UNCHANGED <<queues, zeros, process>>

ReadsStatus == /\ process # "aborted" /\ IsStatus
               /\ clear_nand_status
               /\ out' = <<"status", 0>>
               /\ UNCHANGED <<zeros, process>>

ReadsMaker == /\ process # "aborted" /\ IsId /\ nand_read_cnt = 0
              /\ nand_read_cnt' = 1
              /\ out' = <<"maker", 0>>
              /\ UNCHANGED <<nand_cmd, nand_addr, nand_data, zeros, process>>

ReadsDevice == /\ process # "aborted" /\ IsId /\ nand_read_cnt = 1
               /\ clear_nand_status
               /\ out' = <<"device", 0>>
               /\ UNCHANGED <<zeros, process>>

AreaStart == CASE nand_cmd[1] = ReadLow -> 0
               [] nand_cmd[1] = ReadHigh -> Half
               [] nand_cmd[1] = ReadSpare -> Main

\* The next byte of a read, which runs on into the following pages.
ReadCell == PageOfAddr * PageLen + AreaStart + Column + nand_read_cnt

ReadsData == /\ process # "aborted" /\ IsRead
             /\ ReadCell \in Cell
             /\ nand_read_cnt' = nand_read_cnt + 1
             /\ out' = <<"data", IF ReadCell \in zeros THEN 0 ELSE 1>>
             /\ UNCHANGED <<nand_cmd, nand_addr, nand_data, zeros, process>>

\* Anything else is an assertion.  A Release build returns some byte; after an
\* erase setup it falls off the end of the function, which an optimiser may
\* merge with the counting read above it.
ReadsUnexpected ==
    /\ nand_cmd # <<>> /\ ~IsStatus /\ ~IsId /\ ~IsRead
    /\ \/ /\ Passes(FALSE)
          /\ out' = <<"unexpected", 0>>
          /\ nand_read_cnt' \in nand_read_cnt .. nand_read_cnt + (IF nand_cmd[1] = EraseSetup THEN 1 ELSE 0)
          /\ UNCHANGED <<nand_cmd, nand_addr, nand_data, zeros, process>>
       \/ Aborts(FALSE)

read_nand == \/ ReadNothing \/ ReadsStatus \/ ReadsMaker \/ ReadsDevice \/ ReadsData
             \/ ReadsUnexpected
-----------------------------------------------------------------------------
CONSTANTS AddrBytes,    \* for each position of the address queue, the bytes sent
          OtherCommands,\* values sent with CLE that are no command
          MaxCmd,       \* bounds on the queues of a guest that goes on and on
          MaxData,
          MaxReads      \* bound on sequential reads

ASSUME GuestAssumption == /\ AddrBytes \in Seq(SUBSET (0 .. Base - 1))
                          /\ OtherCommands \subseteq 0 .. 255

\* A guest that sends anything in any order.  (Bound: it modifies the flash
\* once; what a modification may do depends on the content it starts from, so
\* the images stand for what earlier ones left.)
Fresh == zeros \in Images

GuestWritesCommand ==
    /\ Len(nand_cmd) < MaxCmd
    /\ \/ \E v \in FirstCommands : write_cle(v)
       \/ Fresh /\ \E v \in {ProgramSetup, ProgramConfirm, EraseConfirm} : write_cle(v)
       \/ Len(nand_data) < MaxData /\ \E v \in OtherCommands : WriteOther(v)

GuestWritesAddress == /\ Len(nand_addr) < Len(AddrBytes)
                      /\ \E v \in AddrBytes[Len(nand_addr) + 1] : write_ale(v)
GuestWritesData == Len(nand_data) < MaxData /\ \E bit \in {0, 1} : write_data(bit)
GuestReads == nand_read_cnt < MaxReads /\ read_nand

NandNext == GuestWritesCommand \/ GuestWritesAddress \/ GuestWritesData \/ GuestReads

NandSpec == NandInit /\ [][NandNext]_nandVars
-----------------------------------------------------------------------------
(* Properties *)

\* The queues hold bytes and every cell lies in the array.
NandTypeOK == /\ nand_cmd \in Seq(0 .. 255)
              /\ nand_addr \in Seq(0 .. Base - 1)
              /\ nand_data \in Seq({0, 1})
              /\ nand_read_cnt \in Nat
              /\ zeros \subseteq Cell
              /\ process \in Builds \cup {"aborted"}

\* Whatever bytes the guest sends, a build that checks its assertions behaves
\* as a flash chip: one whole page or one spare area is programmed at a time,
\* one aligned block erased.  (With forced erase a program replaces the page.)
Flash == INSTANCE FlashArray WITH
           ProgramUnits <- {Run(p * PageLen, PageLen) : p \in 0 .. Pages - 1}
                           \cup {Run(p * PageLen + Main, Spare) : p \in 0 .. Pages - 1},
           EraseUnits <- {Run(b * PageLen, BlockPages * PageLen) :
                            b \in {p \in 0 .. Pages - 1 : p % BlockPages = 0}},
           Overwrite <- ForcedErase
FlashPromise == Flash!Spec
=============================================================================
