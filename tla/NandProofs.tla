----------------------------- MODULE NandProofs -----------------------------
(***************************************************************************)
(* Proofs about the NAND for every geometry, image and guest: the queues   *)
(* and the array keep their types in every build, a build that checks its  *)
(* assertions is a flash chip, and the operations of the guest's system    *)
(* software do what it asked for, whatever was in the queues.              *)
(***************************************************************************)
EXTENDS NandDriver, SequenceTheorems, TLAPS

(* Rows and cells *)

LEMMA Geometry ==
    /\ Base \in Nat /\ Base > 0 /\ Main \in Nat /\ Main >= Base
    /\ PageLen \in Nat /\ PageLen > Main /\ Spare \in Nat /\ Spare > 0 /\ PageLen = Main + Spare
    /\ BlockPages \in Nat /\ BlockPages > 0 /\ ExtraPages \in Nat /\ ExtraPages >= BlockPages
    /\ Pages \in Nat /\ Pages > 0
<1>1. Main \in Nat /\ Main >= Base /\ Main > 0
  BY GeometryAssumption DEF Main
<1>2. Base * Base \in Nat /\ Base * Base > 0
  BY GeometryAssumption
<1> QED BY <1>1, <1>2, GeometryAssumption DEF PageLen, Pages

\* A greater factor gives a greater product.
LEMMA Monotone ==
    ASSUME NEW a \in Nat, NEW b \in Nat, a <= b, NEW k \in Nat
    PROVE  a * k <= b * k /\ a * k \in Nat /\ b * k \in Nat
OBVIOUS

\* Three address bytes, of which one bit of the last counts, make a row.
LEMMA RowInRange ==
    ASSUME NEW low \in 0 .. Base - 1, NEW middle \in 0 .. Base - 1, NEW high \in 0 .. 1
    PROVE  (high * Base + middle) * Base + low \in 0 .. Pages - 1
<1> USE Geometry
<1>1. high * Base + middle \in Nat /\ high * Base + middle <= 2 * Base - 1
  <2>1. high = 0 \/ high = 1
    OBVIOUS
  <2> QED BY <2>1
<1>2. (high * Base + middle) * Base <= (2 * Base - 1) * Base
  BY <1>1, Monotone
<1>3. (2 * Base - 1) * Base = 2 * Base * Base - Base /\ (high * Base + middle) * Base \in Nat
  BY <1>1, Monotone
<1> QED BY <1>1, <1>2, <1>3 DEF Pages

\* What begins in a page and is not longer than two ends in the array.
LEMMA InArray ==
    ASSUME NEW p \in 0 .. Pages - 1, NEW pages \in 1 .. ExtraPages + 1,
           NEW i \in 0 .. pages * PageLen - 1
    PROVE  p * PageLen + i \in Cell
<1> USE Geometry
<1>1. p + pages \in Nat /\ p + pages <= Pages + ExtraPages /\ p \in Nat /\ pages \in Nat
  OBVIOUS
<1>2. (p + pages) * PageLen <= (Pages + ExtraPages) * PageLen /\ p * PageLen \in Nat
  BY <1>1, Monotone
<1>3. (p + pages) * PageLen = p * PageLen + pages * PageLen /\ pages * PageLen \in Nat
  BY <1>1
<1>4. (Pages + ExtraPages) * PageLen \in Nat /\ (p + pages) * PageLen \in Nat
  BY <1>1
<1> HIDE Geometry
<1>5. i \in Nat /\ i < pages * PageLen
  BY <1>3
<1> QED BY <1>2, <1>3, <1>4, <1>5 DEF Cell

-----------------------------------------------------------------------------
(* The queues and the array *)

LEMMA AddressBytes ==
    ASSUME NandTypeOK, NEW i \in 1 .. Len(nand_addr)
    PROVE  nand_addr[i] \in 0 .. Base - 1 /\ nand_addr[i] % 2 \in 0 .. 1
<1>1. nand_addr[i] \in 0 .. Base - 1
  BY ElementOfSeq DEF NandTypeOK
<1> QED BY <1>1, Geometry

LEMMA RowIsPage ==
    ASSUME NandTypeOK, Len(nand_addr) >= 3
    PROVE  RowOfAddr \in 0 .. Pages - 1
<1>1. {1, 2, 3} \subseteq 1 .. Len(nand_addr)
  BY LenProperties DEF NandTypeOK
<1>2. nand_addr[1] \in 0 .. Base - 1 /\ nand_addr[2] \in 0 .. Base - 1 /\ nand_addr[3] % 2 \in 0 .. 1
  BY <1>1, AddressBytes
<1> QED BY <1>2, RowInRange DEF RowOfAddr

LEMMA PageIsPage ==
    ASSUME NandTypeOK, Len(nand_addr) = 4
    PROVE  PageOfAddr \in 0 .. Pages - 1 /\ Column \in 0 .. Base - 1
<1>1. {1, 2, 3, 4} \subseteq 1 .. Len(nand_addr)
  BY LenProperties DEF NandTypeOK
<1>2. /\ nand_addr[1] \in 0 .. Base - 1 /\ nand_addr[2] \in 0 .. Base - 1
      /\ nand_addr[3] \in 0 .. Base - 1 /\ nand_addr[4] % 2 \in 0 .. 1
  BY <1>1, AddressBytes
<1> QED BY <1>2, RowInRange DEF PageOfAddr, Column

\* Programming changes nothing outside the bytes it programs, and sets bits
\* only when an erase is forced.
LEMMA ProgrammedRun ==
    ASSUME NEW first \in Nat, NEW bits \in Seq({0, 1})
    PROVE  /\ Programmed(first, bits) \subseteq zeros \cup Run(first, Len(bits))
           /\ Programmed(first, bits) \ Run(first, Len(bits)) = zeros \ Run(first, Len(bits))
           /\ ForcedErase \/ zeros \subseteq Programmed(first, bits)
<1> DEFINE cleared == {first + i - 1 : i \in {j \in 1 .. Len(bits) : bits[j] = 0}}
           run == Run(first, Len(bits))
<1>1. cleared \subseteq run
  <2>1. Len(bits) \in Nat
    BY LenProperties
  <2>2. ASSUME NEW j \in 1 .. Len(bits) PROVE first + j - 1 \in first .. first + Len(bits) - 1
    BY <2>1
  <2> QED BY <2>2 DEF Run
<1>2. Programmed(first, bits) = (IF ForcedErase THEN zeros \ run ELSE zeros) \cup cleared
  BY DEF Programmed
<1> HIDE DEF cleared, run
<1>3. CASE ForcedErase
  BY <1>1, <1>2, <1>3 DEF run
<1>4. CASE ~ForcedErase
  BY <1>1, <1>2, <1>4 DEF run
<1> QED BY <1>3, <1>4

LEMMA NandInitType == NandInit => NandTypeOK
BY ImagesAssumption, EmptySeq DEF NandInit, NandTypeOK

\* A program that the queues ask for stays within the array, wherever in its
\* page the column lets it begin.
LEMMA ProgramType ==
    ASSUME NandTypeOK, NEW first \in {0, Main},
           NEW length \in 1 .. PageLen, first = 0 \/ length = Spare, ProgramArea(first, length)
    PROVE  NandTypeOK'
<1> USE Geometry
<1>1. Len(nand_addr) = 4 /\ Len(nand_data) = length /\ nand_data \in Seq({0, 1})
  BY DEF ProgramArea, Lens, NandTypeOK
<1>2. CASE Aborts(nand_cmd[2] = ProgramSetup /\ Column % PageLen = 0)
  BY <1>2 DEF Aborts, NandTypeOK, queues
<1>3. CASE ~Aborts(nand_cmd[2] = ProgramSetup /\ Column % PageLen = 0)
  <2>1. /\ zeros' = Programmed(PageOfAddr * PageLen + first + Column, nand_data)
        /\ clear_nand_status /\ process' = process
    BY <1>3 DEF ProgramArea
  <2>2. PageOfAddr \in 0 .. Pages - 1 /\ Column \in 0 .. Base - 1
    BY <1>1, PageIsPage
  <2>3. PageOfAddr * PageLen \in Nat
    BY <2>2, Monotone
  <2> DEFINE begin == PageOfAddr * PageLen + first + Column
  <2>4. begin \in Nat
    BY <2>2, <2>3
  <2>5. Run(begin, length) \subseteq Cell
    <3> SUFFICES ASSUME NEW c \in Run(begin, length) PROVE c \in Cell
      OBVIOUS
    <3>1. c \in Nat /\ c >= begin /\ c <= begin + length - 1
      BY <2>4 DEF Run
    <3> DEFINE i == c - PageOfAddr * PageLen
    <3>2. i \in 0 .. 2 * PageLen - 1
      BY <2>2, <2>3, <3>1
    <3>3. 2 \in 1 .. ExtraPages + 1
      OBVIOUS
    <3>4. PageOfAddr * PageLen + i \in Cell
      BY <2>2, <3>2, <3>3, InArray
    <3> QED BY <2>3, <3>1, <3>4
  <2>6. zeros' \subseteq Cell
    BY <1>1, <2>1, <2>4, <2>5, ProgrammedRun DEF NandTypeOK
  <2> QED BY <2>1, <2>6, EmptySeq DEF clear_nand_status, NandTypeOK
<1> QED BY <1>2, <1>3

\* What an assertion that fails leaves: everything but the process.
Stopped == process = "debug" /\ process' = "aborted" /\ UNCHANGED <<queues, zeros, out>>

LEMMA AbortStops == \A condition : Aborts(condition) => Stopped
BY DEF Aborts, Stopped

LEMMA StoppedType == NandTypeOK /\ Stopped => NandTypeOK'
BY DEF Stopped, NandTypeOK, queues

\* Bytes of the queues.
LEMMA CommandBytes ==
    /\ FirstCommands \cup {ProgramSetup, ProgramConfirm, EraseConfirm} \subseteq 0 .. 255
    /\ \A v \in FirstCommands : <<v>> \in Seq(0 .. 255)
BY DEF FirstCommands, ReadCommands, ReadLow, ReadHigh, ReadSpare, EraseSetup, ReadStatus, ReadId,
       ResetChip, ProgramConfirm, ProgramSetup, EraseConfirm

LEMMA Appended ==
    ASSUME NandTypeOK
    PROVE  /\ Append(nand_cmd, ProgramSetup) \in Seq(0 .. 255)
           /\ Append(nand_cmd, EraseConfirm) \in Seq(0 .. 255)
           /\ \A v \in 0 .. Base - 1 : Append(nand_addr, v) \in Seq(0 .. Base - 1)
           /\ \A bit \in {0, 1} : Append(nand_data, bit) \in Seq({0, 1})
<1>1. ProgramSetup \in 0 .. 255 /\ EraseConfirm \in 0 .. 255
  BY CommandBytes
<1> QED BY <1>1, AppendProperties DEF NandTypeOK

LEMMA StartType ==
    ASSUME NandTypeOK, NEW v \in FirstCommands, StartCommand(v)
    PROVE  NandTypeOK'
<1>1. CASE Aborts(NothingHalfDone)
  BY <1>1 DEF Aborts, NandTypeOK, queues
<1>2. CASE ~Aborts(NothingHalfDone)
  <2>1. /\ nand_cmd' = IF v = ResetChip THEN <<>> ELSE <<v>>
        /\ nand_addr' = <<>> /\ nand_data' = <<>> /\ nand_read_cnt' = 0
        /\ UNCHANGED <<zeros, out, process>>
    BY <1>2 DEF StartCommand
  <2> QED BY <2>1, CommandBytes, EmptySeq DEF NandTypeOK
<1> QED BY <1>1, <1>2

LEMMA EraseType == ASSUME NandTypeOK, EraseBlock PROVE NandTypeOK'
<1>1. CASE Stopped
  BY <1>1, StoppedType
<1>2. CASE ~Stopped
  <2>1. zeros' \subseteq zeros /\ nand_cmd' = Append(nand_cmd, EraseConfirm)
        /\ nand_read_cnt' = nand_read_cnt + 1 /\ UNCHANGED <<nand_addr, nand_data, process>>
    BY <1>2, AbortStops DEF EraseBlock
  <2> QED BY <2>1, Appended DEF NandTypeOK
<1> QED BY <1>1, <1>2

LEMMA QueueType ==
    ASSUME NandTypeOK
    PROVE  /\ BeginProgram => NandTypeOK'
           /\ ProgramUnexpected => NandTypeOK'
           /\ \A v \in 0 .. Base - 1 : write_ale(v) => NandTypeOK'
           /\ \A bit \in {0, 1} : write_data(bit) => NandTypeOK'
<1>1. ASSUME BeginProgram PROVE NandTypeOK'
  <2>1. \/ Stopped
        \/ /\ nand_cmd' = Append(nand_cmd, ProgramSetup)
           /\ UNCHANGED <<nand_addr, nand_data, nand_read_cnt, zeros, process>>
    BY <1>1, AbortStops DEF BeginProgram
  <2> QED BY <2>1, StoppedType, Appended DEF NandTypeOK
<1>2. ASSUME ProgramUnexpected PROVE NandTypeOK'
  <2>1. Stopped \/ UNCHANGED nandVars
    BY <1>2, AbortStops DEF ProgramUnexpected
  <2> QED BY <2>1, StoppedType DEF nandVars, NandTypeOK
<1>3. ASSUME NEW v \in 0 .. Base - 1, write_ale(v) PROVE NandTypeOK'
  <2>1. \/ Stopped
        \/ /\ nand_addr' = Append(nand_addr, v)
           /\ UNCHANGED <<nand_cmd, nand_data, nand_read_cnt, zeros, process>>
    BY <1>3, AbortStops DEF write_ale
  <2> QED BY <2>1, StoppedType, Appended DEF NandTypeOK
<1>4. ASSUME NEW bit \in {0, 1}, write_data(bit) PROVE NandTypeOK'
  <2>1. \/ Stopped
        \/ /\ nand_data' = nand_data \/ nand_data' = Append(nand_data, bit)
           /\ UNCHANGED <<nand_cmd, nand_addr, nand_read_cnt, zeros, process>>
    BY <1>4, AbortStops DEF write_data
  <2> QED BY <2>1, StoppedType, Appended DEF NandTypeOK
<1> QED BY <1>1, <1>2, <1>3, <1>4

LEMMA ReadType == ASSUME NandTypeOK, read_nand PROVE NandTypeOK'
<1>1. nand_read_cnt \in Nat
  BY DEF NandTypeOK
<1>2. \/ Stopped
      \/ clear_nand_status /\ UNCHANGED <<zeros, process>>
      \/ /\ nand_read_cnt' \in nand_read_cnt .. nand_read_cnt + 1
         /\ UNCHANGED <<nand_cmd, nand_addr, nand_data, zeros, process>>
  <2>1. CASE ReadNothing \/ ReadsMaker \/ ReadsData
    BY <1>1, <2>1 DEF ReadNothing, ReadsMaker, ReadsData, queues
  <2>2. CASE ReadsStatus \/ ReadsDevice
    BY <2>2 DEF ReadsStatus, ReadsDevice
  <2>3. CASE ReadsUnexpected
    <3>1. \/ Stopped
          \/ /\ nand_read_cnt' \in nand_read_cnt .. nand_read_cnt
                                    + (IF nand_cmd[1] = EraseSetup THEN 1 ELSE 0)
             /\ UNCHANGED <<nand_cmd, nand_addr, nand_data, zeros, process>>
      BY <2>3, AbortStops DEF ReadsUnexpected
    <3> QED BY <1>1, <3>1
  <2> QED BY <2>1, <2>2, <2>3 DEF read_nand
<1>3. ASSUME clear_nand_status, UNCHANGED <<zeros, process>> PROVE NandTypeOK'
  BY <1>3, EmptySeq DEF clear_nand_status, NandTypeOK
<1>4. ASSUME nand_read_cnt' \in nand_read_cnt .. nand_read_cnt + 1,
             UNCHANGED <<nand_cmd, nand_addr, nand_data, zeros, process>>
      PROVE  NandTypeOK'
  BY <1>1, <1>4 DEF NandTypeOK
<1> QED BY <1>2, <1>3, <1>4, StoppedType

\* The guest's commands, as the handlers of nand_write() take them.
LEMMA CommandHandlers ==
    ASSUME GuestWritesCommand
    PROVE  \/ \E v \in FirstCommands : StartCommand(v)
           \/ ProgramSpare \/ ProgramPage \/ ProgramUnexpected \/ EraseBlock \/ BeginProgram
           \/ \E bit \in {0, 1} : write_data(bit)
           \/ Stopped
<1>1. CASE \E v \in FirstCommands \cup {ProgramSetup, ProgramConfirm, EraseConfirm} : write_cle(v)
  BY <1>1 DEF write_cle, StartCommand
<1>2. CASE \E v \in OtherCommands : WriteOther(v)
  BY <1>2, AbortStops DEF WriteOther
<1> QED BY <1>1, <1>2 DEF GuestWritesCommand

LEMMA AddressHandlers ==
    ASSUME GuestWritesAddress, NandTypeOK PROVE \E v \in 0 .. Base - 1 : write_ale(v)
<1>1. Len(nand_addr) + 1 \in 1 .. Len(AddrBytes)
  BY LenProperties, GuestAssumption DEF GuestWritesAddress, NandTypeOK
<1>2. AddrBytes[Len(nand_addr) + 1] \in SUBSET (0 .. Base - 1)
  BY <1>1, GuestAssumption, ElementOfSeq
<1> QED BY <1>2 DEF GuestWritesAddress

LEMMA NandStepType == ASSUME NandTypeOK, [NandNext]_nandVars PROVE NandTypeOK'
<1>1. CASE GuestWritesCommand
  <2>1. CASE ProgramSpare
    BY <2>1, ProgramType, Geometry DEF ProgramSpare
  <2>2. CASE ProgramPage
    BY <2>2, ProgramType, Geometry DEF ProgramPage
  <2>3. CASE Stopped
    BY <2>3, StoppedType
  <2> QED BY <1>1, <2>1, <2>2, <2>3, CommandHandlers, StartType, EraseType, QueueType
<1>2. CASE GuestWritesAddress
  BY <1>2, AddressHandlers, QueueType
<1>3. CASE GuestWritesData \/ GuestReads
  BY <1>3, QueueType, ReadType DEF GuestWritesData, GuestReads
<1>4. CASE UNCHANGED nandVars
  BY <1>4 DEF nandVars, NandTypeOK
<1> QED BY <1>1, <1>2, <1>3, <1>4 DEF NandNext

\* Whatever bytes arrive in whatever order, and whether or not the build checks
\* its assertions, the array is written within its bounds.
THEOREM NandTypeCorrect == NandSpec => []NandTypeOK
<1> QED BY NandInitType, NandStepType, PTL DEF NandSpec

-----------------------------------------------------------------------------
(* A checked build as a flash chip *)

LEMMA CheckedProgram ==
    ASSUME NandTypeOK, process = "debug", NEW first \in {0, Main}, NEW length \in 1 .. PageLen,
           ProgramArea(first, length), NEW units,
           \A p \in 0 .. Pages - 1 : Run(p * PageLen + first, length) \in units
    PROVE  \/ zeros' = zeros
           \/ \E unit \in units : /\ zeros' \ unit = zeros \ unit
                                  /\ ForcedErase \/ zeros \subseteq zeros'
<1> USE Geometry
<1>1. Len(nand_addr) = 4 /\ Len(nand_data) = length /\ nand_data \in Seq({0, 1})
  BY DEF ProgramArea, Lens, NandTypeOK
<1>2. PageOfAddr \in 0 .. Pages - 1 /\ Column \in 0 .. Base - 1
  BY <1>1, PageIsPage
<1>3. CASE Aborts(nand_cmd[2] = ProgramSetup /\ Column % PageLen = 0)
  BY <1>3 DEF Aborts
<1>4. CASE ~Aborts(nand_cmd[2] = ProgramSetup /\ Column % PageLen = 0)
  <2>1. /\ Column % PageLen = 0
        /\ zeros' = Programmed(PageOfAddr * PageLen + first + Column, nand_data)
    BY <1>4 DEF ProgramArea, Passes
  <2>2. Column = 0
    <3>1. Column < PageLen
      BY <1>2
    <3> QED BY <1>2, <2>1, <3>1
  <2>3. PageOfAddr * PageLen + first \in Nat
    BY <1>2, Monotone
  <2>4. PageOfAddr * PageLen + first + Column = PageOfAddr * PageLen + first
    BY <2>2, <2>3
  <2> DEFINE unit == Run(PageOfAddr * PageLen + first, length)
  <2>5. zeros' \ unit = zeros \ unit /\ (ForcedErase \/ zeros \subseteq zeros')
    BY <1>1, <2>1, <2>3, <2>4, ProgrammedRun
  <2>6. unit \in units
    BY <1>2
  <2> QED BY <2>5, <2>6
<1> QED BY <1>3, <1>4

LEMMA CheckedErase ==
    ASSUME NandTypeOK, process = "debug", EraseBlock
    PROVE  \/ zeros' = zeros
           \/ \E b \in {p \in 0 .. Pages - 1 : p % BlockPages = 0} :
                zeros' = zeros \ Run(b * PageLen, BlockPages * PageLen)
<1> DEFINE legal == Lens(1, 3, 0) /\ nand_cmd[1] = EraseSetup /\ RowOfAddr % BlockPages = 0
<1>1. CASE Aborts(legal)
  BY <1>1 DEF Aborts
<1>2. CASE ~Aborts(legal)
  <2>1. legal /\ Len(nand_addr) >= 3
    <3>1. legal
      BY <1>2 DEF EraseBlock, Passes
    <3> QED BY <3>1 DEF Lens
  <2>2. zeros' = zeros \ Run(RowOfAddr * PageLen, BlockPages * PageLen)
    BY <1>2, <2>1 DEF EraseBlock
  <2>3. RowOfAddr \in 0 .. Pages - 1
    BY <2>1, RowIsPage
  <2> QED BY <2>1, <2>2, <2>3
<1> QED BY <1>1, <1>2

\* The other handlers leave the array alone.
LEMMA ArrayLeftAlone ==
    ASSUME \/ \E v \in FirstCommands : StartCommand(v)
           \/ BeginProgram \/ ProgramUnexpected \/ Stopped
           \/ \E v : write_ale(v)
           \/ \E bit : write_data(bit)
           \/ read_nand
    PROVE  zeros' = zeros
BY DEF StartCommand, BeginProgram, ProgramUnexpected, write_ale, write_data, Aborts, Stopped,
       read_nand, ReadNothing, ReadsMaker, ReadsData, ReadsStatus, ReadsDevice, ReadsUnexpected,
       nandVars

\* Once an assertion has failed there is no program any more.
LEMMA NoneAborted ==
    ASSUME process = "aborted"
    PROVE  /\ \A v : ~StartCommand(v) /\ ~write_ale(v) /\ ~write_data(v)
           /\ ~ProgramSpare /\ ~ProgramPage /\ ~ProgramUnexpected /\ ~EraseBlock
           /\ ~BeginProgram /\ ~read_nand /\ ~Stopped
BY DEF StartCommand, Stopped, ProgramSpare, ProgramPage, ProgramArea, ProgramUnexpected, EraseBlock,
       BeginProgram, write_ale, write_data, Aborts, Passes, read_nand,
       ReadNothing, ReadsMaker, ReadsData, ReadsStatus, ReadsDevice, ReadsUnexpected

\* A build that checks its assertions programs one whole page or spare area at
\* a time and erases one aligned block at a time, whatever the guest sends.
THEOREM CheckedBuildIsFlash == ASSUME Builds = {"debug"} PROVE NandSpec => FlashPromise
<1>1. NandInit => Flash!Init
  BY ImagesAssumption DEF NandInit, Flash!Init
<1>2. ASSUME NandTypeOK, NandTypeOK', [NandNext]_nandVars PROVE [Flash!Next]_zeros
  <2> USE Geometry, <1>2
  <2>1. zeros' \in SUBSET Cell
    BY DEF NandTypeOK
  <2>2. CASE ProgramPage \/ ProgramSpare
    <3>1. process = "debug"
      BY <2>2, NoneAborted DEF NandTypeOK
    <3> DEFINE units == {Run(p * PageLen, PageLen) : p \in 0 .. Pages - 1}
                          \cup {Run(p * PageLen + Main, Spare) : p \in 0 .. Pages - 1}
    <3>2. \/ zeros' = zeros
          \/ \E unit \in units : zeros' \ unit = zeros \ unit /\ (ForcedErase \/ zeros \subseteq zeros')
      <4>1. CASE ProgramPage
        <5>1. \A p \in 0 .. Pages - 1 : Run(p * PageLen + 0, PageLen) \in units
          <6>1. \A p \in 0 .. Pages - 1 : p * PageLen + 0 = p * PageLen
            OBVIOUS
          <6> QED BY <6>1
        <5> HIDE DEF units
        <5>2. ProgramArea(0, PageLen) /\ PageLen \in 1 .. PageLen
          BY <4>1 DEF ProgramPage
        <5> QED BY <3>1, <5>1, <5>2, CheckedProgram
      <4>2. CASE ProgramSpare
        <5>1. \A p \in 0 .. Pages - 1 : Run(p * PageLen + Main, Spare) \in units
          OBVIOUS
        <5> HIDE DEF units
        <5>2. ProgramArea(Main, Spare) /\ Spare \in 1 .. PageLen
          BY <4>2 DEF ProgramSpare
        <5> QED BY <3>1, <5>1, <5>2, CheckedProgram
      <4> QED BY <2>2, <4>1, <4>2
    <3> QED BY <2>1, <3>2 DEF Flash!Next, Flash!Program
  <2>3. CASE EraseBlock
    <3>1. process = "debug"
      BY <2>3, NoneAborted DEF NandTypeOK
    <3> QED BY <2>3, <3>1, CheckedErase DEF Flash!Next, Flash!Erase
  <2>4. CASE GuestWritesAddress \/ GuestWritesData \/ GuestReads
    BY <2>4, ArrayLeftAlone DEF GuestWritesAddress, GuestWritesData, GuestReads
  <2>5. CASE GuestWritesCommand
    BY <2>2, <2>3, <2>5, CommandHandlers, ArrayLeftAlone
  <2>6. CASE UNCHANGED nandVars
    BY <2>6 DEF nandVars
  <2> QED BY <2>4, <2>5, <2>6 DEF NandNext
<1> QED BY <1>1, <1>2, NandTypeCorrect, PTL DEF NandSpec, FlashPromise, Flash!Spec

-----------------------------------------------------------------------------
(* The bus cycles of an operation *)

LEMMA Quotient ==
    ASSUME NEW k \in Nat, k > 0, NEW d \in Nat, NEW r \in 0 .. k - 1
    PROVE  (d * k + r) \div k = d /\ (d * k + r) % k = r
OBVIOUS

LEMMA Division ==
    ASSUME NEW m \in Nat, NEW k \in Nat, k > 0
    PROVE  m \div k \in Nat /\ m % k \in 0 .. k - 1 /\ m = (m \div k) * k + (m % k)
<1>1. m \div k \in Nat
  OBVIOUS
<1>2. m % k \in 0 .. k - 1
  OBVIOUS
<1>3. m % k = m - k * (m \div k)
  OBVIOUS
<1> DEFINE q == m \div k
           r == m % k
<1> HIDE DEF q, r
<1>4. q \in Nat /\ r \in 0 .. k - 1 /\ r = m - k * q
  BY <1>1, <1>2, <1>3 DEF q, r
<1>5. k * q = q * k /\ k * q \in Int
  BY <1>4
<1>6. m = q * k + r
  BY <1>4, <1>5
<1> QED BY <1>4, <1>6 DEF q, r

\* The three bytes of a row number make the row number.
LEMMA RowNumber ==
    ASSUME NEW page \in 0 .. Pages - 1
    PROVE  /\ page % Base \in 0 .. Base - 1 /\ (page \div Base) % Base \in 0 .. Base - 1
           /\ page \div (Base * Base) \in 0 .. 1
           /\ ((page \div (Base * Base)) * Base + ((page \div Base) % Base)) * Base + (page % Base) = page
<1> DEFINE q == page \div Base
           low == page % Base
           middle == q % Base
           high == q \div Base
<1>1. /\ q \in Nat /\ low \in 0 .. Base - 1 /\ page = q * Base + low
      /\ middle \in 0 .. Base - 1 /\ high \in Nat /\ q = high * Base + middle
  <2>1. page \in Nat
    BY Geometry
  <2>2. q \in Nat /\ low \in 0 .. Base - 1 /\ page = q * Base + low
    BY <2>1, Geometry, Division
  <2> HIDE DEF q
  <2>3. middle \in 0 .. Base - 1 /\ high \in Nat /\ q = high * Base + middle
    BY <2>2, Geometry, Division
  <2> QED BY <2>2, <2>3
<1> HIDE DEF q, low, middle, high
<1>2. page < 2 * Base * Base
  BY Geometry DEF Pages
<1>3. q < 2 * Base
  <2> SUFFICES ASSUME q >= 2 * Base PROVE FALSE
    BY <1>1, Geometry
  <2>1. q * Base >= (2 * Base) * Base
    BY <1>1, Geometry, Monotone
  <2> QED BY <1>1, <1>2, <2>1, Geometry
<1>4. high < 2
  <2> SUFFICES ASSUME high >= 2 PROVE FALSE
    BY <1>1
  <2>1. high * Base >= 2 * Base
    BY <1>1, Geometry, Monotone
  <2> QED BY <1>1, <1>3, <2>1, Geometry
<1>5. page \div (Base * Base) = high
  <2>1. high = 0 \/ high = 1
    BY <1>1, <1>4
  <2>2. page = high * (Base * Base) + (middle * Base + low)
    BY <1>1, <2>1, Geometry
  <2>3. middle * Base + low \in 0 .. Base * Base - 1
    <3>1. middle * Base <= (Base - 1) * Base /\ middle * Base \in Nat
      BY <1>1, Geometry, Monotone
    <3>2. (Base - 1) * Base = Base * Base - Base
      BY Geometry
    <3> QED BY <1>1, <3>1, <3>2, Geometry
  <2>4. Base * Base \in Nat /\ Base * Base > 0
    BY Geometry
  <2> QED BY <1>1, <2>2, <2>3, <2>4, Quotient
<1>6. high \in 0 .. 1 /\ (high * Base + middle) * Base + low = page
  BY <1>1, <1>4
<1> QED BY <1>1, <1>5, <1>6 DEF q, low, middle, high

LEMMA Remaining ==
    ASSUME NEW S, NEW c \in Seq(S), NEW n \in 0 .. Len(c)
    PROVE  LET left == SubSeq(c, n + 1, Len(c))
           IN  /\ left = <<>> <=> n = Len(c)
               /\ Len(left) = Len(c) - n
               /\ n < Len(c) => Head(left) = c[n + 1] /\ Tail(left) = SubSeq(c, n + 2, Len(c))
<1> DEFINE left == SubSeq(c, n + 1, Len(c))
<1>1. Len(c) \in Nat
  BY LenProperties
<1>2. left \in Seq(S) /\ Len(left) = Len(c) - n
  <2>1. \A i \in n + 1 .. Len(c) : c[i] \in S
    BY <1>1, ElementOfSeq
  <2> QED BY <1>1, <2>1, SubSeqProperties
<1>3. n < Len(c) => Head(left) = c[n + 1] /\ Tail(left) = SubSeq(c, n + 2, Len(c))
  <2> SUFFICES ASSUME n < Len(c) PROVE Head(left) = c[n + 1] /\ Tail(left) = SubSeq(c, n + 2, Len(c))
    OBVIOUS
  <2>1. n + 1 \in 1 .. Len(c) /\ Len(c) \in n + 1 .. Len(c)
    BY <1>1
  <2>2. (n + 1) + 1 = n + 2
    OBVIOUS
  <2> QED BY <2>1, <2>2, HeadTailOfSubSeq
<1> HIDE DEF left
<1>4. left = <<>> <=> Len(left) = 0
  BY <1>2, EmptySeq
<1> QED BY <1>1, <1>2, <1>3, <1>4 DEF left

Bus == {"CLE", "ALE", "data", "read"} \X Nat

LEMMA Joined ==
    ASSUME NEW a \in Seq(Bus), NEW b \in Seq(Bus)
    PROVE  /\ a \o b \in Seq(Bus) /\ Len(a \o b) = Len(a) + Len(b)
           /\ \A i \in 1 .. Len(a) : (a \o b)[i] = a[i]
           /\ \A i \in 1 .. Len(b) : (a \o b)[Len(a) + i] = b[i]
<1>1. Len(a) \in Nat /\ Len(b) \in Nat
  BY LenProperties
<1> QED BY <1>1, ConcatProperties

LEMMA RowCycles ==
    ASSUME NEW page \in 0 .. Pages - 1
    PROVE  /\ RowBytes(page) \in Seq(Bus) /\ Len(RowBytes(page)) = 3 /\ Len(Row(page)) = 3
           /\ \A i \in 1 .. 3 : Row(page)[i] \in Nat /\ RowBytes(page)[i] = Ale(Row(page)[i])
<1> DEFINE low == page % Base
           middle == (page \div Base) % Base
           high == page \div (Base * Base)
<1>1. low \in Nat /\ middle \in Nat /\ high \in Nat
  BY RowNumber, Geometry
<1>2. RowBytes(page) = <<Ale(low), Ale(middle), Ale(high)>> /\ Row(page) = <<low, middle, high>>
  BY DEF RowBytes, Row
<1> HIDE DEF low, middle, high
<1>3. Ale(low) \in Bus /\ Ale(middle) \in Bus /\ Ale(high) \in Bus
  BY <1>1 DEF Ale, Bus
<1> QED BY <1>1, <1>2, <1>3

LEMMA DataCycles ==
    ASSUME NEW n \in Nat
    PROVE  /\ DataOut(n) \in Seq(Bus) /\ Len(DataOut(n)) = n
           /\ \A i \in 1 .. n : DataOut(n)[i] = <<"read", 0>>
           /\ \A bits \in [1 .. n -> {0, 1}] :
                /\ Len(bits) = n
                /\ DataIn(bits) \in Seq(Bus) /\ Len(DataIn(bits)) = n
                /\ \A i \in 1 .. n : DataIn(bits)[i] = <<"data", bits[i]>> /\ bits[i] \in Nat
<1>1. ASSUME NEW f \in [1 .. n -> Bus] PROVE f \in Seq(Bus) /\ Len(f) = n
  OBVIOUS
<1>2. DataOut(n) \in [1 .. n -> Bus]
  BY DEF DataOut, Bus
<1>3. ASSUME NEW bits \in [1 .. n -> {0, 1}]
      PROVE  Len(bits) = n /\ DataIn(bits) = [i \in 1 .. n |-> <<"data", bits[i]>>]
  BY DEF DataIn
<1>4. ASSUME NEW bits \in [1 .. n -> {0, 1}]
      PROVE  DataIn(bits) \in [1 .. n -> Bus]
  BY <1>3 DEF Bus
<1>5. \A i \in 1 .. n : DataOut(n)[i] = <<"read", 0>>
  BY DEF DataOut
<1>6. DataOut(n) \in Seq(Bus) /\ Len(DataOut(n)) = n
  BY <1>1, <1>2
<1>7. ASSUME NEW bits \in [1 .. n -> {0, 1}]
      PROVE  /\ DataIn(bits) \in Seq(Bus) /\ Len(DataIn(bits)) = n
             /\ \A i \in 1 .. n : DataIn(bits)[i] = <<"data", bits[i]>> /\ bits[i] \in Nat
  <2>1. DataIn(bits) \in Seq(Bus) /\ Len(DataIn(bits)) = n
    BY <1>1, <1>4
  <2> QED BY <1>3, <2>1
<1> QED BY <1>3, <1>5, <1>6, <1>7

LEMMA CommandValues ==
    /\ \A v \in FirstCommands : v \in Nat
    /\ ProgramSetup \in Nat /\ ProgramConfirm \in Nat /\ EraseConfirm \in Nat
    /\ ReadCommands \subseteq FirstCommands
    /\ {EraseSetup, ReadStatus, ReadId, ResetChip} \subseteq FirstCommands
    /\ FirstCommands \cap {ProgramSetup, ProgramConfirm, EraseConfirm} = {}
    /\ ResetChip \notin ReadCommands \cup {EraseSetup, ReadStatus, ReadId}
    /\ ReadCommands \cap {EraseSetup, ReadStatus, ReadId} = {}
    /\ EraseSetup # ReadStatus /\ EraseSetup # ReadId /\ ReadStatus # ReadId
    /\ ProgramSetup # ProgramConfirm /\ ProgramSetup # EraseConfirm /\ ProgramConfirm # EraseConfirm
    /\ ReadLow # ReadSpare /\ ReadLow # ReadHigh /\ ReadHigh # ReadSpare
    /\ ReadCommands = {ReadLow, ReadHigh, ReadSpare}
BY DEF FirstCommands, ReadCommands, ReadLow, ReadHigh, ReadSpare, EraseSetup, ReadStatus, ReadId,
       ResetChip, ProgramConfirm, ProgramSetup, EraseConfirm

\* The NAND's commands as cycles of the bus.
LEMMA CommandCycles ==
    /\ \A v \in Nat : Cle(v) \in Bus /\ Ale(v) \in Bus
    /\ \A v \in Nat : <<Cle(v)>> \in Seq(Bus) /\ Len(<<Cle(v)>>) = 1 /\ <<Cle(v)>>[1] = Cle(v)
BY DEF Cle, Ale, Bus

LEMMA StatusIs ==
    /\ StatusCycles \in Seq(Bus) /\ Len(StatusCycles) = 2
    /\ StatusCycles[1] = Cle(ReadStatus) /\ StatusCycles[2] = <<"read", 0>>
<1>1. /\ <<Cle(ReadStatus)>> \in Seq(Bus) /\ Len(<<Cle(ReadStatus)>>) = 1
      /\ <<Cle(ReadStatus)>>[1] = Cle(ReadStatus)
  BY CommandCycles, CommandValues
<1>2. DataOut(1) \in Seq(Bus) /\ Len(DataOut(1)) = 1 /\ DataOut(1)[1] = <<"read", 0>>
  <2>1. /\ DataOut(1) \in Seq(Bus) /\ Len(DataOut(1)) = 1
        /\ \A i \in 1 .. 1 : DataOut(1)[i] = <<"read", 0>>
    BY DataCycles
  <2> QED BY <2>1
<1>3. 1 + 1 = 2
  OBVIOUS
<1> QED BY <1>1, <1>2, <1>3, Joined DEF StatusCycles

LEMMA ReadCycles ==
    ASSUME NEW o, o.kind = "read", o.page \in 0 .. Pages - 1, o.area \in ReadCommands,
           o.column \in Nat, o.length \in Nat
    PROVE  /\ Cycles(o) \in Seq(Bus) /\ Len(Cycles(o)) = 5 + o.length
           /\ Cycles(o)[1] = Cle(o.area)
           /\ \A i \in 1 .. 4 : /\ Cycles(o)[i + 1] = Ale(Address(o.column, o.page)[i])
                                /\ Address(o.column, o.page)[i] \in Nat
           /\ \A i \in 1 .. o.length : Cycles(o)[5 + i] = <<"read", 0>>
<1> DEFINE begin == <<Cle(o.area), Ale(o.column)>>
           rows == RowBytes(o.page)
           reads == DataOut(o.length)
           address == Address(o.column, o.page)
<1>1. Cycles(o) = (begin \o rows) \o reads
  BY DEF Cycles
<1>2. begin \in Seq(Bus) /\ Len(begin) = 2 /\ begin[1] = Cle(o.area) /\ begin[2] = Ale(o.column)
  <2>1. Cle(o.area) \in Bus /\ Ale(o.column) \in Bus
    BY CommandCycles, CommandValues
  <2> QED BY <2>1
<1>3. /\ address[1] = o.column /\ address[2] = Row(o.page)[1]
      /\ address[3] = Row(o.page)[2] /\ address[4] = Row(o.page)[3]
  BY DEF Address
<1>4. /\ rows \in Seq(Bus) /\ Len(rows) = 3 /\ rows[1] = Ale(address[2]) /\ rows[2] = Ale(address[3])
      /\ rows[3] = Ale(address[4]) /\ \A i \in 1 .. 4 : address[i] \in Nat
  <2>1. /\ rows \in Seq(Bus) /\ Len(rows) = 3
        /\ \A i \in {1, 2, 3} : Row(o.page)[i] \in Nat /\ rows[i] = Ale(Row(o.page)[i])
    BY RowCycles
  <2> HIDE DEF address
  <2> QED BY <1>3, <2>1
<1>5. /\ reads \in Seq(Bus) /\ Len(reads) = o.length
      /\ \A i \in 1 .. o.length : reads[i] = <<"read", 0>>
  BY DataCycles
<1> DEFINE first == begin \o rows
<1>6. /\ first \in Seq(Bus) /\ Len(first) = 5
      /\ first[1] = Cle(o.area) /\ \A i \in 1 .. 4 : first[i + 1] = Ale(address[i])
  <2> HIDE DEF begin, rows, reads, address
  <2>1. /\ first \in Seq(Bus) /\ Len(first) = Len(begin) + Len(rows)
        /\ \A i \in 1 .. Len(begin) : first[i] = begin[i]
        /\ \A i \in 1 .. Len(rows) : first[Len(begin) + i] = rows[i]
    BY <1>2, <1>4, Joined
  <2> HIDE DEF first
  <2>2. /\ Len(first) = 5 /\ \A i \in 1 .. 2 : first[i] = begin[i]
        /\ \A i \in 1 .. 3 : first[2 + i] = rows[i]
    BY <1>2, <1>4, <2>1
  <2>3. first[1] = begin[1] /\ first[2] = begin[2] /\ first[3] = rows[1] /\ first[4] = rows[2]
        /\ first[5] = rows[3]
    BY <2>2
  <2>4. ASSUME NEW i \in 1 .. 4 PROVE first[i + 1] = Ale(address[i])
    <3>1. (i = 1 /\ i + 1 = 2) \/ (i = 2 /\ i + 1 = 3) \/ (i = 3 /\ i + 1 = 4) \/ (i = 4 /\ i + 1 = 5)
      OBVIOUS
    <3> QED BY <1>2, <1>3, <1>4, <2>3, <3>1
  <2> QED BY <1>2, <2>1, <2>2, <2>3, <2>4
<1> HIDE DEF begin, rows, reads, first
<1> DEFINE cycles == first \o reads
<1>7. /\ cycles \in Seq(Bus) /\ Len(cycles) = Len(first) + Len(reads)
      /\ \A i \in 1 .. Len(first) : cycles[i] = first[i]
      /\ \A i \in 1 .. Len(reads) : cycles[Len(first) + i] = reads[i]
  BY <1>5, <1>6, Joined
<1> HIDE DEF cycles, address
<1>8. /\ cycles \in Seq(Bus) /\ Len(cycles) = 5 + o.length
      /\ \A i \in 1 .. o.length : cycles[5 + i] = <<"read", 0>>
  BY <1>5, <1>6, <1>7
<1>9. cycles[1] = Cle(o.area)
  <2>1. 1 \in 1 .. Len(first)
    BY <1>6
  <2> QED BY <1>6, <1>7, <2>1
<1>10. ASSUME NEW i \in 1 .. 4 PROVE cycles[i + 1] = Ale(address[i]) /\ address[i] \in Nat
  <2>1. i + 1 \in 1 .. Len(first)
    BY <1>6
  <2> QED BY <1>4, <1>6, <1>7, <2>1
<1>11. Cycles(o) = cycles
  BY <1>1 DEF cycles, first
<1> QED BY <1>8, <1>9, <1>10, <1>11 DEF address

LEMMA ProgramCycles ==
    ASSUME NEW o, o.kind = "program", o.page \in 0 .. Pages - 1, o.area \in ReadCommands,
           NEW length \in Nat, o.bits \in [1 .. length -> {0, 1}]
    PROVE  /\ Len(o.bits) = length
           /\ Cycles(o) \in Seq(Bus) /\ Len(Cycles(o)) = 9 + length
           /\ Cycles(o)[1] = Cle(o.area) /\ Cycles(o)[2] = Cle(ProgramSetup)
           /\ \A i \in 1 .. 4 : /\ Cycles(o)[i + 2] = Ale(Address(0, o.page)[i])
                                /\ Address(0, o.page)[i] \in Nat
           /\ \A i \in 1 .. length : Cycles(o)[6 + i] = <<"data", o.bits[i]>> /\ o.bits[i] \in Nat
           /\ Cycles(o)[7 + length] = Cle(ProgramConfirm)
           /\ Cycles(o)[8 + length] = Cle(ReadStatus) /\ Cycles(o)[9 + length] = <<"read", 0>>
<1> DEFINE begin == <<Cle(o.area), Cle(ProgramSetup), Ale(0)>>
           rows == RowBytes(o.page)
           data == DataIn(o.bits)
           confirm == <<Cle(ProgramConfirm)>>
           address == Address(0, o.page)
           first == begin \o rows
           second == first \o data
           third == second \o confirm
           cycles == third \o StatusCycles
<1>1. Cycles(o) = cycles
  BY DEF Cycles
<1>2. /\ begin \in Seq(Bus) /\ Len(begin) = 3 /\ begin[1] = Cle(o.area)
      /\ begin[2] = Cle(ProgramSetup) /\ begin[3] = Ale(0)
  <2>1. Cle(o.area) \in Bus /\ Cle(ProgramSetup) \in Bus /\ Ale(0) \in Bus
    BY CommandCycles, CommandValues
  <2> QED BY <2>1
<1>3. /\ address[1] = 0 /\ address[2] = Row(o.page)[1]
      /\ address[3] = Row(o.page)[2] /\ address[4] = Row(o.page)[3]
  BY DEF Address
<1>4. /\ rows \in Seq(Bus) /\ Len(rows) = 3 /\ rows[1] = Ale(address[2]) /\ rows[2] = Ale(address[3])
      /\ rows[3] = Ale(address[4]) /\ \A i \in 1 .. 4 : address[i] \in Nat
  <2>1. /\ rows \in Seq(Bus) /\ Len(rows) = 3
        /\ \A i \in {1, 2, 3} : Row(o.page)[i] \in Nat /\ rows[i] = Ale(Row(o.page)[i])
    BY RowCycles
  <2> HIDE DEF address
  <2> QED BY <1>3, <2>1
<1>5. /\ Len(o.bits) = length /\ data \in Seq(Bus) /\ Len(data) = length
      /\ \A i \in 1 .. length : data[i] = <<"data", o.bits[i]>> /\ o.bits[i] \in Nat
  BY DataCycles
<1>6. confirm \in Seq(Bus) /\ Len(confirm) = 1 /\ confirm[1] = Cle(ProgramConfirm)
  BY CommandCycles, CommandValues
<1>7. /\ first \in Seq(Bus) /\ Len(first) = 6
      /\ first[1] = Cle(o.area) /\ first[2] = Cle(ProgramSetup)
      /\ \A i \in 1 .. 4 : first[i + 2] = Ale(address[i])
  <2> HIDE DEF begin, rows, address
  <2>1. /\ first \in Seq(Bus) /\ Len(first) = Len(begin) + Len(rows)
        /\ \A i \in 1 .. Len(begin) : first[i] = begin[i]
        /\ \A i \in 1 .. Len(rows) : first[Len(begin) + i] = rows[i]
    BY <1>2, <1>4, Joined
  <2> HIDE DEF first
  <2>2. /\ Len(first) = 6 /\ \A i \in 1 .. 3 : first[i] = begin[i]
        /\ \A i \in 1 .. 3 : first[3 + i] = rows[i]
    BY <1>2, <1>4, <2>1
  <2>3. first[1] = begin[1] /\ first[2] = begin[2] /\ first[3] = begin[3] /\ first[4] = rows[1]
        /\ first[5] = rows[2] /\ first[6] = rows[3]
    BY <2>2
  <2>4. ASSUME NEW i \in 1 .. 4 PROVE first[i + 2] = Ale(address[i])
    <3>1. (i = 1 /\ i + 2 = 3) \/ (i = 2 /\ i + 2 = 4) \/ (i = 3 /\ i + 2 = 5) \/ (i = 4 /\ i + 2 = 6)
      OBVIOUS
    <3> QED BY <1>2, <1>3, <1>4, <2>3, <3>1
  <2> QED BY <1>2, <2>1, <2>2, <2>3, <2>4
<1> HIDE DEF begin, rows, data, confirm, first, address
<1>8. /\ second \in Seq(Bus) /\ Len(second) = 6 + length
      /\ \A i \in 1 .. 6 : second[i] = first[i]
      /\ \A i \in 1 .. length : second[6 + i] = data[i]
  <2>1. /\ second \in Seq(Bus) /\ Len(second) = Len(first) + Len(data)
        /\ \A i \in 1 .. Len(first) : second[i] = first[i]
        /\ \A i \in 1 .. Len(data) : second[Len(first) + i] = data[i]
    BY <1>5, <1>7, Joined
  <2> QED BY <1>5, <1>7, <2>1
<1> HIDE DEF second
<1>9. /\ third \in Seq(Bus) /\ Len(third) = 7 + length
      /\ \A i \in 1 .. 6 + length : third[i] = second[i]
      /\ third[7 + length] = Cle(ProgramConfirm)
  <2>1. /\ third \in Seq(Bus) /\ Len(third) = Len(second) + Len(confirm)
        /\ \A i \in 1 .. Len(second) : third[i] = second[i]
        /\ \A i \in 1 .. Len(confirm) : third[Len(second) + i] = confirm[i]
    BY <1>6, <1>8, Joined
  <2> HIDE DEF third
  <2>2. third[Len(second) + 1] = confirm[1]
    BY <1>6, <2>1
  <2>3. (6 + length) + 1 = 7 + length
    OBVIOUS
  <2> QED BY <1>6, <1>8, <2>1, <2>2, <2>3
<1> HIDE DEF third
<1>10. /\ cycles \in Seq(Bus) /\ Len(cycles) = 9 + length
       /\ \A i \in 1 .. 7 + length : cycles[i] = third[i]
       /\ cycles[8 + length] = Cle(ReadStatus) /\ cycles[9 + length] = <<"read", 0>>
  <2>1. /\ cycles \in Seq(Bus) /\ Len(cycles) = Len(third) + Len(StatusCycles)
        /\ \A i \in 1 .. Len(third) : cycles[i] = third[i]
        /\ \A i \in 1 .. Len(StatusCycles) : cycles[Len(third) + i] = StatusCycles[i]
    BY <1>9, StatusIs, Joined
  <2> HIDE DEF cycles
  <2>2. cycles[Len(third) + 1] = StatusCycles[1] /\ cycles[Len(third) + 2] = StatusCycles[2]
    BY StatusIs, <2>1
  <2>3. (7 + length) + 1 = 8 + length /\ (7 + length) + 2 = 9 + length
    OBVIOUS
  <2> QED BY <1>9, StatusIs, <2>1, <2>2, <2>3
<1> HIDE DEF cycles
<1>11. ASSUME NEW i \in 1 .. 6 PROVE cycles[i] = first[i]
  <2>1. i \in 1 .. 6 + length /\ i \in 1 .. 7 + length
    OBVIOUS
  <2> QED BY <1>8, <1>9, <1>10, <2>1
<1>12. cycles[1] = Cle(o.area) /\ cycles[2] = Cle(ProgramSetup)
  BY <1>7, <1>11
<1>13. ASSUME NEW i \in 1 .. 4 PROVE cycles[i + 2] = Ale(address[i]) /\ address[i] \in Nat
  <2>1. i + 2 \in 1 .. 6
    OBVIOUS
  <2> QED BY <1>4, <1>7, <1>11, <2>1
<1>14. ASSUME NEW i \in 1 .. length
       PROVE  cycles[6 + i] = <<"data", o.bits[i]>> /\ o.bits[i] \in Nat
  <2>1. 6 + i \in 1 .. 6 + length /\ 6 + i \in 1 .. 7 + length
    OBVIOUS
  <2> QED BY <1>5, <1>8, <1>9, <1>10, <2>1
<1>15. cycles[7 + length] = Cle(ProgramConfirm)
  <2>1. 7 + length \in 1 .. 7 + length
    OBVIOUS
  <2> QED BY <1>9, <1>10, <2>1
<1> QED BY <1>1, <1>5, <1>10, <1>12, <1>13, <1>14, <1>15 DEF address

LEMMA EraseCycles ==
    ASSUME NEW o, o.kind = "erase", o.page \in 0 .. Pages - 1
    PROVE  /\ Cycles(o) \in Seq(Bus) /\ Len(Cycles(o)) = 7
           /\ Cycles(o)[1] = Cle(EraseSetup)
           /\ \A i \in 1 .. 3 : Cycles(o)[i + 1] = Ale(Row(o.page)[i]) /\ Row(o.page)[i] \in Nat
           /\ Cycles(o)[5] = Cle(EraseConfirm)
           /\ Cycles(o)[6] = Cle(ReadStatus) /\ Cycles(o)[7] = <<"read", 0>>
<1> DEFINE begin == <<Cle(EraseSetup)>>
           rows == RowBytes(o.page)
           confirm == <<Cle(EraseConfirm)>>
           first == begin \o rows
           second == first \o confirm
           cycles == second \o StatusCycles
<1>1. Cycles(o) = cycles
  BY DEF Cycles
<1>2. /\ begin \in Seq(Bus) /\ Len(begin) = 1 /\ begin[1] = Cle(EraseSetup)
      /\ confirm \in Seq(Bus) /\ Len(confirm) = 1 /\ confirm[1] = Cle(EraseConfirm)
  BY CommandCycles, CommandValues
<1>3. /\ rows \in Seq(Bus) /\ Len(rows) = 3
      /\ \A i \in 1 .. 3 : Row(o.page)[i] \in Nat /\ rows[i] = Ale(Row(o.page)[i])
  BY RowCycles
<1> HIDE DEF begin, rows, confirm
<1>4. /\ first \in Seq(Bus) /\ Len(first) = 4 /\ first[1] = Cle(EraseSetup)
      /\ \A i \in 1 .. 3 : first[1 + i] = rows[i]
  <2>1. /\ first \in Seq(Bus) /\ Len(first) = Len(begin) + Len(rows)
        /\ \A i \in 1 .. Len(begin) : first[i] = begin[i]
        /\ \A i \in 1 .. Len(rows) : first[Len(begin) + i] = rows[i]
    BY <1>2, <1>3, Joined
  <2> HIDE DEF first
  <2> QED BY <1>2, <1>3, <2>1
<1> HIDE DEF first
<1>5. /\ second \in Seq(Bus) /\ Len(second) = 5 /\ \A i \in 1 .. 4 : second[i] = first[i]
      /\ second[4 + 1] = Cle(EraseConfirm)
  <2>1. /\ second \in Seq(Bus) /\ Len(second) = Len(first) + Len(confirm)
        /\ \A i \in 1 .. Len(first) : second[i] = first[i]
        /\ \A i \in 1 .. Len(confirm) : second[Len(first) + i] = confirm[i]
    BY <1>2, <1>4, Joined
  <2> HIDE DEF second
  <2>2. second[Len(first) + 1] = confirm[1]
    BY <1>2, <2>1
  <2> QED BY <1>2, <1>4, <2>1, <2>2
<1> HIDE DEF second
<1>6. /\ cycles \in Seq(Bus) /\ Len(cycles) = 7 /\ \A i \in 1 .. 5 : cycles[i] = second[i]
      /\ cycles[5 + 1] = Cle(ReadStatus) /\ cycles[5 + 2] = <<"read", 0>>
  <2>1. /\ cycles \in Seq(Bus) /\ Len(cycles) = Len(second) + Len(StatusCycles)
        /\ \A i \in 1 .. Len(second) : cycles[i] = second[i]
        /\ \A i \in 1 .. Len(StatusCycles) : cycles[Len(second) + i] = StatusCycles[i]
    BY <1>5, StatusIs, Joined
  <2> HIDE DEF cycles
  <2>2. cycles[Len(second) + 1] = StatusCycles[1] /\ cycles[Len(second) + 2] = StatusCycles[2]
    BY StatusIs, <2>1
  <2> QED BY <1>5, StatusIs, <2>1, <2>2
<1> HIDE DEF cycles
<1>7. ASSUME NEW i \in 1 .. 3
      PROVE  cycles[i + 1] = Ale(Row(o.page)[i]) /\ Row(o.page)[i] \in Nat
  <2>1. i + 1 = 1 + i /\ i + 1 \in 1 .. 4 /\ i + 1 \in 1 .. 5
    OBVIOUS
  <2> QED BY <1>3, <1>4, <1>5, <1>6, <2>1
<1>8. cycles[1] = Cle(EraseSetup) /\ cycles[5] = Cle(EraseConfirm)
  BY <1>4, <1>5, <1>6
<1> QED BY <1>1, <1>6, <1>7, <1>8

LEMMA ShortCycles ==
    ASSUME NEW o
    PROVE  /\ o.kind = "id" => /\ Cycles(o) \in Seq(Bus) /\ Len(Cycles(o)) = 4
                               /\ Cycles(o)[1] = Cle(ReadId) /\ Cycles(o)[2] = Ale(0)
                               /\ Cycles(o)[3] = <<"read", 0>> /\ Cycles(o)[4] = <<"read", 0>>
           /\ o.kind = "reset" => /\ Cycles(o) \in Seq(Bus) /\ Len(Cycles(o)) = 1
                                  /\ Cycles(o)[1] = Cle(ResetChip)
<1>1. ASSUME o.kind = "id"
      PROVE  /\ Cycles(o) \in Seq(Bus) /\ Len(Cycles(o)) = 4
             /\ Cycles(o)[1] = Cle(ReadId) /\ Cycles(o)[2] = Ale(0)
             /\ Cycles(o)[3] = <<"read", 0>> /\ Cycles(o)[4] = <<"read", 0>>
  <2> DEFINE begin == <<Cle(ReadId), Ale(0)>>
             reads == DataOut(2)
             cycles == begin \o reads
  <2>1. Cycles(o) = cycles
    BY <1>1 DEF Cycles
  <2>2. begin \in Seq(Bus) /\ Len(begin) = 2 /\ begin[1] = Cle(ReadId) /\ begin[2] = Ale(0)
    <3>1. Cle(ReadId) \in Bus /\ Ale(0) \in Bus
      BY CommandCycles, CommandValues
    <3> QED BY <3>1
  <2>3. reads \in Seq(Bus) /\ Len(reads) = 2 /\ \A i \in 1 .. 2 : reads[i] = <<"read", 0>>
    BY DataCycles
  <2> HIDE DEF begin, reads
  <2>4. /\ cycles \in Seq(Bus) /\ Len(cycles) = 4 /\ \A i \in 1 .. 2 : cycles[i] = begin[i]
        /\ \A i \in 1 .. 2 : cycles[2 + i] = reads[i]
    <3>1. /\ cycles \in Seq(Bus) /\ Len(cycles) = Len(begin) + Len(reads)
          /\ \A i \in 1 .. Len(begin) : cycles[i] = begin[i]
          /\ \A i \in 1 .. Len(reads) : cycles[Len(begin) + i] = reads[i]
      BY <2>2, <2>3, Joined
    <3> HIDE DEF cycles
    <3> QED BY <2>2, <2>3, <3>1
  <2> HIDE DEF cycles
  <2>5. /\ cycles[1] = begin[1] /\ cycles[2] = begin[2]
        /\ cycles[3] = reads[1] /\ cycles[4] = reads[2]
    BY <2>4
  <2> QED BY <2>1, <2>2, <2>3, <2>4, <2>5
<1>2. ASSUME o.kind = "reset" PROVE Cycles(o) = <<Cle(ResetChip)>>
  BY <1>2 DEF Cycles
<1> QED BY <1>1, <1>2, CommandCycles, CommandValues

-----------------------------------------------------------------------------
(* One bus cycle *)

\* The first byte of a command drops what was pending, if the build lets it.
LEMMA Starts ==
    ASSUME NEW v \in FirstCommands, write_cle(v)
    PROVE  \/ Stopped /\ ~NothingHalfDone
           \/ /\ nand_cmd' = IF v = ResetChip THEN <<>> ELSE <<v>>
              /\ nand_addr' = <<>> /\ nand_data' = <<>> /\ nand_read_cnt' = 0
              /\ UNCHANGED <<zeros, out, process>>
<1>1. StartCommand(v)
  BY CommandValues DEF write_cle
<1> QED BY <1>1 DEF StartCommand, Aborts, Stopped

LEMMA TakesAddress ==
    ASSUME NEW v, write_ale(v), nand_cmd # <<>>
    PROVE  /\ nand_addr' = Append(nand_addr, v)
           /\ UNCHANGED <<nand_cmd, nand_data, nand_read_cnt, zeros, process>>
BY DEF write_ale, Aborts

LEMMA OneMore ==
    ASSUME NEW queue, NEW values, NEW k \in Nat, Holds(queue, values, k), values[k + 1] \in Nat
    PROVE  Holds(Append(queue, values[k + 1]), values, k + 1)
<1> DEFINE more == Append(queue, values[k + 1])
<1>1. /\ more \in Seq(Nat) /\ Len(more) = k + 1
      /\ \A i \in 1 .. k : more[i] = queue[i] /\ more[k + 1] = values[k + 1]
  BY AppendProperties DEF Holds
<1>2. more[k + 1] = values[k + 1]
  BY AppendProperties DEF Holds
<1> HIDE DEF more
<1>3. ASSUME NEW i \in 1 .. k + 1 PROVE more[i] = values[i]
  <2>1. CASE i = k + 1
    BY <1>2, <2>1
  <2>2. CASE i # k + 1
    <3>1. i \in 1 .. k
      BY <2>2
    <3> QED BY <1>1, <3>1 DEF Holds
  <2> QED BY <2>1, <2>2
<1> QED BY <1>1, <1>3 DEF Holds, more

LEMMA NoneYet == ASSUME NEW values PROVE Holds(<<>>, values, 0)
BY EmptySeq DEF Holds

\* An address queue that holds a page's address.
LEMMA AddressOf ==
    ASSUME NEW page \in 0 .. Pages - 1, NEW column \in Nat,
           Holds(nand_addr, Address(column, page), 4)
    PROVE  Len(nand_addr) = 4 /\ PageOfAddr = page /\ Column = column
<1> DEFINE low == page % Base
           middle == (page \div Base) % Base
           high == page \div (Base * Base)
<1>1. Address(column, page) = <<column, low, middle, high>>
  BY DEF Address, Row
<1>2. high % 2 = high /\ (high * Base + middle) * Base + low = page
  <2>1. high \in 0 .. 1 /\ (high * Base + middle) * Base + low = page
    BY RowNumber
  <2> HIDE DEF low, middle, high
  <2> QED BY <2>1
<1> HIDE DEF low, middle, high
<1>3. /\ Len(nand_addr) = 4 /\ nand_addr[1] = column /\ nand_addr[2] = low
      /\ nand_addr[3] = middle /\ nand_addr[4] = high
  <2>1. Len(nand_addr) = 4 /\ \A i \in {1, 2, 3, 4} : nand_addr[i] = <<column, low, middle, high>>[i]
    BY <1>1 DEF Holds
  <2> QED BY <2>1
<1> QED BY <1>2, <1>3 DEF PageOfAddr, Column

LEMMA RowOf ==
    ASSUME NEW page \in 0 .. Pages - 1, Holds(nand_addr, Row(page), 3)
    PROVE  Len(nand_addr) = 3 /\ RowOfAddr = page
<1> DEFINE low == page % Base
           middle == (page \div Base) % Base
           high == page \div (Base * Base)
<1>1. Row(page) = <<low, middle, high>>
  BY DEF Row
<1>2. high % 2 = high /\ (high * Base + middle) * Base + low = page
  <2>1. high \in 0 .. 1 /\ (high * Base + middle) * Base + low = page
    BY RowNumber
  <2> HIDE DEF low, middle, high
  <2> QED BY <2>1
<1> HIDE DEF low, middle, high
<1>3. Len(nand_addr) = 3 /\ nand_addr[1] = low /\ nand_addr[2] = middle /\ nand_addr[3] = high
  <2>1. Len(nand_addr) = 3 /\ \A i \in {1, 2, 3} : nand_addr[i] = <<low, middle, high>>[i]
    BY <1>1 DEF Holds
  <2> QED BY <2>1
<1> QED BY <1>2, <1>3 DEF RowOfAddr

LEMMA Clipped ==
    ASSUME NEW n \in Int, NEW most \in Nat
    PROVE  /\ n <= 0 => Clip(n, most) = 0
           /\ n \in 0 .. most => Clip(n, most) = n
           /\ n >= most => Clip(n, most) = most
BY DEF Clip

\* A bus cycle, by its line.
Carries(cycle) == \/ cycle[1] = "CLE" /\ write_cle(cycle[2])
                  \/ cycle[1] = "ALE" /\ write_ale(cycle[2])
                  \/ cycle[1] = "data" /\ write_data(cycle[2])
                  \/ cycle[1] = "read" /\ read_nand

LEMMA Lines ==
    /\ \A v : Carries(Cle(v)) <=> write_cle(v)
    /\ \A v : Carries(Ale(v)) <=> write_ale(v)
    /\ \A v : Carries(<<"data", v>>) <=> write_data(v)
    /\ Carries(<<"read", 0>>) <=> read_nand
BY DEF Carries, Cle, Ale

-----------------------------------------------------------------------------
(* An operation, cycle by cycle *)

Confirms == {Cle(ProgramConfirm), Cle(EraseConfirm)}

LEMMA NotConfirms ==
    /\ \A v : Ale(v) \notin Confirms /\ <<"data", v>> \notin Confirms /\ <<"read", v>> \notin Confirms
    /\ \A v \in FirstCommands \cup {ProgramSetup} : Cle(v) \notin Confirms
    /\ Cle(ProgramConfirm) \in Confirms /\ Cle(EraseConfirm) \in Confirms
BY CommandValues DEF Confirms, Cle, Ale

LEMMA ReadStep ==
    ASSUME NEW o, o.kind = "read", o.page \in 0 .. Pages - 1, o.area \in ReadCommands,
           o.column \in Nat, o.length \in Nat, NEW n \in 0 .. Len(Cycles(o)) - 1,
           n > 0 => ReadInStep(o, n), Carries(Cycles(o)[n + 1])
    PROVE  /\ \/ n = 0 /\ Stopped /\ ~NothingHalfDone
              \/ UNCHANGED <<zeros, process>> /\ ReadInStep(o, n + 1)'
           /\ Cycles(o)[n + 1] \notin Confirms
<1> DEFINE address == Address(o.column, o.page)
<1>1. n \in 0 .. 4 + o.length
  BY ReadCycles
<1>2. CASE n = 0
  <2>1. Cycles(o)[n + 1] = Cle(o.area) /\ o.area \in FirstCommands /\ o.area # ResetChip
    <3>1. Cycles(o)[1] = Cle(o.area)
      BY ReadCycles
    <3>2. n + 1 = 1
      BY <1>2
    <3> QED BY <3>1, <3>2, CommandValues
  <2>2. write_cle(o.area)
    BY <2>1, Lines
  <2>3. ASSUME nand_cmd' = <<o.area>>, nand_addr' = <<>>, nand_data' = <<>>, nand_read_cnt' = 0
        PROVE  ReadInStep(o, n + 1)'
    <3>1. Clip((n + 1) - 1, 4) = 0 /\ Clip((n + 1) - 5, o.length) = 0
      BY <1>2, Clipped
    <3>2. Holds(<<>>, address, 0)
      BY NoneYet
    <3> QED BY <1>2, <2>3, <3>1, <3>2 DEF ReadInStep
  <2> QED BY <1>2, <2>1, <2>2, <2>3, Starts, NotConfirms
<1>3. CASE n \in 1 .. 4
  <2>1. Cycles(o)[n + 1] = Ale(address[n]) /\ address[n] \in Nat
    BY <1>3, ReadCycles
  <2>2. write_ale(address[n])
    BY <2>1, Lines
  <2>3. /\ nand_cmd = <<o.area>> /\ nand_data = <<>> /\ nand_read_cnt = 0
        /\ Holds(nand_addr, address, n - 1)
    <3>1. Clip(n - 1, 4) = n - 1 /\ Clip(n - 5, o.length) = 0
      BY <1>3, Clipped
    <3> QED BY <1>3, <3>1 DEF ReadInStep
  <2>4. /\ nand_addr' = Append(nand_addr, address[n])
        /\ UNCHANGED <<nand_cmd, nand_data, nand_read_cnt, zeros, process>>
    BY <2>2, <2>3, TakesAddress
  <2>5. Holds(nand_addr', address, n)
    <3>1. n - 1 \in Nat /\ (n - 1) + 1 = n
      BY <1>3
    <3> HIDE DEF address
    <3> QED BY <2>1, <2>3, <2>4, <3>1, OneMore
  <2>6. Clip((n + 1) - 1, 4) = n /\ Clip((n + 1) - 5, o.length) = 0 /\ ~(n + 1 > 5)
    BY <1>3, Clipped
  <2>7. ReadInStep(o, n + 1)'
    BY <2>3, <2>4, <2>5, <2>6 DEF ReadInStep
  <2> QED BY <2>1, <2>4, <2>7, NotConfirms
<1>4. CASE n >= 5
  <2>1. Cycles(o)[n + 1] = <<"read", 0>>
    <3>1. n - 4 \in 1 .. o.length /\ 5 + (n - 4) = n + 1
      BY <1>1, <1>4
    <3> QED BY <3>1, ReadCycles
  <2>2. read_nand
    BY <2>1, Lines
  <2>3. /\ nand_cmd = <<o.area>> /\ nand_data = <<>> /\ nand_read_cnt = n - 5
        /\ Holds(nand_addr, address, 4)
    <3>1. Clip(n - 1, 4) = 4 /\ Clip(n - 5, o.length) = n - 5
      BY <1>1, <1>4, Clipped
    <3> QED BY <1>4, <3>1 DEF ReadInStep
  <2>4. Len(nand_addr) = 4 /\ PageOfAddr = o.page /\ Column = o.column
    BY <2>3, AddressOf
  <2>5. IsRead /\ ~IsStatus /\ ~IsId /\ nand_cmd # <<>>
    BY <2>3, <2>4, CommandValues DEF IsRead, IsStatus, IsId, Lens
  <2>6. ReadsData
    BY <2>2, <2>5 DEF read_nand, ReadNothing, ReadsStatus, ReadsMaker, ReadsDevice, ReadsUnexpected
  <2>7. AreaStart = Offset(o.area)
    BY <2>3, CommandValues DEF AreaStart, Offset
  <2> DEFINE cell == o.page * PageLen + Offset(o.area) + o.column + (n + 1) - 6
  <2>8. ReadCell = cell
    <3>1. o.page * PageLen \in Nat /\ Offset(o.area) \in Nat
      BY Geometry, GeometryAssumption, Monotone DEF Offset
    <3> QED BY <1>1, <2>3, <2>4, <2>7, <3>1 DEF ReadCell
  <2>9. /\ nand_read_cnt' = (n + 1) - 5 /\ out' = <<"data", IF cell \in zeros THEN 0 ELSE 1>>
        /\ UNCHANGED <<nand_cmd, nand_addr, nand_data, zeros, process>>
    BY <1>1, <2>3, <2>6, <2>8 DEF ReadsData
  <2>10. Clip((n + 1) - 1, 4) = 4 /\ Clip((n + 1) - 5, o.length) = (n + 1) - 5
    BY <1>1, <1>4, Clipped
  <2>11. ReadInStep(o, n + 1)'
    BY <2>3, <2>9, <2>10 DEF ReadInStep
  <2> QED BY <2>1, <2>9, <2>11, NotConfirms
<1> QED BY <1>1, <1>2, <1>3, <1>4

\* The status read at the end of a program or an erase, as two cycles that come
\* when the queues hold nothing or a finished erase.
LEMMA StatusFirst ==
    ASSUME write_cle(ReadStatus), NothingHalfDone
    PROVE  UNCHANGED <<zeros, process>> /\ StatusInStep(1)'
<1>1. nand_cmd' = <<ReadStatus>> /\ nand_addr' = <<>> /\ nand_data' = <<>> /\ UNCHANGED <<zeros, process>>
  BY CommandValues, Starts
<1> QED BY <1>1 DEF StatusInStep

LEMMA StatusSecond ==
    ASSUME read_nand, StatusInStep(1)
    PROVE  UNCHANGED <<zeros, process>> /\ StatusInStep(2)'
<1>1. nand_cmd = <<ReadStatus>> /\ nand_addr = <<>> /\ nand_data = <<>>
  BY DEF StatusInStep
<1>2. IsStatus /\ ~IsId /\ ~IsRead /\ nand_cmd # <<>>
  BY <1>1, CommandValues DEF IsStatus, IsId, IsRead, Lens
<1>3. ReadsStatus
  BY <1>2 DEF read_nand, ReadNothing, ReadsMaker, ReadsDevice, ReadsData, ReadsUnexpected
<1> QED BY <1>3 DEF ReadsStatus, clear_nand_status, StatusInStep

\* The second bytes of commands and their handlers.
LEMMA SecondCommands ==
    /\ write_cle(ProgramSetup) => BeginProgram
    /\ write_cle(ProgramConfirm) => ProgramSpare \/ ProgramPage \/ ProgramUnexpected
    /\ write_cle(EraseConfirm) => EraseBlock
<1>1. /\ ProgramSetup \notin FirstCommands /\ ProgramConfirm \notin FirstCommands
      /\ EraseConfirm \notin FirstCommands
  BY CommandValues
<1> QED BY <1>1, CommandValues DEF write_cle, StartCommand

LEMMA Pair ==
    ASSUME NEW a \in Nat, NEW b \in Nat PROVE Append(<<a>>, b) = <<a, b>>
<1> DEFINE s == Append(<<a>>, b)
           t == <<a, b>>
<1>1. s \in Seq(Nat) /\ Len(s) = 2 /\ s[1] = a /\ s[2] = b
  <2>1. <<a>> \in Seq(Nat) /\ Len(<<a>>) = 1
    OBVIOUS
  <2>2. s \in Seq(Nat) /\ Len(s) = 1 + 1 /\ s[1] = <<a>>[1] /\ s[1 + 1] = b
    BY <2>1, AppendProperties
  <2> QED BY <2>2
<1>2. t \in Seq(Nat) /\ Len(t) = 2 /\ t[1] = a /\ t[2] = b
  OBVIOUS
<1> HIDE DEF s, t
<1>3. \A i \in 1 .. 2 : s[i] = t[i]
  BY <1>1, <1>2
<1> QED BY <1>1, <1>2, <1>3, SeqEqual DEF s, t

LEMMA SetupTaken ==
    ASSUME NEW area \in {ReadLow, ReadSpare}, write_cle(ProgramSetup), nand_cmd = <<area>>,
           nand_addr = <<>>, nand_data = <<>>
    PROVE  /\ nand_cmd' = <<area, ProgramSetup>>
           /\ UNCHANGED <<nand_addr, nand_data, nand_read_cnt, zeros, process>>
<1>1. BeginProgram
  BY SecondCommands
<1>2. /\ nand_cmd # <<>> /\ nand_cmd[1] \in {ReadLow, ReadSpare}
      /\ nand_addr = <<>> /\ nand_data = <<>>
  OBVIOUS
<1>3. /\ nand_cmd' = Append(nand_cmd, ProgramSetup)
      /\ UNCHANGED <<nand_addr, nand_data, nand_read_cnt, zeros, process>>
  BY <1>1, <1>2 DEF BeginProgram, Aborts
<1>4. Append(<<area>>, ProgramSetup) = <<area, ProgramSetup>>
  BY Pair, CommandValues
<1> QED BY <1>3, <1>4

LEMMA DataTaken ==
    ASSUME NEW area \in {ReadLow, ReadSpare}, NEW bit, write_data(bit),
           nand_cmd = <<area, ProgramSetup>>
    PROVE  /\ nand_data' = Append(nand_data, bit)
           /\ UNCHANGED <<nand_cmd, nand_addr, nand_read_cnt, zeros, process>>
<1>1. Len(nand_cmd) = 2 /\ nand_cmd[1] = area /\ nand_cmd[2] = ProgramSetup /\ nand_cmd # <<>>
  OBVIOUS
<1>2. /\ Len(nand_cmd) >= 2 /\ nand_cmd[1] \in {ReadLow, ReadSpare} /\ nand_cmd[2] = ProgramSetup
      /\ Len(nand_cmd) < (IF nand_cmd[1] = ReadSpare THEN Spare + 6 ELSE PageLen + 6)
  BY <1>1, Geometry
<1> QED BY <1>1, <1>2 DEF write_data, Aborts

\* The data of a program takes effect at its own page, and nowhere else.
LEMMA ConfirmTaken ==
    ASSUME NEW o, o.kind = "program", o.page \in 0 .. Pages - 1, NEW length \in Nat,
           \/ o.area = ReadLow /\ length = PageLen
           \/ o.area = ReadSpare /\ length = Spare,
           Len(o.bits) = length,
           write_cle(ProgramConfirm), nand_cmd = <<o.area, ProgramSetup>>,
           Holds(nand_addr, Address(0, o.page), 4), Holds(nand_data, o.bits, length)
    PROVE  zeros' = Effect(o, zeros) /\ nand_cmd' = <<>> /\ process' = process
<1> DEFINE first == o.page * PageLen + Offset(o.area)
<1>1. Len(nand_addr) = 4 /\ PageOfAddr = o.page /\ Column = 0
  BY AddressOf
<1>2. Len(nand_data) = length /\ \A i \in 1 .. length : nand_data[i] = o.bits[i]
  BY DEF Holds
<1>3. Len(nand_cmd) = 2 /\ nand_cmd[1] = o.area /\ nand_cmd[2] = ProgramSetup /\ nand_cmd # <<>>
  OBVIOUS
<1>4. Programmable
  BY <1>1, <1>2, <1>3 DEF Programmable, Lens
<1>5. \/ o.area = ReadLow /\ ProgramArea(0, PageLen)
      \/ o.area = ReadSpare /\ ProgramArea(Main, Spare)
  <2>1. ProgramSpare \/ ProgramPage
    BY <1>4, SecondCommands DEF ProgramUnexpected
  <2> QED BY <1>3, <2>1, CommandValues DEF ProgramSpare, ProgramPage
<1>6. Offset(o.area) \in Nat /\ o.page * PageLen \in Nat
  BY Geometry, GeometryAssumption, Monotone DEF Offset
<1>7. \A offset \in Nat : PageOfAddr * PageLen + offset + Column = o.page * PageLen + offset
  BY <1>1, <1>6
<1>8. 0 % PageLen = 0
  BY Geometry
<1>9. zeros' = Programmed(first, nand_data) /\ nand_cmd' = <<>> /\ process' = process
  <2>1. ASSUME o.area = ReadLow, ProgramArea(0, PageLen)
        PROVE  zeros' = Programmed(first, nand_data) /\ nand_cmd' = <<>> /\ process' = process
    <3>1. Offset(o.area) = 0
      BY <2>1, CommandValues DEF Offset
    <3>2. zeros' = Programmed(PageOfAddr * PageLen + 0 + Column, nand_data) /\ clear_nand_status
          /\ process' = process
      BY <1>1, <1>3, <1>8, <2>1 DEF ProgramArea, Aborts
    <3>3. PageOfAddr * PageLen + 0 + Column = first
      BY <1>7, <3>1
    <3> QED BY <3>2, <3>3 DEF clear_nand_status
  <2>2. ASSUME o.area = ReadSpare, ProgramArea(Main, Spare)
        PROVE  zeros' = Programmed(first, nand_data) /\ nand_cmd' = <<>> /\ process' = process
    <3>1. Offset(o.area) = Main
      BY <2>2, CommandValues DEF Offset
    <3>2. zeros' = Programmed(PageOfAddr * PageLen + Main + Column, nand_data) /\ clear_nand_status
          /\ process' = process
      BY <1>1, <1>3, <1>8, <2>2 DEF ProgramArea, Aborts
    <3>3. PageOfAddr * PageLen + Main + Column = first
      BY <1>7, <3>1, Geometry
    <3> QED BY <3>2, <3>3 DEF clear_nand_status
  <2> QED BY <1>5, <2>1, <2>2
<1>10. Programmed(first, nand_data) = Effect(o, zeros)
  <2> HIDE DEF first
  <2>1. {j \in 1 .. Len(nand_data) : nand_data[j] = 0} = {j \in 1 .. Len(o.bits) : o.bits[j] = 0}
    BY <1>2
  <2> DEFINE cleared == {first + i - 1 : i \in {j \in 1 .. Len(o.bits) : o.bits[j] = 0}}
  <2>2. Programmed(first, nand_data)
          = (IF ForcedErase THEN zeros \ Run(first, length) ELSE zeros) \cup cleared
    BY <1>2, <2>1 DEF Programmed
  <2>3. Effect(o, zeros) = cleared \cup (zeros \ (IF ForcedErase THEN Run(first, length) ELSE {}))
    BY DEF Effect, first
  <2> HIDE DEF cleared
  <2> QED BY <2>2, <2>3
<1> QED BY <1>9, <1>10

LEMMA ProgramStep ==
    ASSUME NEW o, o.kind = "program", o.page \in 0 .. Pages - 1, NEW length \in Nat,
           \/ o.area = ReadLow /\ length = PageLen
           \/ o.area = ReadSpare /\ length = Spare,
           o.bits \in [1 .. length -> {0, 1}], NEW n \in 0 .. Len(Cycles(o)) - 1,
           n > 0 => ProgramInStep(o, n), Carries(Cycles(o)[n + 1])
    PROVE  \/ /\ n = 0 /\ Stopped /\ ~NothingHalfDone
              /\ Cycles(o)[n + 1] \notin Confirms
           \/ /\ process' = process /\ ProgramInStep(o, n + 1)'
              /\ zeros' = IF Cycles(o)[n + 1] \in Confirms THEN Effect(o, zeros) ELSE zeros
<1> DEFINE address == Address(0, o.page)
<1>1. n \in 0 .. 8 + length /\ Len(o.bits) = length /\ o.area \in ReadCommands
  <2>1. o.area \in ReadCommands
    BY CommandValues
  <2>2. Len(Cycles(o)) = 9 + length /\ Len(o.bits) = length
    BY <2>1, ProgramCycles
  <2> QED BY <2>1, <2>2
<1>2. CASE n = 0
  <2>1. Cycles(o)[n + 1] = Cle(o.area) /\ o.area \in FirstCommands /\ o.area # ResetChip
    <3>1. Cycles(o)[1] = Cle(o.area)
      BY <1>1, ProgramCycles
    <3>2. n + 1 = 1
      BY <1>2
    <3> QED BY <1>1, <3>1, <3>2, CommandValues
  <2>2. write_cle(o.area)
    BY <2>1, Lines
  <2>3. ASSUME nand_cmd' = <<o.area>>, nand_addr' = <<>>, nand_data' = <<>>
        PROVE  ProgramInStep(o, n + 1)'
    <3>1. Clip((n + 1) - 2, 4) = 0 /\ Clip((n + 1) - 6, length) = 0 /\ n + 1 = 1 /\ n + 1 <= 6 + length
      BY <1>2, Clipped
    <3>2. Holds(<<>>, address, 0) /\ Holds(<<>>, o.bits, 0)
      BY NoneYet
    <3> QED BY <1>1, <2>3, <3>1, <3>2 DEF ProgramInStep
  <2> QED BY <1>2, <2>1, <2>2, <2>3, Starts, NotConfirms
<1>3. CASE n = 1
  <2>1. Cycles(o)[n + 1] = Cle(ProgramSetup)
    <3>1. Cycles(o)[2] = Cle(ProgramSetup)
      BY <1>1, ProgramCycles
    <3>2. n + 1 = 2
      BY <1>3
    <3> QED BY <3>1, <3>2
  <2>2. write_cle(ProgramSetup)
    BY <2>1, Lines
  <2>3. /\ nand_cmd = <<o.area>> /\ Holds(nand_addr, address, 0) /\ Holds(nand_data, o.bits, 0)
    <3>1. Clip(n - 2, 4) = 0 /\ Clip(n - 6, length) = 0 /\ n <= 6 + length /\ n > 0
      BY <1>3, Clipped
    <3> QED BY <1>1, <1>3, <3>1 DEF ProgramInStep
  <2>4. nand_addr = <<>> /\ nand_data = <<>>
    BY <2>3, EmptySeq DEF Holds
  <2>5. /\ nand_cmd' = <<o.area, ProgramSetup>>
        /\ UNCHANGED <<nand_addr, nand_data, nand_read_cnt, zeros, process>>
    BY <2>2, <2>3, <2>4, SetupTaken
  <2>6. /\ Clip((n + 1) - 2, 4) = 0 /\ Clip((n + 1) - 6, length) = 0
        /\ n + 1 # 1 /\ n + 1 <= 6 + length
    BY <1>3, Clipped
  <2>7. ProgramInStep(o, n + 1)'
    BY <1>1, <2>3, <2>5, <2>6 DEF ProgramInStep
  <2> QED BY <2>1, <2>5, <2>7, NotConfirms
<1>4. CASE n \in 2 .. 5
  <2>1. Cycles(o)[n + 1] = Ale(address[n - 1]) /\ address[n - 1] \in Nat
    <3>1. n - 1 \in 1 .. 4 /\ (n - 1) + 2 = n + 1
      BY <1>4
    <3> QED BY <1>1, <3>1, ProgramCycles
  <2>2. write_ale(address[n - 1])
    BY <2>1, Lines
  <2>3. /\ nand_cmd = <<o.area, ProgramSetup>> /\ Holds(nand_addr, address, n - 2)
        /\ Holds(nand_data, o.bits, 0)
    <3>1. Clip(n - 2, 4) = n - 2 /\ Clip(n - 6, length) = 0 /\ n <= 6 + length /\ n # 1 /\ n > 0
      BY <1>4, Clipped
    <3> QED BY <1>1, <3>1 DEF ProgramInStep
  <2>4. /\ nand_addr' = Append(nand_addr, address[n - 1])
        /\ UNCHANGED <<nand_cmd, nand_data, nand_read_cnt, zeros, process>>
    BY <2>2, <2>3, TakesAddress
  <2>5. Holds(nand_addr', address, n - 1)
    <3>1. n - 2 \in Nat /\ (n - 2) + 1 = n - 1
      BY <1>4
    <3> HIDE DEF address
    <3> QED BY <2>1, <2>3, <2>4, <3>1, OneMore
  <2>6. /\ Clip((n + 1) - 2, 4) = n - 1 /\ Clip((n + 1) - 6, length) = 0
        /\ n + 1 # 1 /\ n + 1 <= 6 + length
    BY <1>4, Clipped
  <2>7. ProgramInStep(o, n + 1)'
    BY <1>1, <2>3, <2>4, <2>5, <2>6 DEF ProgramInStep
  <2> QED BY <2>1, <2>4, <2>7, NotConfirms
<1>5. CASE n \in 6 .. 5 + length
  <2> DEFINE i == n - 5
  <2>1. Cycles(o)[n + 1] = <<"data", o.bits[i]>> /\ o.bits[i] \in Nat
    <3>1. i \in 1 .. length /\ 6 + i = n + 1
      BY <1>5
    <3> HIDE DEF i
    <3> QED BY <1>1, <3>1, ProgramCycles
  <2>2. write_data(o.bits[i])
    BY <2>1, Lines
  <2>3. /\ nand_cmd = <<o.area, ProgramSetup>> /\ Holds(nand_addr, address, 4)
        /\ Holds(nand_data, o.bits, n - 6)
    <3>1. Clip(n - 2, 4) = 4 /\ Clip(n - 6, length) = n - 6 /\ n <= 6 + length /\ n # 1 /\ n > 0
      BY <1>5, Clipped
    <3> QED BY <1>1, <3>1 DEF ProgramInStep
  <2>4. /\ nand_data' = Append(nand_data, o.bits[i])
        /\ UNCHANGED <<nand_cmd, nand_addr, nand_read_cnt, zeros, process>>
    BY <2>2, <2>3, DataTaken
  <2>5. Holds(nand_data', o.bits, i)
    <3>1. n - 6 \in Nat /\ (n - 6) + 1 = i
      BY <1>5
    <3> QED BY <2>1, <2>3, <2>4, <3>1, OneMore
  <2>6. /\ Clip((n + 1) - 2, 4) = 4 /\ Clip((n + 1) - 6, length) = i
        /\ n + 1 # 1 /\ n + 1 <= 6 + length
    BY <1>5, Clipped
  <2>7. ProgramInStep(o, n + 1)'
    BY <1>1, <2>3, <2>4, <2>5, <2>6 DEF ProgramInStep
  <2> QED BY <2>1, <2>4, <2>7, NotConfirms
<1>6. CASE n = 6 + length
  <2>1. Cycles(o)[n + 1] = Cle(ProgramConfirm)
    <3>1. n + 1 = 7 + length
      BY <1>6
    <3> QED BY <1>1, <3>1, ProgramCycles
  <2>2. write_cle(ProgramConfirm)
    BY <2>1, Lines
  <2>3. /\ nand_cmd = <<o.area, ProgramSetup>> /\ Holds(nand_addr, address, 4)
        /\ Holds(nand_data, o.bits, length)
    <3>1. Clip(n - 2, 4) = 4 /\ Clip(n - 6, length) = length /\ n <= 6 + length /\ n # 1 /\ n > 0
      BY <1>6, Clipped
    <3> QED BY <1>1, <3>1 DEF ProgramInStep
  <2>4. zeros' = Effect(o, zeros) /\ nand_cmd' = <<>> /\ process' = process
    BY <1>1, <2>2, <2>3, ConfirmTaken
  <2>5. ~(n + 1 <= 6 + length) /\ n + 1 = 7 + length
    BY <1>6
  <2>6. ProgramInStep(o, n + 1)'
    BY <1>1, <2>4, <2>5 DEF ProgramInStep
  <2> QED BY <2>1, <2>4, <2>6, NotConfirms
<1>7. CASE n = 7 + length
  <2>1. Cycles(o)[n + 1] = Cle(ReadStatus) /\ Cle(ReadStatus) \notin Confirms
    <3>1. n + 1 = 8 + length
      BY <1>7
    <3>2. Cycles(o)[8 + length] = Cle(ReadStatus)
      BY <1>1, ProgramCycles
    <3>3. Cle(ReadStatus) \notin Confirms
      BY NotConfirms, CommandValues
    <3> QED BY <3>1, <3>2, <3>3
  <2>2. write_cle(ReadStatus)
    BY <2>1, Lines
  <2>3. nand_cmd = <<>>
    BY <1>1, <1>7 DEF ProgramInStep
  <2>4. UNCHANGED <<zeros, process>> /\ StatusInStep(1)'
    BY <2>2, <2>3, StatusFirst DEF NothingHalfDone
  <2>5. ~(n + 1 <= 6 + length) /\ n + 1 # 7 + length /\ (n + 1) - 7 - length = 1
    BY <1>7
  <2>6. ProgramInStep(o, n + 1)'
    BY <1>1, <2>4, <2>5 DEF ProgramInStep
  <2> QED BY <2>1, <2>4, <2>6
<1>8. CASE n = 8 + length
  <2>1. Cycles(o)[n + 1] = <<"read", 0>> /\ <<"read", 0>> \notin Confirms
    <3>1. n + 1 = 9 + length
      BY <1>8
    <3>2. Cycles(o)[9 + length] = <<"read", 0>>
      BY <1>1, ProgramCycles
    <3> QED BY <3>1, <3>2, NotConfirms
  <2>2. read_nand
    BY <2>1, Lines
  <2>3. StatusInStep(1)
    <3>1. ~(n <= 6 + length) /\ n # 7 + length /\ n - 7 - length = 1 /\ n > 0
      BY <1>8
    <3> QED BY <1>1, <3>1 DEF ProgramInStep
  <2>4. UNCHANGED <<zeros, process>> /\ StatusInStep(2)'
    BY <2>2, <2>3, StatusSecond
  <2>5. ~(n + 1 <= 6 + length) /\ n + 1 # 7 + length /\ (n + 1) - 7 - length = 2
    BY <1>8
  <2>6. ProgramInStep(o, n + 1)'
    BY <1>1, <2>4, <2>5 DEF ProgramInStep
  <2> QED BY <2>1, <2>4, <2>6
<1> QED BY <1>1, <1>2, <1>3, <1>4, <1>5, <1>6, <1>7, <1>8

LEMMA RowTaken ==
    ASSUME NEW o, o.kind = "erase", o.page \in 0 .. Pages - 1, o.page % BlockPages = 0,
           write_cle(EraseConfirm), nand_cmd = <<EraseSetup>>, nand_data = <<>>,
           Holds(nand_addr, Row(o.page), 3)
    PROVE  /\ zeros' = Effect(o, zeros) /\ nand_cmd' = <<EraseSetup, EraseConfirm>>
           /\ UNCHANGED <<nand_addr, nand_data, process>>
<1>1. EraseBlock
  BY SecondCommands
<1>2. Len(nand_addr) = 3 /\ RowOfAddr = o.page
  BY RowOf
<1>3. Len(nand_cmd) = 1 /\ nand_cmd[1] = EraseSetup /\ Len(nand_data) = 0
  OBVIOUS
<1>4. Lens(1, 3, 0) /\ nand_cmd[1] = EraseSetup /\ RowOfAddr % BlockPages = 0
  BY <1>2, <1>3 DEF Lens
<1>5. Len(nand_addr) >= 3
  BY <1>2
<1>6. /\ zeros' = zeros \ Run(o.page * PageLen, BlockPages * PageLen)
      /\ nand_cmd' = Append(nand_cmd, EraseConfirm) /\ UNCHANGED <<nand_addr, nand_data, process>>
  BY <1>1, <1>2, <1>4, <1>5 DEF EraseBlock, Aborts
<1>7. nand_cmd' = <<EraseSetup, EraseConfirm>>
  <2>1. EraseSetup \in Nat /\ EraseConfirm \in Nat
    BY CommandValues
  <2> QED BY <1>6, <2>1, Pair
<1>8. Effect(o, zeros) = zeros \ Run(o.page * PageLen, BlockPages * PageLen)
  BY DEF Effect
<1> QED BY <1>6, <1>7, <1>8

LEMMA EraseStep ==
    ASSUME NEW o, o.kind = "erase", o.page \in 0 .. Pages - 1, o.page % BlockPages = 0,
           NEW n \in 0 .. Len(Cycles(o)) - 1,
           n > 0 => EraseInStep(o, n), Carries(Cycles(o)[n + 1])
    PROVE  \/ /\ n = 0 /\ Stopped /\ ~NothingHalfDone
              /\ Cycles(o)[n + 1] \notin Confirms
           \/ /\ process' = process /\ EraseInStep(o, n + 1)'
              /\ zeros' = IF Cycles(o)[n + 1] \in Confirms THEN Effect(o, zeros) ELSE zeros
<1> DEFINE row == Row(o.page)
<1>1. n \in 0 .. 6
  <2>1. Len(Cycles(o)) = 7
    BY EraseCycles
  <2> QED BY <2>1
<1>2. CASE n = 0
  <2>1. Cycles(o)[n + 1] = Cle(EraseSetup) /\ EraseSetup \in FirstCommands /\ EraseSetup # ResetChip
    <3>1. Cycles(o)[1] = Cle(EraseSetup)
      BY EraseCycles
    <3> QED BY <1>2, <3>1, CommandValues
  <2>2. write_cle(EraseSetup)
    BY <2>1, Lines
  <2>3. ASSUME nand_cmd' = <<EraseSetup>>, nand_addr' = <<>>, nand_data' = <<>>
        PROVE  EraseInStep(o, n + 1)'
    <3>1. Clip((n + 1) - 1, 3) = 0 /\ n + 1 <= 5 /\ n + 1 < 5
      BY <1>2, Clipped
    <3>2. Holds(<<>>, row, 0)
      BY NoneYet
    <3> QED BY <2>3, <3>1, <3>2 DEF EraseInStep
  <2> QED BY <1>2, <2>1, <2>2, <2>3, Starts, NotConfirms
<1>3. CASE n \in 1 .. 3
  <2>1. Cycles(o)[n + 1] = Ale(row[n]) /\ row[n] \in Nat
    BY <1>3, EraseCycles
  <2>2. write_ale(row[n])
    BY <2>1, Lines
  <2>3. nand_cmd = <<EraseSetup>> /\ nand_data = <<>> /\ Holds(nand_addr, row, n - 1)
    <3>1. Clip(n - 1, 3) = n - 1 /\ n <= 5 /\ n < 5 /\ n > 0
      BY <1>3, Clipped
    <3> QED BY <3>1 DEF EraseInStep
  <2>4. /\ nand_addr' = Append(nand_addr, row[n])
        /\ UNCHANGED <<nand_cmd, nand_data, nand_read_cnt, zeros, process>>
    BY <2>2, <2>3, TakesAddress
  <2>5. Holds(nand_addr', row, n)
    <3>1. n - 1 \in Nat /\ (n - 1) + 1 = n
      BY <1>3
    <3> HIDE DEF row
    <3> QED BY <2>1, <2>3, <2>4, <3>1, OneMore
  <2>6. Clip((n + 1) - 1, 3) = n /\ n + 1 <= 5 /\ n + 1 < 5
    BY <1>3, Clipped
  <2>7. EraseInStep(o, n + 1)'
    BY <2>3, <2>4, <2>5, <2>6 DEF EraseInStep
  <2> QED BY <2>1, <2>4, <2>7, NotConfirms
<1>4. CASE n = 4
  <2>1. Cycles(o)[n + 1] = Cle(EraseConfirm)
    <3>1. Cycles(o)[5] = Cle(EraseConfirm)
      BY EraseCycles
    <3>2. n + 1 = 5
      BY <1>4
    <3> QED BY <3>1, <3>2
  <2>2. write_cle(EraseConfirm)
    BY <2>1, Lines
  <2>3. nand_cmd = <<EraseSetup>> /\ nand_data = <<>> /\ Holds(nand_addr, row, 3)
    <3>1. Clip(n - 1, 3) = 3 /\ n <= 5 /\ n < 5 /\ n > 0
      BY <1>4, Clipped
    <3> QED BY <3>1 DEF EraseInStep
  <2>4. /\ zeros' = Effect(o, zeros) /\ nand_cmd' = <<EraseSetup, EraseConfirm>>
        /\ UNCHANGED <<nand_addr, nand_data, process>>
    BY <2>2, <2>3, RowTaken
  <2>5. Clip((n + 1) - 1, 3) = 3 /\ n + 1 <= 5 /\ ~(n + 1 < 5)
    BY <1>4, Clipped
  <2>6. EraseInStep(o, n + 1)'
    BY <2>3, <2>4, <2>5 DEF EraseInStep
  <2> QED BY <2>1, <2>4, <2>6, NotConfirms
<1>5. CASE n = 5
  <2>1. Cycles(o)[n + 1] = Cle(ReadStatus) /\ Cle(ReadStatus) \notin Confirms
    <3>1. Cycles(o)[6] = Cle(ReadStatus)
      BY EraseCycles
    <3>2. n + 1 = 6
      BY <1>5
    <3> QED BY <3>1, <3>2, NotConfirms, CommandValues
  <2>2. write_cle(ReadStatus)
    BY <2>1, Lines
  <2>3. NothingHalfDone
    <3>1. Clip(n - 1, 3) = 3 /\ n <= 5 /\ ~(n < 5) /\ n > 0
      BY <1>5, Clipped
    <3>2. nand_cmd = <<EraseSetup, EraseConfirm>> /\ Holds(nand_addr, row, 3) /\ nand_data = <<>>
      BY <3>1 DEF EraseInStep
    <3>3. Len(nand_cmd) = 2 /\ Len(nand_addr) = 3 /\ Len(nand_data) = 0 /\ nand_cmd[1] = EraseSetup
      BY <3>2 DEF Holds
    <3> QED BY <3>3 DEF NothingHalfDone, Lens
  <2>4. UNCHANGED <<zeros, process>> /\ StatusInStep(1)'
    BY <2>2, <2>3, StatusFirst
  <2>5. ~(n + 1 <= 5) /\ (n + 1) - 5 = 1
    BY <1>5
  <2>6. EraseInStep(o, n + 1)'
    BY <2>4, <2>5 DEF EraseInStep
  <2> QED BY <2>1, <2>4, <2>6
<1>6. CASE n = 6
  <2>1. Cycles(o)[n + 1] = <<"read", 0>> /\ <<"read", 0>> \notin Confirms
    <3>1. Cycles(o)[7] = <<"read", 0>>
      BY EraseCycles
    <3>2. n + 1 = 7
      BY <1>6
    <3> QED BY <3>1, <3>2, NotConfirms
  <2>2. read_nand
    BY <2>1, Lines
  <2>3. StatusInStep(1)
    <3>1. ~(n <= 5) /\ n - 5 = 1 /\ n > 0
      BY <1>6
    <3> QED BY <3>1 DEF EraseInStep
  <2>4. UNCHANGED <<zeros, process>> /\ StatusInStep(2)'
    BY <2>2, <2>3, StatusSecond
  <2>5. ~(n + 1 <= 5) /\ (n + 1) - 5 = 2
    BY <1>6
  <2>6. EraseInStep(o, n + 1)'
    BY <2>4, <2>5 DEF EraseInStep
  <2> QED BY <2>1, <2>4, <2>6
<1> QED BY <1>1, <1>2, <1>3, <1>4, <1>5, <1>6

LEMMA IdStep ==
    ASSUME NEW o, o.kind = "id", NEW n \in 0 .. Len(Cycles(o)) - 1,
           n > 0 => IdInStep(n), Carries(Cycles(o)[n + 1])
    PROVE  /\ \/ n = 0 /\ Stopped /\ ~NothingHalfDone
              \/ UNCHANGED <<zeros, process>> /\ IdInStep(n + 1)'
           /\ Cycles(o)[n + 1] \notin Confirms
<1>1. /\ n \in 0 .. 3 /\ Cycles(o)[1] = Cle(ReadId) /\ Cycles(o)[2] = Ale(0)
      /\ Cycles(o)[3] = <<"read", 0>> /\ Cycles(o)[4] = <<"read", 0>>
  BY ShortCycles
<1>2. CASE n = 0
  <2>1. Cycles(o)[n + 1] = Cle(ReadId) /\ ReadId \in FirstCommands /\ ReadId # ResetChip
    BY <1>1, <1>2, CommandValues
  <2>2. write_cle(ReadId)
    BY <2>1, Lines
  <2>3. ASSUME nand_cmd' = <<ReadId>>, nand_addr' = <<>>, nand_data' = <<>>, nand_read_cnt' = 0
        PROVE  IdInStep(n + 1)'
    <3>1. Clip((n + 1) - 1, 1) = 0 /\ Clip((n + 1) - 2, 1) = 0 /\ n + 1 # 4
      BY <1>2, Clipped
    <3>2. Holds(<<>>, <<0>>, 0)
      BY NoneYet
    <3> QED BY <2>3, <3>1, <3>2 DEF IdInStep
  <2> QED BY <1>2, <2>1, <2>2, <2>3, Starts, NotConfirms
<1>3. CASE n = 1
  <2>1. Cycles(o)[n + 1] = Ale(0)
    BY <1>1, <1>3
  <2>2. write_ale(0)
    BY <2>1, Lines
  <2>3. nand_cmd = <<ReadId>> /\ nand_data = <<>> /\ Holds(nand_addr, <<0>>, 0) /\ nand_read_cnt = 0
    <3>1. Clip(n - 1, 1) = 0 /\ Clip(n - 2, 1) = 0 /\ n # 4 /\ n > 0
      BY <1>3, Clipped
    <3> QED BY <3>1 DEF IdInStep
  <2>4. /\ nand_addr' = Append(nand_addr, 0)
        /\ UNCHANGED <<nand_cmd, nand_data, nand_read_cnt, zeros, process>>
    BY <2>2, <2>3, TakesAddress
  <2>5. Holds(nand_addr', <<0>>, 1)
    <3>1. <<0>>[0 + 1] = 0 /\ 0 + 1 = 1
      OBVIOUS
    <3>2. Holds(Append(nand_addr, <<0>>[0 + 1]), <<0>>, 0 + 1)
      BY <2>3, <3>1, OneMore
    <3> QED BY <2>4, <3>1, <3>2
  <2>6. Clip((n + 1) - 1, 1) = 1 /\ Clip((n + 1) - 2, 1) = 0 /\ n + 1 # 4
    BY <1>3, Clipped
  <2>7. IdInStep(n + 1)'
    BY <2>3, <2>4, <2>5, <2>6 DEF IdInStep
  <2> QED BY <2>1, <2>4, <2>7, NotConfirms
<1>4. ASSUME n \in 2 .. 3
      PROVE  /\ nand_cmd = <<ReadId>> /\ nand_data = <<>> /\ Holds(nand_addr, <<0>>, 1)
             /\ nand_read_cnt = n - 2 /\ IsId /\ (ReadsMaker \/ ReadsDevice)
             /\ Cycles(o)[n + 1] \notin Confirms
  <2>1. Clip(n - 1, 1) = 1 /\ Clip(n - 2, 1) = n - 2 /\ n # 4 /\ n > 0
    BY <1>4, Clipped
  <2>2. /\ nand_cmd = <<ReadId>> /\ nand_data = <<>> /\ Holds(nand_addr, <<0>>, 1)
        /\ nand_read_cnt = n - 2
    BY <2>1 DEF IdInStep
  <2>3. /\ Len(nand_cmd) = 1 /\ nand_cmd[1] = ReadId /\ Len(nand_data) = 0 /\ nand_cmd # <<>>
        /\ Len(nand_addr) = 1 /\ nand_addr[1] = 0
    <3>1. Len(nand_addr) = 1 /\ nand_addr[1] = <<0>>[1]
      BY <2>2 DEF Holds
    <3> QED BY <2>2, <3>1
  <2>4. IsId /\ ~IsStatus /\ ~IsRead
    BY <2>3, CommandValues DEF IsId, IsStatus, IsRead, Lens
  <2>5. Cycles(o)[n + 1] = <<"read", 0>>
    <3>1. n + 1 = 3 \/ n + 1 = 4
      BY <1>4
    <3> QED BY <1>1, <3>1
  <2>6. read_nand
    BY <2>5, Lines
  <2>7. ReadsMaker \/ ReadsDevice
    BY <2>3, <2>4, <2>6 DEF read_nand, ReadNothing, ReadsStatus, ReadsData, ReadsUnexpected
  <2> QED BY <2>2, <2>4, <2>5, <2>7, NotConfirms
<1>5. CASE n = 2
  <2>1. ReadsMaker
    BY <1>4, <1>5 DEF ReadsDevice
  <2>2. nand_read_cnt' = 1 /\ UNCHANGED <<nand_cmd, nand_addr, nand_data, zeros, process>>
    BY <2>1 DEF ReadsMaker
  <2>3. Clip((n + 1) - 1, 1) = 1 /\ Clip((n + 1) - 2, 1) = 1 /\ n + 1 # 4
    BY <1>5, Clipped
  <2>4. IdInStep(n + 1)'
    BY <1>4, <1>5, <2>2, <2>3 DEF IdInStep
  <2> QED BY <1>4, <1>5, <2>2, <2>4
<1>6. CASE n = 3
  <2>1. ReadsDevice
    BY <1>4, <1>6 DEF ReadsMaker
  <2>2. nand_cmd' = <<>> /\ UNCHANGED <<zeros, process>>
    BY <2>1 DEF ReadsDevice, clear_nand_status
  <2>3. IdInStep(n + 1)'
    BY <1>6, <2>2 DEF IdInStep
  <2> QED BY <1>4, <1>6, <2>2, <2>3
<1> QED BY <1>1, <1>2, <1>3, <1>5, <1>6

LEMMA ResetStep ==
    ASSUME NEW o, o.kind = "reset", NEW n \in 0 .. Len(Cycles(o)) - 1, Carries(Cycles(o)[n + 1])
    PROVE  /\ \/ n = 0 /\ Stopped /\ ~NothingHalfDone
              \/ UNCHANGED <<zeros, process>> /\ nand_cmd' = <<>>
           /\ Cycles(o)[n + 1] \notin Confirms
<1>1. n = 0 /\ Cycles(o)[1] = Cle(ResetChip)
  BY ShortCycles
<1>2. write_cle(ResetChip)
  BY <1>1, Lines
<1> QED BY <1>1, <1>2, Starts, NotConfirms, CommandValues

LEMMA Kinds ==
    ASSUME NEW o \in Operations
    PROVE  \/ /\ o.kind = "read" /\ o.page \in 0 .. Pages - 1 /\ o.area \in ReadCommands
              /\ o.column \in Nat /\ o.length \in Nat
           \/ /\ o.kind = "program" /\ o.page \in 0 .. Pages - 1
              /\ \E length \in Nat :
                   /\ \/ o.area = ReadLow /\ length = PageLen
                      \/ o.area = ReadSpare /\ length = Spare
                   /\ o.bits \in [1 .. length -> {0, 1}]
           \/ o.kind = "erase" /\ o.page \in 0 .. Pages - 1 /\ o.page % BlockPages = 0
           \/ o.kind = "id"
           \/ o.kind = "reset"
<1>1. CASE o \in Reads /\ o.length > 0
  <2>1. PICK p \in UsedPages, a \in ReadCommands, c \in 0 .. Base - 1 :
          o = [kind |-> "read", page |-> p, area |-> a, column |-> c,
               length |-> PageLen - Offset(a) - c]
    BY <1>1 DEF Reads
  <2>2. o.length \in Nat
    <3>1. PageLen - Offset(a) - c \in Int
      BY Geometry, GeometryAssumption DEF Offset
    <3>2. o.length = PageLen - Offset(a) - c
      BY <2>1
    <3> HIDE <2>1
    <3> QED BY <1>1, <3>1, <3>2
  <2>3. p \in 0 .. Pages - 1 /\ c \in Nat
    BY DriverAssumption, Geometry
  <2> QED BY <2>1, <2>2, <2>3
<1>2. CASE o \in Programs
  <2>1. PageLen \in Nat /\ Spare \in Nat /\ UsedPages \subseteq 0 .. Pages - 1
    BY Geometry, DriverAssumption
  <2> QED BY <1>2, <2>1 DEF Programs
<1>3. CASE o \in Erases
  BY <1>3, DriverAssumption DEF Erases
<1>4. CASE o \in {[kind |-> "id"], [kind |-> "reset"]}
  BY <1>4
<1> QED BY <1>1, <1>2, <1>3, <1>4 DEF Operations

LEMMA OperationCycles ==
    ASSUME NEW o \in Operations
    PROVE  /\ Cycles(o) \in Seq(Bus) /\ Len(Cycles(o)) \in Nat
           /\ o.kind = "read" => o.length \in Nat /\ Len(Cycles(o)) = 5 + o.length
<1>1. CASE o.kind = "read"
  BY <1>1, Kinds, ReadCycles
<1>2. CASE o.kind = "program"
  <2>1. PICK length \in Nat : /\ \/ o.area = ReadLow /\ length = PageLen
                                 \/ o.area = ReadSpare /\ length = Spare
                              /\ o.bits \in [1 .. length -> {0, 1}] /\ o.page \in 0 .. Pages - 1
    BY <1>2, Kinds
  <2>2. o.area \in ReadCommands
    BY <2>1, CommandValues
  <2>3. Cycles(o) \in Seq(Bus) /\ Len(Cycles(o)) = 9 + length
    BY <1>2, <2>1, <2>2, ProgramCycles
  <2> QED BY <1>2, <2>3
<1>3. CASE o.kind = "erase"
  BY <1>3, Kinds, EraseCycles
<1>4. CASE o.kind \in {"id", "reset"}
  BY <1>4, ShortCycles
<1> QED BY <1>1, <1>2, <1>3, <1>4, Kinds

\* One bus cycle of an operation carries it one step on, unless it is the first
\* and an assertion finds something half done.
LEMMA StepOf ==
    ASSUME NEW o \in Operations, NEW n \in 0 .. Len(Cycles(o)) - 1,
           n > 0 => InStep(o, n), Carries(Cycles(o)[n + 1])
    PROVE  \/ /\ n = 0 /\ Stopped /\ ~NothingHalfDone
              /\ Cycles(o)[n + 1] \notin Confirms
           \/ /\ process' = process /\ InStep(o, n + 1)'
              /\ zeros' = IF Cycles(o)[n + 1] \in Confirms THEN Effect(o, zeros) ELSE zeros
<1>1. CASE o.kind = "read"
  <2>1. InStep(o, n) <=> ReadInStep(o, n)
    BY <1>1 DEF InStep
  <2>2. ReadInStep(o, n + 1)' => InStep(o, n + 1)'
    BY <1>1 DEF InStep
  <2>3. o.page \in 0 .. Pages - 1 /\ o.area \in ReadCommands /\ o.column \in Nat /\ o.length \in Nat
    BY <1>1, Kinds
  <2> QED BY <1>1, <2>1, <2>2, <2>3, ReadStep
<1>2. CASE o.kind = "program"
  <2>1. InStep(o, n) <=> ProgramInStep(o, n)
    BY <1>2 DEF InStep
  <2>2. ProgramInStep(o, n + 1)' => InStep(o, n + 1)'
    BY <1>2 DEF InStep
  <2>3. PICK length \in Nat : /\ \/ o.area = ReadLow /\ length = PageLen
                                 \/ o.area = ReadSpare /\ length = Spare
                              /\ o.bits \in [1 .. length -> {0, 1}] /\ o.page \in 0 .. Pages - 1
    BY <1>2, Kinds
  <2> QED BY <1>2, <2>1, <2>2, <2>3, ProgramStep
<1>3. CASE o.kind = "erase"
  <2>1. InStep(o, n) <=> EraseInStep(o, n)
    BY <1>3 DEF InStep
  <2>2. EraseInStep(o, n + 1)' => InStep(o, n + 1)'
    BY <1>3 DEF InStep
  <2>3. o.page \in 0 .. Pages - 1 /\ o.page % BlockPages = 0
    BY <1>3, Kinds
  <2> QED BY <1>3, <2>1, <2>2, <2>3, EraseStep
<1>4. CASE o.kind = "id"
  <2>1. InStep(o, n) <=> IdInStep(n)
    BY <1>4 DEF InStep
  <2>2. IdInStep(n + 1)' => InStep(o, n + 1)'
    BY <1>4 DEF InStep
  <2> QED BY <1>4, <2>1, <2>2, IdStep
<1>5. CASE o.kind = "reset"
  <2>1. (nand_cmd' = <<>>) => InStep(o, n + 1)'
    BY <1>5 DEF InStep
  <2> QED BY <1>5, <2>1, ResetStep
<1> QED BY <1>1, <1>2, <1>3, <1>4, <1>5, Kinds

\* An operation whose last cycle is over leaves nothing that the next would
\* stumble over.
LEMMA Completed ==
    ASSUME NEW o \in Operations, NEW n, n = Len(Cycles(o)), InStep(o, n)'
    PROVE  NothingHalfDone'
<1>1. CASE o.kind = "read"
  <2>1. /\ o.length \in Nat /\ n = 5 + o.length /\ o.area \in ReadCommands
    BY <1>1, Kinds, OperationCycles
  <2>2. Clip(n - 1, 4) = 4
    BY <2>1, Clipped
  <2>3. /\ nand_cmd' = <<o.area>> /\ nand_data' = <<>>
        /\ Holds(nand_addr', Address(o.column, o.page), 4)
    BY <1>1, <2>2 DEF InStep, ReadInStep
  <2>4. Len(nand_cmd') = 1 /\ nand_cmd'[1] = o.area /\ Len(nand_data') = 0 /\ Len(nand_addr') = 4
    BY <2>3 DEF Holds
  <2> QED BY <2>1, <2>4 DEF NothingHalfDone, Lens
<1>2. CASE o.kind = "program"
  <2>1. PICK length \in Nat : /\ \/ o.area = ReadLow /\ length = PageLen
                                 \/ o.area = ReadSpare /\ length = Spare
                              /\ o.bits \in [1 .. length -> {0, 1}] /\ o.page \in 0 .. Pages - 1
    BY <1>2, Kinds
  <2>2. o.area \in ReadCommands
    BY <2>1, CommandValues
  <2>3. Len(o.bits) = length /\ n = 9 + length
    BY <1>2, <2>1, <2>2, ProgramCycles
  <2>4. ~(n <= 6 + length) /\ n # 7 + length /\ n - 7 - length = 2
    BY <2>3
  <2>5. StatusInStep(2)'
    BY <1>2, <2>3, <2>4 DEF InStep, ProgramInStep
  <2> QED BY <2>5 DEF StatusInStep, NothingHalfDone
<1>3. CASE o.kind = "erase"
  <2>1. n = 7
    BY <1>3, Kinds, EraseCycles
  <2>2. ~(n <= 5) /\ n - 5 = 2
    BY <2>1
  <2>3. StatusInStep(2)'
    BY <1>3, <2>2 DEF InStep, EraseInStep
  <2> QED BY <2>3 DEF StatusInStep, NothingHalfDone
<1>4. CASE o.kind \in {"id", "reset"}
  <2>1. o.kind = "id" => n = 4
    BY ShortCycles
  <2>2. nand_cmd' = <<>>
    BY <1>4, <2>1 DEF InStep, IdInStep
  <2> QED BY <2>2 DEF NothingHalfDone
<1> QED BY <1>1, <1>2, <1>3, <1>4, Kinds

LEMMA AllLeft == ASSUME NEW o \in Operations PROVE Left(o, 0) = Cycles(o)
<1>1. Cycles(o) \in Seq(Bus) /\ Len(Cycles(o)) \in Nat
  BY OperationCycles
<1>2. 0 + 1 = 1
  OBVIOUS
<1> QED BY <1>1, <1>2, SubSeqFull DEF Left

-----------------------------------------------------------------------------
(* OperationsWork *)

LEMMA DriverInitInv == DriverInit => DriverInv
<1> SUFFICES ASSUME DriverInit PROVE DriverInv
  OBVIOUS
<1>1. process \in {"debug", "release"} /\ process # "aborted"
  BY ModeAssumption DEF DriverInit, NandInit
<1> QED BY <1>1 DEF DriverInit, NandInit, DriverInv, NothingHalfDone

LEMMA BeginInv == DriverInv /\ Begin => DriverInv'
<1> SUFFICES ASSUME DriverInv, Begin PROVE DriverInv'
  OBVIOUS
<1>1. /\ op' \in Operations /\ todo' = Left(op', 0) /\ todo = <<>>
      /\ UNCHANGED <<nandVars, expected, disturbed>> /\ process # "aborted"
  BY AllLeft DEF Begin
<1>2. 0 \in 0 .. Len(Cycles(op'))
  BY <1>1, OperationCycles
<1>3. NothingHalfDone' = NothingHalfDone
  BY <1>1 DEF nandVars, NothingHalfDone, Lens
<1>4. \E o \in Operations : \E n \in 0 .. Len(Cycles(o)) :
        op' = o /\ todo' = Left(o, n) /\ (n > 0 => InStep(o, n)')
  BY <1>1, <1>2
<1> QED BY <1>1, <1>3, <1>4 DEF DriverInv, nandVars

LEMMA CycleInv == DriverInv /\ Cycle => DriverInv'
<1> SUFFICES ASSUME DriverInv, Cycle PROVE DriverInv'
  OBVIOUS
<1>1. /\ todo # <<>> /\ Carries(Head(todo)) /\ todo' = Tail(todo)
      /\ expected' = IF Head(todo) \in Confirms THEN Effect(op, expected) ELSE expected
      /\ UNCHANGED <<op, disturbed>>
  BY DEF Cycle, Carries, Confirms
<1>2. process # "aborted"
  BY <1>1, NoneAborted DEF Carries, write_cle
<1>3. /\ zeros = expected
      /\ ~disturbed /\ (todo = <<>> \/ todo = Cycles(op)) => NothingHalfDone
      /\ disturbed \in BOOLEAN /\ process \in {"debug", "release", "aborted"}
  BY <1>2 DEF DriverInv
<1>4. PICK o \in Operations : \E n \in 0 .. Len(Cycles(o)) :
        op = o /\ todo = Left(o, n) /\ (n > 0 => InStep(o, n))
  BY <1>1, <1>2 DEF DriverInv
<1>5. PICK n \in 0 .. Len(Cycles(o)) : op = o /\ todo = Left(o, n) /\ (n > 0 => InStep(o, n))
  BY <1>4
<1>6. Cycles(o) \in Seq(Bus) /\ Len(Cycles(o)) \in Nat
  BY OperationCycles
<1>7. n < Len(Cycles(o)) /\ Head(todo) = Cycles(o)[n + 1] /\ todo' = Left(o, n + 1)
  <2>1. /\ todo = <<>> <=> n = Len(Cycles(o))
        /\ n < Len(Cycles(o)) => /\ Head(todo) = Cycles(o)[n + 1]
                                 /\ Tail(todo) = SubSeq(Cycles(o), n + 2, Len(Cycles(o)))
    BY <1>5, <1>6, Remaining DEF Left
  <2>2. n < Len(Cycles(o)) /\ (n + 1) + 1 = n + 2
    BY <1>1, <1>6, <2>1
  <2> QED BY <1>1, <2>1, <2>2 DEF Left
<1>8. \/ /\ n = 0 /\ Stopped /\ ~NothingHalfDone
         /\ Head(todo) \notin Confirms
      \/ /\ process' = process /\ InStep(o, n + 1)'
         /\ zeros' = IF Head(todo) \in Confirms THEN Effect(o, zeros) ELSE zeros
  <2>1. n \in 0 .. Len(Cycles(o)) - 1
    BY <1>6, <1>7
  <2> QED BY <1>1, <1>5, <1>7, <2>1, StepOf
<1>9. CASE n = 0 /\ Stopped /\ ~NothingHalfDone
  <2>1. todo = Cycles(op)
    BY <1>5, <1>9, AllLeft
  <2>2. disturbed'
    BY <1>1, <1>3, <1>9, <2>1
  <2> QED BY <1>9, <2>2 DEF DriverInv, Stopped
<1>10. CASE /\ process' = process /\ InStep(o, n + 1)'
            /\ zeros' = IF Head(todo) \in Confirms THEN Effect(o, zeros) ELSE zeros
  <2>1. zeros' = expected'
    BY <1>1, <1>3, <1>5, <1>10
  <2>2. n + 1 \in 0 .. Len(Cycles(o))
    BY <1>6, <1>7
  <2>3. \E oo \in Operations : \E nn \in 0 .. Len(Cycles(oo)) :
          op' = oo /\ todo' = Left(oo, nn) /\ (nn > 0 => InStep(oo, nn)')
    BY <1>1, <1>5, <1>7, <1>10, <2>2
  <2>4. (todo' = <<>> \/ todo' = Cycles(op')) => NothingHalfDone'
    <3>1. /\ todo' = <<>> <=> n + 1 = Len(Cycles(o))
          /\ Len(todo') = Len(Cycles(o)) - (n + 1)
      BY <1>6, <1>7, <2>2, Remaining DEF Left
    <3>2. op' = o /\ todo' # Cycles(o)
      BY <1>1, <1>5, <1>6, <3>1
    <3> QED BY <1>10, <3>1, <3>2, Completed
  <2> QED BY <1>1, <1>2, <1>3, <1>10, <2>1, <2>3, <2>4 DEF DriverInv
<1> QED BY <1>8, <1>9, <1>10

LEMMA ResetInv == DriverInv /\ MachineReset => DriverInv'
<1> SUFFICES ASSUME DriverInv, MachineReset PROVE DriverInv'
  OBVIOUS
<1>1. NothingHalfDone' = NothingHalfDone
  BY DEF MachineReset, nandVars, NothingHalfDone, Lens
<1> QED BY <1>1 DEF DriverInv, MachineReset, nandVars

LEMMA StrayInv == DriverInv /\ StrayCycle => DriverInv'
<1> SUFFICES ASSUME DriverInv, StrayCycle PROVE DriverInv'
  OBVIOUS
<1>1. process # "aborted"
  BY NoneAborted DEF StrayCycle, GuestWritesCommand, GuestWritesAddress, GuestWritesData, GuestReads,
                     write_cle, WriteOther, Passes, Aborts
<1>2. op' = Idle /\ todo' = <<>> /\ expected' = zeros' /\ disturbed' = TRUE
  <2>1. \A o \in Operations : o # Idle
    BY Kinds DEF Idle
  <2> QED BY <1>1, <2>1 DEF DriverInv, StrayCycle
<1>3. process' = process \/ process' = "aborted"
  <2>1. CASE GuestWritesCommand
    BY <2>1, CommandHandlers DEF StartCommand, ProgramSpare, ProgramPage, ProgramArea,
       ProgramUnexpected, EraseBlock, BeginProgram, write_data, Aborts, Stopped, nandVars
  <2>2. CASE GuestWritesAddress \/ GuestWritesData \/ GuestReads
    BY <2>2 DEF GuestWritesAddress, GuestWritesData, GuestReads, write_ale, write_data, Aborts,
       read_nand, ReadNothing, ReadsMaker, ReadsData, ReadsStatus, ReadsDevice, ReadsUnexpected
  <2> QED BY <2>1, <2>2 DEF StrayCycle
<1> QED BY <1>1, <1>2, <1>3 DEF DriverInv

LEMMA DriverStill == DriverInv /\ UNCHANGED driverVars => DriverInv'
<1> SUFFICES ASSUME DriverInv, UNCHANGED driverVars PROVE DriverInv'
  OBVIOUS
<1>1. UNCHANGED <<nand_cmd, nand_addr, nand_data, nand_read_cnt, zeros, out, process,
                  todo, op, expected, disturbed>>
  BY DEF driverVars, nandVars
<1>2. NothingHalfDone' = NothingHalfDone
  BY <1>1 DEF NothingHalfDone, Lens
<1>3. \A o, n : InStep(o, n)' = InStep(o, n)
  BY <1>1 DEF InStep, ReadInStep, ProgramInStep, EraseInStep, IdInStep, StatusInStep
<1> QED BY <1>1, <1>2, <1>3 DEF DriverInv

LEMMA DriverInvWorks == DriverInv => OperationsWork
<1> SUFFICES ASSUME DriverInv PROVE OperationsWork
  OBVIOUS
<1>1. NoAbort /\ ArrayAsExpected
  BY DEF DriverInv, NoAbort, ArrayAsExpected
<1>2. ReadsBack
  <2> SUFFICES ASSUME op.kind = "read", Len(todo) < op.length, process # "aborted"
               PROVE  LET k == op.length - Len(todo)
                          cell == op.page * PageLen + Offset(op.area) + op.column + k - 1
                      IN  out = <<"data", IF cell \in expected THEN 0 ELSE 1>>
    BY DEF ReadsBack
  <2>1. op # Idle
    BY DEF Idle
  <2>2. PICK o \in Operations : \E n \in 0 .. Len(Cycles(o)) :
          op = o /\ todo = Left(o, n) /\ (n > 0 => InStep(o, n))
    BY <2>1 DEF DriverInv
  <2>3. PICK n \in 0 .. Len(Cycles(o)) : op = o /\ todo = Left(o, n) /\ (n > 0 => InStep(o, n))
    BY <2>2
  <2>4. Cycles(o) \in Seq(Bus) /\ o.length \in Nat /\ Len(Cycles(o)) = 5 + o.length
    BY <2>3, OperationCycles
  <2>5. n \in Nat /\ Len(todo) = 5 + o.length - n
    <3>1. Len(todo) = Len(Cycles(o)) - n
      BY <2>3, <2>4, Remaining DEF Left
    <3> QED BY <2>4, <3>1
  <2>6. n > 5 /\ o.length - Len(todo) = n - 5
    BY <2>3, <2>4, <2>5
  <2>7. ReadInStep(o, n)
    <3>1. InStep(o, n) /\ o.kind = "read"
      BY <2>3, <2>5, <2>6
    <3> QED BY <3>1 DEF InStep
  <2> DEFINE start == o.page * PageLen + Offset(o.area) + o.column
  <2>8. out = <<"data", IF start + n - 6 \in zeros THEN 0 ELSE 1>>
    BY <2>6, <2>7 DEF ReadInStep
  <2>9. start \in Int
    <3>1. o.page \in Int /\ o.column \in Int /\ Offset(o.area) \in Int /\ PageLen \in Int
      BY <2>3, Kinds, Geometry, GeometryAssumption DEF Offset
    <3> QED BY <3>1
  <2> HIDE DEF start
  <2>10. start + (o.length - Len(todo)) - 1 = start + n - 6
    BY <2>3, <2>4, <2>6, <2>9
  <2>11. zeros = expected
    BY DEF DriverInv
  <2> QED BY <2>3, <2>8, <2>10, <2>11 DEF start
<1> QED BY <1>1, <1>2 DEF OperationsWork

\* Whatever wild programs and cut-off operations left in the queues, every
\* operation of the system software takes effect at its confirm byte, at its
\* own page and nowhere else, a read returns what it asked for, and a build
\* that checks its assertions lets it (read_nand, nand_write).
THEOREM OperationsAlwaysWork == DriverSpec => []OperationsWork
<1>1. DriverInv /\ [DriverNext]_driverVars => DriverInv'
  BY BeginInv, CycleInv, ResetInv, StrayInv, DriverStill DEF DriverNext
<1> QED BY <1>1, DriverInitInv, DriverInvWorks, PTL DEF DriverSpec
=============================================================================
