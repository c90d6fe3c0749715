---------------------------- MODULE CommandProofs ----------------------------
(***************************************************************************)
(* Proofs about the console and about what its commands do.                *)
(*                                                                         *)
(*   - Console: the cursor and the place in the history stay in range, and *)
(*     the line being edited is not lost, for any texts and lengths.       *)
(*   - FileTransfer: a transfer that ends has copied its file, for any     *)
(*     files, whatever was cut short before it, on both ROMs.              *)
(*   - SaveRestore: the state file is never ahead of the flash images, and *)
(*     loading the files of a complete save brings its moment back, for    *)
(*     any number of steps, any order of the NOR's halves and any failure. *)
(***************************************************************************)
EXTENDS Console, FileTransfer, SaveRestore, SequenceTheorems, TLAPS

(*                                 Console                                 *)

Line == Seq(Nat)

LinesTyped == /\ console_input \in Line /\ save_of_current \in Line /\ typed \in Line
              /\ history \in Seq(Line)

\* Out of the history, the line shown is the line being typed.
ConsoleInv == /\ LinesTyped
              /\ ConsoleInRange
              /\ SavedLineKept
              /\ history_index = 0 => typed = console_input

-----------------------------------------------------------------------------
(* Lines *)

LEMMA ClampedInLine ==
    ASSUME NEW position \in Int, NEW line \in Line
    PROVE  Clamped(position, line) \in 0 .. Len(line)
BY DEF Clamped, Line

LEMMA FollowedInLine ==
    ASSUME NEW line \in Line, cursor \in Int
    PROVE  Followed(line) \in 0 .. Len(line)
BY ClampedInLine DEF Followed, Line

LEMMA WithoutShortens ==
    ASSUME NEW line \in Line, NEW i \in 1 .. Len(line)
    PROVE  Without(line, i) \in Line /\ Len(Without(line, i)) = Len(line) - 1
<1> DEFINE head == SubSeq(line, 1, i - 1)
           tail == SubSeq(line, i + 1, Len(line))
<1>1. head \in Line /\ Len(head) = i - 1
  BY DEF Line
<1>2. tail \in Line /\ Len(tail) = Len(line) - i
  BY DEF Line
<1>3. Without(line, i) = head \o tail
  BY DEF Without
<1> HIDE DEF head, tail
<1> QED BY <1>1, <1>2, <1>3 DEF Line

LEMMA EntryIsLine ==
    ASSUME LinesTyped, NEW index \in 1 .. Len(history)
    PROVE  Entry(index) \in Line
BY DEF LinesTyped, Entry

LEMMA NewestFits ==
    ASSUME NEW lines \in Seq(Line), Len(lines) <= HistoryLimit + 1
    PROVE  Newest(lines) \in Seq(Line) /\ Len(Newest(lines)) <= HistoryLimit
BY ConsoleAssumption DEF Newest
-----------------------------------------------------------------------------
(* Steps *)

LEMMA UpKeeps == ASSUME ConsoleInv, Up, Typed PROVE ConsoleInv'
<1> USE DEF ConsoleInv, LinesTyped, ConsoleInRange, SavedLineKept, Typed, Up
<1>1. CASE history_index < Len(history)
  <2>1. Entry(history_index + 1) \in Line
    BY <1>1, EntryIsLine
  <2>2. cursor' \in 0 .. Len(console_input')
    BY <1>1, <2>1, FollowedInLine
  <2> QED BY <1>1, <2>1, <2>2
<1>2. CASE ~(history_index < Len(history))
  BY <1>2
<1> QED BY <1>1, <1>2

LEMMA DownKeeps == ASSUME ConsoleInv, Down, Typed PROVE ConsoleInv'
<1> DEFINE line == IF history_index = 1 THEN save_of_current ELSE Entry(history_index - 1)
<1> USE DEF ConsoleInv, LinesTyped, ConsoleInRange, SavedLineKept, Typed
<1>1. line \in Line
  BY EntryIsLine DEF Down
<1>2. console_input' = line /\ cursor' = Followed(line)
  BY DEF Down
<1>3. cursor' \in 0 .. Len(console_input')
  BY <1>1, <1>2, FollowedInLine
<1> HIDE DEF line
<1> QED BY <1>1, <1>2, <1>3 DEF Down

LEMMA EditKeeps ==
    ASSUME ConsoleInv, NEW key, NEW shift \in BOOLEAN, Edit(key, shift) PROVE ConsoleInv'
<1> USE DEF ConsoleInv, LinesTyped, ConsoleInRange, SavedLineKept
<1>0. Typed
  BY DEF Edit
<1>1. CASE Backspace
  <2>1. console_input' \in Line /\ cursor' \in 0 .. Len(console_input')
    <3>1. CASE cursor > 0
      <4>1. cursor \in 1 .. Len(console_input)
        BY <3>1 DEF Line
      <4>2. console_input' = Without(console_input, cursor) /\ cursor' = cursor - 1
        BY <1>1, <3>1 DEF Backspace
      <4>3. /\ Without(console_input, cursor) \in Line
            /\ Len(Without(console_input, cursor)) = Len(console_input) - 1
        BY <4>1, WithoutShortens
      <4> QED BY <4>1, <4>2, <4>3 DEF Line
    <3>2. CASE ~(cursor > 0)
      BY <1>1, <3>2 DEF Backspace
    <3> QED BY <3>1, <3>2
  <2> QED BY <1>0, <1>1, <2>1 DEF Backspace, Typed
<1>2. CASE \E by \in {Leap, 1, -Leap, -1} : Move(by)
  <2>1. PICK by \in Int : Move(by)
    BY <1>2, ConsoleAssumption
  <2>2. cursor' \in 0 .. Len(console_input')
    BY <2>1, ClampedInLine DEF Move
  <2>3. UNCHANGED <<console_on, console_input, history, history_index, save_of_current>>
    BY <2>1 DEF Move
  <2> QED BY <1>0, <2>2, <2>3 DEF Typed
<1>3. CASE Up
  BY <1>0, <1>3, UpKeeps
<1>4. CASE Down
  BY <1>0, <1>4, DownKeeps
<1>5. CASE AtBottom
  BY <1>0, <1>5 DEF AtBottom, Typed
<1>6. CASE Escape
  BY <1>0, <1>6 DEF Escape, Leave, Typed, Line
<1>7. CASE Return
  <2>1. history' \in Seq(Line) /\ Len(history') <= HistoryLimit
    <3>1. CASE console_input = <<>>
      BY <1>7, <3>1 DEF Return
    <3>2. CASE console_input /= <<>>
      <4>1. history' = Newest(Append(history, console_input))
        BY <1>7, <3>2 DEF Return
      <4>2. /\ Append(history, console_input) \in Seq(Line)
            /\ Len(Append(history, console_input)) = Len(history) + 1
        OBVIOUS
      <4> DEFINE lines == Append(history, console_input)
      <4> HIDE DEF lines
      <4>3. lines \in Seq(Line) /\ Len(lines) <= HistoryLimit + 1
        BY <4>2, ConsoleAssumption DEF lines
      <4>4. Newest(lines) \in Seq(Line) /\ Len(Newest(lines)) <= HistoryLimit
        BY <4>3, NewestFits
      <4> QED BY <4>1, <4>4 DEF lines
    <3> QED BY <3>1, <3>2
  <2> QED BY <1>0, <1>7, <2>1 DEF Return, Leave, Typed, Line
<1> QED BY <1>1, <1>2, <1>3, <1>4, <1>5, <1>6, <1>7 DEF Edit

LEMMA TextKeeps ==
    ASSUME ConsoleInv, NEW text \in Texts, input_text(text) PROVE ConsoleInv'
<1> USE DEF ConsoleInv, LinesTyped, ConsoleInRange, SavedLineKept
<1> DEFINE head == SubSeq(console_input, 1, cursor)
           tail == SubSeq(console_input, cursor + 1, Len(console_input))
<1>1. head \in Line /\ Len(head) = cursor
  BY DEF Line
<1>2. tail \in Line /\ Len(tail) = Len(console_input) - cursor
  BY DEF Line
<1>3. text \in Line
  BY ConsoleAssumption DEF Line
<1>4. console_input' = head \o text \o tail /\ cursor' = cursor + Len(text)
  BY DEF input_text
<1> HIDE DEF head, tail
<1>5. console_input' \in Line /\ cursor' \in 0 .. Len(console_input')
  BY <1>1, <1>2, <1>3, <1>4 DEF Line
<1>6. UNCHANGED <<console_on, history, history_index, save_of_current>>
  BY DEF input_text
<1>7. Typed
  BY DEF input_text
<1> QED BY <1>5, <1>6, <1>7 DEF Typed

LEMMA ConsoleInvariant == ConsoleSpec => []ConsoleInv
<1>1. ConsoleInit => ConsoleInv
  BY ConsoleAssumption DEF ConsoleInit, ConsoleInv, LinesTyped, ConsoleInRange, SavedLineKept, Line
<1>2. ConsoleInv /\ [ConsoleNext]_consoleVars => ConsoleInv'
  <2> SUFFICES ASSUME ConsoleInv, [ConsoleNext]_consoleVars PROVE ConsoleInv'
    OBVIOUS
  <2>1. ASSUME NEW key, NEW shift \in BOOLEAN, handle_console(key, shift) PROVE ConsoleInv'
    <3>1. CASE Toggle
      BY <3>1 DEF Toggle, Typed, ConsoleInv, LinesTyped, ConsoleInRange, SavedLineKept
    <3>2. CASE Edit(key, shift)
      BY <3>2, EditKeeps
    <3>3. CASE OtherKey
      BY <3>3 DEF OtherKey, Typed, ConsoleInv, LinesTyped, ConsoleInRange, SavedLineKept
    <3>4. CASE UNCHANGED consoleVars
      BY <3>4 DEF consoleVars, ConsoleInv, LinesTyped, ConsoleInRange, SavedLineKept
    <3> QED BY <2>1, <3>1, <3>2, <3>3, <3>4 DEF handle_console
  <2>2. ASSUME NEW text \in Texts, input_text(text) PROVE ConsoleInv'
    BY <2>2, TextKeeps
  <2>3. CASE UNCHANGED consoleVars
    BY <2>3 DEF consoleVars, ConsoleInv, LinesTyped, ConsoleInRange, SavedLineKept
  <2> QED BY <2>1, <2>2, <2>3 DEF ConsoleNext
<1> QED BY <1>1, <1>2, PTL DEF ConsoleSpec
-----------------------------------------------------------------------------
\* Neither insert() nor erase() throws and the history is never subscripted out
\* of its bounds, whatever keys and texts come.
THEOREM ConsoleAlwaysInRange == ConsoleSpec => []ConsoleInRange
<1>1. ConsoleInv => ConsoleInRange
  BY DEF ConsoleInv
<1> QED BY <1>1, ConsoleInvariant, PTL

\* The way down through the history ends at the line that the user was typing
\* when the way up began.
THEOREM ConsoleKeepsLine == ConsoleSpec => []SavedLineKept
<1>1. ConsoleInv => SavedLineKept
  BY DEF ConsoleInv
<1> QED BY <1>1, ConsoleInvariant, PTL
-----------------------------------------------------------------------------
(*                              FileTransfer                               *)

(* Files *)

\* A byte that the guest appends leaves the front of what is still to come.
LEMMA MovesOver ==
    ASSUME NEW file \in FileBytes, NEW byte \in 0 .. 255, NEW rest \in FileBytes
    PROVE  Append(file, byte) \o rest = file \o (<<byte>> \o rest)
<1>1. <<byte>> \in FileBytes
  BY DEF FileBytes
<1>2. Append(file, byte) = file \o <<byte>>
  BY AppendIsConcat DEF FileBytes
<1> QED BY <1>1, <1>2, ConcatAssociative DEF FileBytes

LEMMA HeadFirst ==
    ASSUME NEW rest \in FileBytes, rest # <<>>
    PROVE  /\ Head(rest) \in 0 .. 255 /\ Tail(rest) \in FileBytes
           /\ rest = <<Head(rest)>> \o Tail(rest)
<1>1. Head(rest) \in 0 .. 255 /\ Tail(rest) \in FileBytes
  BY HeadTailProperties DEF FileBytes
<1>2. Len(rest) \in Nat \ {0} /\ rest = SubSeq(rest, 1, Len(rest))
  BY EmptySeq, SubSeqFull DEF FileBytes
<1>3. SubSeq(rest, 1, Len(rest)) = <<rest[1]>> \o SubSeq(rest, 2, Len(rest))
  <2>1. 1 \in 1 .. Len(rest) /\ Len(rest) \in 1 .. Len(rest)
    BY <1>2
  <2> QED BY <2>1, SubSeqRecursiveFirst DEF FileBytes
<1>4. Head(rest) = rest[1] /\ Tail(rest) = SubSeq(rest, 2, Len(rest))
  BY TailIsSubSeq DEF FileBytes
<1> QED BY <1>1, <1>2, <1>3, <1>4

\* The emulator appends the byte after those it has.
LEMMA NextByte ==
    ASSUME NEW had \in FileBytes, NEW file \in FileBytes, NEW n \in 1 .. Len(file)
    PROVE  /\ file[n] \in 0 .. 255
           /\ SubSeq(file, 1, n - 1) \in FileBytes
           /\ Append(had \o SubSeq(file, 1, n - 1), file[n]) = had \o SubSeq(file, 1, n)
<1> DEFINE part == SubSeq(file, 1, n - 1)
<1>1. file[n] \in 0 .. 255 /\ \A i \in 1 .. n - 1 : file[i] \in 0 .. 255
  <2>1. \A i \in 1 .. Len(file) : file[i] \in 0 .. 255
    BY ElementOfSeq DEF FileBytes
  <2>2. Len(file) \in Nat
    BY LenProperties DEF FileBytes
  <2> QED BY <2>1, <2>2
<1>2. part \in FileBytes
  BY <1>1, SubSeqProperties DEF FileBytes
<1>3. SubSeq(file, 1, n) = part \o <<file[n]>>
  <2>1. 1 \in 1 .. Len(file) /\ n \in 1 .. Len(file)
    BY LenProperties DEF FileBytes
  <2> QED BY <2>1, SubSeqRecursiveSecond DEF FileBytes
<1> HIDE DEF part
<1>4. had \o part \in FileBytes /\ <<file[n]>> \in FileBytes
  BY <1>1, <1>2, ConcatProperties DEF FileBytes
<1>5. Append(had \o part, file[n]) = (had \o part) \o <<file[n]>>
  BY <1>1, <1>4, AppendIsConcat DEF FileBytes
<1>6. (had \o part) \o <<file[n]>> = had \o (part \o <<file[n]>>)
  BY <1>2, <1>4, ConcatAssociative DEF FileBytes
<1> QED BY <1>1, <1>2, <1>3, <1>5, <1>6 DEF part

LEMMA WholeAndNone ==
    ASSUME NEW had \in FileBytes, NEW file \in FileBytes
    PROVE  /\ had \o SubSeq(file, 1, 0) = had
           /\ had \o SubSeq(file, 1, Len(file)) = had \o file
           /\ had \o <<>> = had /\ <<>> \in FileBytes /\ Len(file) \in Nat
<1>1. SubSeq(file, 1, 0) = <<>>
  BY SubSeqEmpty
<1> QED BY <1>1, SubSeqFull, ConcatEmptySeq, EmptySeq, LenProperties DEF FileBytes

-----------------------------------------------------------------------------
LEMMA TransferInitInv == TransferInit => TransferInv
<1> SUFFICES ASSUME TransferInit PROVE TransferInv
  OBVIOUS
<1> USE DEF TransferInit
<1>1. <<>> \in FileBytes
  BY EmptySeq DEF FileBytes
<1>2. TransferTypeOK
  <2>1. Contents \cup {Missing} \subseteq FileBytes \cup {Missing}
    BY TransferAssumption
  <2>2. host \in [Names -> FileBytes \cup {Missing}] /\ disk \in [Names -> FileBytes \cup {Missing}]
    BY <2>1
  <2> QED BY <1>1, <2>2 DEF TransferTypeOK, NoFile, Closed, Ended
<1> QED BY <1>2 DEF TransferInv, PutProgress, GetProgress, LeftoversKept

\* A command leaves the emulator's queues of the other direction alone.
LEMMA PutInv ==
    ASSUME TransferInv, NEW source \in Names, NEW goal \in Names, put(source, goal)
    PROVE  TransferInv'
<1> USE DEF put, files, getVars
<1>1. host[source] \in FileBytes
  BY DEF TransferInv, TransferTypeOK
<1>2. TransferTypeOK'
  BY <1>1 DEF TransferInv, TransferTypeOK, PutSteps
<1>3. PutProgress' /\ GetProgress'
  BY DEF PutProgress, GetProgress
<1>4. LeftoversKept'
  BY DEF TransferInv, TransferTypeOK, LeftoversKept, CutShort, PutSteps, GetSteps, Ended
<1> QED BY <1>2, <1>3, <1>4 DEF TransferInv

LEMMA GetInv ==
    ASSUME TransferInv, NEW source \in Names, NEW goal \in Names, get(source, goal)
    PROVE  TransferInv'
<1> USE DEF get, files, putVars
<1>1. File(name)' \in FileBytes
  <2>1. <<>> \in FileBytes /\ disk'[source] \in FileBytes \cup {Missing}
    BY EmptySeq DEF TransferInv, TransferTypeOK, FileBytes
  <2> QED BY <2>1 DEF File
<1>2. TransferTypeOK'
  BY <1>1 DEF TransferInv, TransferTypeOK, GetSteps
<1>3. PutProgress' /\ GetProgress'
  BY <1>1 DEF PutProgress, GetProgress
<1>4. LeftoversKept'
  BY DEF TransferInv, TransferTypeOK, LeftoversKept, CutShort, PutSteps, GetSteps, Ended
<1> QED BY <1>2, <1>3, <1>4 DEF TransferInv

LEMMA DivertInv == ASSUME TransferInv, Divert PROVE TransferInv'
<1> USE DEF Divert, putVars, getVars
<1>1. TransferTypeOK'
  BY DEF TransferInv, TransferTypeOK, NoFile, Ended
<1>2. PutProgress' /\ GetProgress'
  BY DEF PutProgress, GetProgress
<1>3. LeftoversKept'
  BY DEF TransferInv, TransferTypeOK, LeftoversKept, CutShort, PutSteps, GetSteps, Ended
<1> QED BY <1>1, <1>2, <1>3 DEF TransferInv

-----------------------------------------------------------------------------
(* The services that the programs call, by their numbers on either ROM *)

LEMMA Services ==
    /\ Call(Own(29)) => Delete
    /\ Call(Own(21)) => OpenFile
    /\ Call(Own(24)) => WriteFile
    /\ Call(Own(22)) => ReadFile
    /\ Call(Own(23)) => CloseFile
    /\ Call(22) => IF Rom = "nc2600" THEN CloseFile ELSE ReadFile
<1> USE DEF Call
<1>1. CASE Rom = "nc2600"
  <2>1. Own(29) = 28 /\ Own(21) = 20 /\ Own(24) = 23 /\ Own(22) = 21 /\ Own(23) = 22
    BY <1>1 DEF Own
  <2>2. Call(28) => Delete
    BY <1>1
  <2>3. Call(20) => OpenFile
    BY <1>1
  <2>4. Call(23) => WriteFile
    BY <1>1
  <2>5. Call(21) => ReadFile
    BY <1>1
  <2>6. Call(22) => CloseFile
    BY <1>1
  <2> HIDE DEF Call
  <2> QED BY <1>1, <2>1, <2>2, <2>3, <2>4, <2>5, <2>6
<1>2. CASE Rom = "nc2000"
  <2>1. Own(29) = 29 /\ Own(21) = 21 /\ Own(24) = 24 /\ Own(22) = 22 /\ Own(23) = 23
    BY <1>2 DEF Own
  <2>2. Call(29) => Delete
    BY <1>2
  <2>3. Call(21) => OpenFile
    BY <1>2
  <2>4. Call(24) => WriteFile
    BY <1>2
  <2>5. Call(22) => ReadFile
    BY <1>2
  <2>6. Call(23) => CloseFile
    BY <1>2
  <2> HIDE DEF Call
  <2> QED BY <1>2, <2>1, <2>2, <2>3, <2>4, <2>5, <2>6
<1> QED BY <1>1, <1>2, TransferAssumption

\* A step of put keeps what get relies on, and the other way round.
LEMMA PutCallInv == ASSUME TransferInv, PutCall PROVE TransferInv'
<1> USE DEF PutCall, putVars, getVars, quietly, record, Goto
<1>0. program = "put" /\ program' = "put" /\ name' = name /\ GetProgress'
  BY DEF GetProgress
<1>1. LeftoversKept'
  BY DEF TransferInv, LeftoversKept
<1>2. ASSUME pc = "delete", pc' = "open", Delete PROVE TransferTypeOK' /\ PutProgress'
  <2>1. TransferTypeOK'
    BY <1>2 DEF Delete, TransferInv, TransferTypeOK, PutSteps
  <2>2. PutProgress'
    BY <1>2 DEF Delete, TransferInv, PutProgress
  <2> QED BY <2>1, <2>2
<1>3. ASSUME pc = "open", pc' = "ask", OpenFile PROVE TransferTypeOK' /\ PutProgress'
  <2>1. name \in Names /\ <<>> \in FileBytes /\ sent \in FileBytes /\ sent = <<>> \o sent
    <3>1. <<>> \in FileBytes
      BY EmptySeq DEF FileBytes
    <3>2. name \in Names /\ sent \in FileBytes
      BY DEF TransferInv, TransferTypeOK
    <3> QED BY <3>1, <3>2, ConcatEmptySeq DEF FileBytes
  <2>2. disk' = [disk EXCEPT ![name] = <<>>] /\ handle' = [name |-> name, position |-> 0]
    <3>1. disk' = [disk EXCEPT ![name] = <<>>]
      BY <1>3 DEF OpenFile
    <3>2. disk'[name] = <<>>
      BY <2>1, <3>1 DEF TransferInv, TransferTypeOK
    <3> QED BY <1>3, <2>1, <3>1, <3>2, TransferAssumption DEF OpenFile
  <2>3. TransferTypeOK'
    BY <1>3, <2>1, <2>2 DEF OpenFile, TransferInv, TransferTypeOK, PutSteps
  <2>4. disk'[name] = <<>>
    BY <2>1, <2>2 DEF TransferInv, TransferTypeOK
  <2>5. PutProgress'
    BY <1>3, <2>1, <2>2, <2>4 DEF TransferInv, PutProgress
  <2> QED BY <2>3, <2>5
<1>4. ASSUME pc = "write", pc' = "ask", WriteFile PROVE TransferTypeOK' /\ PutProgress'
  <2>1. /\ name \in Names /\ buffer \in 0 .. 255 /\ queue \in FileBytes
        /\ disk[name] \in FileBytes /\ handle.name = name
        /\ sent = disk[name] \o (<<buffer>> \o queue)
    BY <1>4 DEF TransferInv, TransferTypeOK, PutProgress
  <2>2. disk' = [disk EXCEPT ![name] = Append(disk[name], buffer)]
    BY <1>4, <2>1 DEF WriteFile
  <2>3. Append(disk[name], buffer) \in FileBytes
    BY <2>1, AppendProperties DEF FileBytes
  <2>4. TransferTypeOK'
    BY <1>4, <2>1, <2>2, <2>3 DEF WriteFile, TransferInv, TransferTypeOK, PutSteps
  <2>5. disk'[name] = Append(disk[name], buffer)
    BY <2>1, <2>2 DEF TransferInv, TransferTypeOK
  <2>6. sent = disk'[name] \o queue
    BY <2>1, <2>5, MovesOver
  <2>7. PutProgress'
    BY <1>4, <2>1, <2>3, <2>5, <2>6 DEF TransferInv, PutProgress, WriteFile
  <2> QED BY <2>4, <2>7
<1>5. ASSUME pc = "close", pc' = "exit", CloseFile PROVE TransferTypeOK' /\ PutProgress'
  <2>1. TransferTypeOK'
    BY <1>5 DEF CloseFile, TransferInv, TransferTypeOK, PutSteps, NoFile
  <2>2. PutProgress'
    BY <1>5 DEF CloseFile, TransferInv, PutProgress
  <2> QED BY <2>1, <2>2
<1>6. \/ pc = "delete" /\ pc' = "open" /\ Delete
      \/ pc = "open" /\ pc' = "ask" /\ OpenFile
      \/ pc = "write" /\ pc' = "ask" /\ WriteFile
      \/ pc = "close" /\ pc' = "exit" /\ CloseFile
  BY Services
<1>7. TransferTypeOK' /\ PutProgress'
  BY <1>2, <1>3, <1>4, <1>5, <1>6
<1> QED BY <1>0, <1>1, <1>7 DEF TransferInv

\* The program asks at count 0 only, so that the answer is the emulator's.
LEMMA PutAskInv == ASSUME TransferInv, PutAsk PROVE TransferInv'
<1> USE DEF PutAsk, files, getVars, quietly, record, Goto
<1>1. program = "put" /\ pc = "ask" /\ dummy_io_cnt = 0 /\ name' = name /\ disk' = disk
  BY DEF TransferInv, PutProgress
<1>2. PICK value \in 0 .. 1 : dummy_io_for_read(value) /\ pc' = IF value = 0 THEN "close" ELSE "fetch"
  BY <1>1 DEF Closed
<1>3. /\ disk[name] \in FileBytes /\ sent = disk[name] \o queue /\ handle.name = name
  BY <1>1 DEF TransferInv, PutProgress
<1>4. CASE queue = <<>>
  <2>1. dummy_io_cnt' = Closed /\ queue' = <<>> /\ pc' = "close"
    BY <1>2, <1>4 DEF dummy_io_for_read
  <2>2. TransferTypeOK'
    BY <1>1, <1>4, <2>1 DEF TransferInv, TransferTypeOK, PutSteps
  <2>3. PutProgress' /\ GetProgress' /\ LeftoversKept'
    BY <1>1, <1>3, <1>4, <2>1 DEF TransferInv, PutProgress, GetProgress, LeftoversKept
  <2> QED BY <2>2, <2>3 DEF TransferInv
<1>5. CASE queue # <<>>
  <2>1. dummy_io_cnt' = 1 /\ queue' = queue /\ pc' = "fetch"
    BY <1>1, <1>2, <1>5 DEF dummy_io_for_read, Flip
  <2>2. TransferTypeOK'
    BY <1>1, <2>1 DEF TransferInv, TransferTypeOK, PutSteps
  <2>3. PutProgress' /\ GetProgress' /\ LeftoversKept'
    BY <1>1, <1>3, <1>5, <2>1 DEF TransferInv, PutProgress, GetProgress, LeftoversKept
  <2> QED BY <2>2, <2>3 DEF TransferInv
<1> QED BY <1>4, <1>5

LEMMA PutFetchInv == ASSUME TransferInv, PutFetch PROVE TransferInv'
<1> USE DEF PutFetch, files, getVars, quietly, record, Goto
<1>1. /\ program = "put" /\ pc = "fetch" /\ dummy_io_cnt = 1 /\ queue # <<>>
      /\ name' = name /\ disk' = disk /\ pc' = "write"
      /\ queue \in FileBytes /\ disk[name] \in FileBytes
      /\ sent = disk[name] \o queue /\ handle.name = name
  BY DEF TransferInv, PutProgress, TransferTypeOK
<1>2. dummy_io_cnt' = 0 /\ buffer' = Head(queue) /\ queue' = Tail(queue)
  BY <1>1 DEF dummy_io_for_read, Flip, Closed
<1>3. buffer' \in 0 .. 255 /\ queue' \in FileBytes /\ queue = <<buffer'>> \o queue'
  BY <1>1, <1>2, HeadFirst
<1>4. TransferTypeOK'
  BY <1>1, <1>2, <1>3 DEF TransferInv, TransferTypeOK, PutSteps
<1>5. PutProgress' /\ GetProgress' /\ LeftoversKept'
  BY <1>1, <1>2, <1>3 DEF TransferInv, PutProgress, GetProgress, LeftoversKept
<1> QED BY <1>4, <1>5 DEF TransferInv

-----------------------------------------------------------------------------
(* get *)

LEMMA GetCallInv == ASSUME TransferInv, GetCall PROVE TransferInv'
<1> USE DEF GetCall, putVars, getVars, quietly, record, Goto
<1>0. /\ program = "get" /\ program' = "get" /\ name' = name /\ PutProgress'
      /\ name \in Names /\ File(name) \in FileBytes /\ Len(File(name)) \in Nat
      /\ before \in FileBytes
  <2>1. program = "get" /\ name \in Names /\ File(name) \in FileBytes /\ before \in FileBytes
    BY DEF TransferInv, TransferTypeOK, GetProgress, GetSteps, PutSteps
  <2>2. Len(File(name)) \in Nat
    BY <2>1, LenProperties DEF FileBytes
  <2> QED BY <2>1, <2>2 DEF PutProgress
<1>1. LeftoversKept'
  BY DEF TransferInv, LeftoversKept
<1>2. ASSUME pc = "open", pc' = "read", OpenFile PROVE TransferTypeOK' /\ GetProgress'
  <2>1. /\ disk' = disk /\ handle'.position = 0
        /\ handle' \in [name : Names \cup {Missing}, position : Nat]
        /\ \/ handle'.name = name /\ disk[name] = File(name)
           \/ handle' = NoFile /\ File(name) = <<>>
    BY <1>0, <1>2 DEF OpenFile, NoFile, File
  <2>2. TransferTypeOK'
    BY <1>0, <1>2, <2>1 DEF OpenFile, TransferInv, TransferTypeOK, GetSteps
  <2>3. queue_for_write = before \o SubSeq(File(name), 1, 0)
    BY <1>0, <1>2, WholeAndNone DEF TransferInv, GetProgress
  <2>4. File(name)' = File(name)
    BY <1>0, <2>1 DEF File
  <2>5. GetProgress'
    BY <1>0, <1>2, <2>1, <2>3, <2>4 DEF TransferInv, GetProgress, OpenFile
  <2> QED BY <2>2, <2>5
<1>3. ASSUME pc = "read", ReadFile, AtEnd, pc' = "stop" PROVE TransferTypeOK' /\ GetProgress'
  <2>1. \/ handle.name = name /\ disk[name] = File(name) /\ handle # NoFile
        \/ handle = NoFile /\ File(name) = <<>>
    BY <1>0, <1>3, TransferAssumption DEF TransferInv, GetProgress, NoFile
  <2>2. handle.position = Len(File(name))
    BY <1>3, <2>1 DEF AtEnd, NoFile
  <2>3. queue_for_write = before \o File(name)
    BY <1>0, <1>3, <2>2, WholeAndNone DEF TransferInv, GetProgress
  <2>4. UNCHANGED <<handle, buffer, host, disk>>
    BY <1>3 DEF ReadFile
  <2>5. TransferTypeOK'
    BY <1>0, <1>3, <2>4 DEF TransferInv, TransferTypeOK, GetSteps
  <2>6. File(name)' = File(name) /\ Len(File(name)) \in 0 .. Len(File(name))
    BY <1>0, <2>4 DEF File
  <2>7. GetProgress'
    BY <1>0, <1>3, <2>1, <2>2, <2>3, <2>4, <2>6 DEF TransferInv, GetProgress
  <2> QED BY <2>5, <2>7
<1>4. ASSUME pc = "read", ReadFile, ~AtEnd, pc' = "signal" PROVE TransferTypeOK' /\ GetProgress'
  <2> DEFINE n == handle.position + 1
  <2>1. handle.name = name /\ disk[name] = File(name) /\ handle.position \in 0 .. Len(File(name))
        /\ handle.position # Len(File(name))
    BY <1>0, <1>4 DEF TransferInv, GetProgress, AtEnd
  <2>2. n \in 1 .. Len(File(name)) /\ n - 1 = handle.position
    BY <1>0, <2>1
  <2>3. buffer' = File(name)[n] /\ host' = host /\ disk' = disk
        /\ handle' = [handle EXCEPT !.position = @ + 1]
    BY <1>4, <2>1 DEF ReadFile
  <2>4. handle'.name = name /\ handle'.position = n /\ handle' \in [name : Names \cup {Missing}, position : Nat]
    BY <1>0, <2>1, <2>3 DEF TransferInv, TransferTypeOK
  <2>5. queue_for_write = before \o SubSeq(File(name), 1, n - 1) /\ dummy_io_write_cnt = 0
    BY <1>0, <1>4, <2>2 DEF TransferInv, GetProgress
  <2>6. buffer' \in 0 .. 255
    BY <1>0, <2>2, <2>3, NextByte
  <2> HIDE DEF n
  <2>7. TransferTypeOK'
    BY <1>0, <1>4, <2>3, <2>4, <2>6 DEF TransferInv, TransferTypeOK, GetSteps
  <2>8. n > 0 /\ n \in 0 .. Len(File(name))
    BY <1>0, <2>2
  <2>9. File(name)' = File(name) /\ disk'[name] = File(name)
    BY <1>0, <2>1, <2>3 DEF File
  <2>10. GetProgress'
    BY <1>0, <1>4, <2>3, <2>4, <2>5, <2>8, <2>9 DEF GetProgress
  <2> QED BY <2>7, <2>10
<1>5. ASSUME pc = "close", pc' = "exit", CloseFile \/ ReadFile PROVE TransferTypeOK' /\ GetProgress'
  <2>1. AtEnd
    BY <1>0, <1>5, TransferAssumption DEF TransferInv, GetProgress, AtEnd
  <2>2. UNCHANGED <<host, disk, buffer>> /\ handle' \in {handle, NoFile}
    BY <1>5, <2>1 DEF ReadFile, CloseFile
  <2>3. TransferTypeOK'
    BY <1>0, <1>5, <2>2 DEF TransferInv, TransferTypeOK, GetSteps, NoFile
  <2>4. File(name)' = File(name)
    BY <1>0, <2>2 DEF File
  <2>5. GetProgress'
    BY <1>0, <1>5, <2>2, <2>4 DEF TransferInv, GetProgress
  <2> QED BY <2>3, <2>5
<1>6. \/ pc = "open" /\ pc' = "read" /\ OpenFile
      \/ pc = "read" /\ pc' = (IF AtEnd THEN "stop" ELSE "signal") /\ ReadFile
      \/ pc = "close" /\ pc' = "exit" /\ (CloseFile \/ ReadFile)
  BY Services
<1>7. TransferTypeOK' /\ GetProgress'
  BY <1>2, <1>3, <1>4, <1>5, <1>6
<1> QED BY <1>0, <1>1, <1>7 DEF TransferInv

LEMMA GetStoreInv == ASSUME TransferInv, GetStore PROVE TransferInv'
<1> USE DEF GetStore, putVars, quietly, record, Goto
<1>0. /\ program = "get" /\ program' = "get" /\ name' = name /\ PutProgress' /\ disk' = disk
      /\ {name, file_name_for_write} \subseteq Names /\ File(name) \in FileBytes
      /\ before \in FileBytes /\ queue_for_write \in FileBytes /\ buffer \in 0 .. 255
      /\ file_name_for_write' = file_name_for_write
      /\ File(name)' = File(name) /\ handle' = handle
  BY DEF TransferInv, TransferTypeOK, GetProgress, PutProgress, GetSteps, PutSteps, dummy_io_for_write, File
<1>1. LeftoversKept'
  BY <1>0 DEF TransferInv, LeftoversKept
<1>2. ASSUME pc = "signal", pc' = "send", dummy_io_for_write(1) PROVE TransferTypeOK' /\ GetProgress'
  <2>1. dummy_io_write_cnt' = 1 /\ queue_for_write' = queue_for_write /\ host' = host
    BY <1>0, <1>2 DEF TransferInv, GetProgress, dummy_io_for_write, Flip
  <2>2. TransferTypeOK'
    BY <1>0, <1>2, <2>1 DEF TransferInv, TransferTypeOK, GetSteps
  <2>3. GetProgress'
    BY <1>0, <1>2, <2>1 DEF TransferInv, GetProgress
  <2> QED BY <2>2, <2>3
<1>3. ASSUME pc = "send", pc' = "read", dummy_io_for_write(buffer) PROVE TransferTypeOK' /\ GetProgress'
  <2> DEFINE n == handle.position
  <2>1. /\ n \in 1 .. Len(File(name)) /\ buffer = File(name)[n]
        /\ \/ handle.name = name /\ disk[name] = File(name)
           \/ handle = NoFile /\ File(name) = <<>>
        /\ queue_for_write = before \o SubSeq(File(name), 1, n - 1) /\ dummy_io_write_cnt = 1
    BY <1>0, <1>3 DEF TransferInv, GetProgress
  <2>2. dummy_io_write_cnt' = 0 /\ queue_for_write' = Append(queue_for_write, buffer) /\ host' = host
    <3>1. ~(dummy_io_write_cnt = 0 /\ buffer = 0) /\ dummy_io_write_cnt # 0
          /\ Flip(dummy_io_write_cnt) = 0
      BY <2>1 DEF Flip
    <3> QED BY <1>3, <3>1 DEF dummy_io_for_write
  <2>3. queue_for_write' = before \o SubSeq(File(name), 1, n)
    BY <1>0, <2>1, <2>2, NextByte
  <2>4. queue_for_write' \in FileBytes
    BY <1>0, <2>2, AppendProperties DEF FileBytes
  <2>5. TransferTypeOK'
    BY <1>0, <1>3, <2>2, <2>4 DEF TransferInv, TransferTypeOK, GetSteps
  <2>6. n \in 0 .. Len(File(name))
    BY <2>1
  <2>7. GetProgress'
    BY <1>0, <1>3, <2>1, <2>2, <2>3, <2>6 DEF GetProgress
  <2> QED BY <2>5, <2>7
<1>4. ASSUME pc = "stop", pc' = "close", dummy_io_for_write(0) PROVE TransferTypeOK' /\ GetProgress'
  <2>1. /\ \/ handle.name = name /\ disk[name] = File(name)
           \/ handle = NoFile /\ File(name) = <<>>
        /\ handle.position = Len(File(name))
        /\ queue_for_write = before \o File(name) /\ dummy_io_write_cnt = 0
    BY <1>0, <1>4 DEF TransferInv, GetProgress
  <2>2. /\ host' = [host EXCEPT ![file_name_for_write] = queue_for_write]
        /\ queue_for_write' = <<>> /\ dummy_io_write_cnt' = Closed
    BY <1>0, <1>4, <2>1 DEF dummy_io_for_write
  <2>3. <<>> \in FileBytes /\ Len(File(name)) \in Nat
    BY <1>0, WholeAndNone
  <2>4. TransferTypeOK'
    BY <1>0, <1>4, <2>2, <2>3 DEF TransferInv, TransferTypeOK, GetSteps
  <2>5. host'[file_name_for_write] = before \o File(name)
    BY <1>0, <2>1, <2>2 DEF TransferInv, TransferTypeOK
  <2>6. GetProgress'
    BY <1>0, <1>4, <2>1, <2>2, <2>3, <2>5 DEF GetProgress
  <2> QED BY <2>4, <2>6
<1> QED BY <1>0, <1>1, <1>2, <1>3, <1>4 DEF TransferInv

-----------------------------------------------------------------------------
LEMMA ExitInv == ASSUME TransferInv, Exit PROVE TransferInv'
<1> USE DEF Exit, putVars, getVars, Goto
<1>1. TransferTypeOK'
  BY DEF TransferInv, TransferTypeOK, NoFile, Ended
<1>2. PutProgress' /\ GetProgress'
  BY DEF PutProgress, GetProgress
<1>3. LeftoversKept'
  BY DEF TransferInv, TransferTypeOK, LeftoversKept, PutProgress, GetProgress, Closed
<1> QED BY <1>1, <1>2, <1>3 DEF TransferInv

\* A process that has ended has no program, and nothing is promised of it.
LEMMA CrashInv ==
    ASSUME TransferInv, NEW value, Crash(value)
    PROVE  TransferInv'
<1> USE DEF Crash, files, putVars, getVars, record
<1>1. TransferTypeOK'
  BY DEF TransferInv, TransferTypeOK, Ended
<1>2. PutProgress' /\ GetProgress' /\ LeftoversKept'
  BY DEF PutProgress, GetProgress, LeftoversKept
<1> QED BY <1>1, <1>2 DEF TransferInv

\* Ordinary programs find 0x3fff diverted only as long as something is owed.
LEMMA StrayInv == ASSUME TransferInv, StrayRead \/ StrayWrite PROVE TransferInv'
<1>1. CASE StrayRead
  <2> USE <1>1 DEF StrayRead, files, guest, getVars, record
  <2>1. PICK value \in 0 .. 255 : dummy_io_for_read(value)
    OBVIOUS
  <2>2. queue' \in FileBytes /\ dummy_io_cnt' \in {Closed, 0, 1} /\ dummy_io_cnt # Closed
    <3>1. /\ queue \in FileBytes /\ dummy_io_cnt \in {Closed, 0, 1} /\ dummy_io_cnt # Closed
          /\ Flip(dummy_io_cnt) \in {0, 1}
      <4>1. dummy_io_cnt # Closed
        BY <2>1 DEF dummy_io_for_read
      <4> QED BY <4>1 DEF TransferInv, TransferTypeOK, Flip, Closed
    <3>2. CASE queue = <<>>
      BY <2>1, <3>1, <3>2 DEF dummy_io_for_read
    <3>3. CASE queue # <<>>
      <4>1. queue' \in {queue, Tail(queue)} /\ dummy_io_cnt' = Flip(dummy_io_cnt)
        BY <2>1, <3>3 DEF dummy_io_for_read
      <4> QED BY <3>1, <3>3, <4>1, HeadFirst
    <3> QED BY <3>2, <3>3
  <2>3. program = "none"
    BY DEF TransferInv, TransferTypeOK, PutSteps, GetSteps
  <2>4. TransferTypeOK'
    BY <2>2, <2>3 DEF TransferInv, TransferTypeOK
  <2>5. PutProgress' /\ GetProgress'
    BY <2>3 DEF PutProgress, GetProgress
  <2>6. LeftoversKept'
    BY <2>2, <2>3 DEF TransferInv, LeftoversKept
  <2> QED BY <2>4, <2>5, <2>6 DEF TransferInv
<1>2. CASE StrayWrite
  <2> USE <1>2 DEF StrayWrite, guest, putVars, record
  <2>1. PICK value \in 0 .. 255 : dummy_io_for_write(value)
    BY TransferAssumption
  <2>2. program = "none"
    BY DEF TransferInv, TransferTypeOK, PutSteps, GetSteps
  <2>3. /\ queue_for_write' \in FileBytes /\ dummy_io_write_cnt' \in {Closed, 0, 1}
        /\ dummy_io_write_cnt # Closed
        /\ host' \in [Names -> FileBytes \cup {Missing}]
    <3>1. queue_for_write \in FileBytes /\ <<>> \in FileBytes
          /\ Append(queue_for_write, value) \in FileBytes
      BY EmptySeq, AppendProperties DEF TransferInv, TransferTypeOK, FileBytes
    <3>2. /\ dummy_io_write_cnt \in {Closed, 0, 1} /\ dummy_io_write_cnt # Closed
          /\ host \in [Names -> FileBytes \cup {Missing}] /\ Flip(dummy_io_write_cnt) \in {0, 1}
      BY <2>1 DEF TransferInv, TransferTypeOK, dummy_io_for_write, Flip, Closed
    <3>3. CASE dummy_io_write_cnt = 0 /\ value = 0
      <4>1. /\ host' = [host EXCEPT ![file_name_for_write] = queue_for_write]
            /\ queue_for_write' = <<>> /\ dummy_io_write_cnt' = Closed
        BY <2>1, <3>3 DEF dummy_io_for_write
      <4> QED BY <3>1, <3>2, <4>1
    <3>4. CASE ~(dummy_io_write_cnt = 0 /\ value = 0)
      <4>1. /\ queue_for_write' \in {queue_for_write, Append(queue_for_write, value)}
            /\ dummy_io_write_cnt' = Flip(dummy_io_write_cnt) /\ host' = host
        BY <2>1, <3>4 DEF dummy_io_for_write
      <4> QED BY <3>1, <3>2, <4>1
    <3> QED BY <3>3, <3>4
  <2>4. TransferTypeOK'
    BY <2>2, <2>3 DEF TransferInv, TransferTypeOK
  <2>5. PutProgress' /\ GetProgress'
    BY <2>2 DEF PutProgress, GetProgress
  <2>6. LeftoversKept'
    BY <2>2, <2>3 DEF TransferInv, LeftoversKept
  <2> QED BY <2>4, <2>5, <2>6 DEF TransferInv
<1> QED BY <1>1, <1>2

LEMMA TransferInvariant == TransferSpec => []TransferInv
<1>1. TransferInv /\ UNCHANGED transferVars => TransferInv'
  <2> SUFFICES ASSUME TransferInv, UNCHANGED transferVars PROVE TransferInv'
    OBVIOUS
  <2> USE DEF transferVars, files, guest, putVars, getVars, record
  <2>1. TransferTypeOK'
    BY DEF TransferInv, TransferTypeOK
  <2>2. PutProgress'
    BY DEF TransferInv, PutProgress
  <2>3. GetProgress'
    <3>1. File(name)' = File(name)
      BY DEF File
    <3> QED BY <3>1 DEF TransferInv, GetProgress
  <2>4. LeftoversKept'
    BY DEF TransferInv, LeftoversKept
  <2> QED BY <2>1, <2>2, <2>3, <2>4 DEF TransferInv
<1>2. TransferInv /\ [TransferNext]_transferVars => TransferInv'
  BY <1>1, PutInv, GetInv, DivertInv, PutCallInv, PutAskInv, PutFetchInv, GetCallInv,
     GetStoreInv, ExitInv, CrashInv, StrayInv DEF TransferNext, Program, Command, GetCrash, StrayCrash
<1> QED BY <1>2, TransferInitInv, PTL DEF TransferSpec

\* Whatever commands and resets cut transfers short, whatever they left in the
\* queues and whatever ordinary programs did at 0x3fff since, a transfer that
\* comes to its end has copied its file, byte by byte.
THEOREM TransfersAlwaysDeliver == TransferSpec => []TransfersDeliver
<1>1. TransferInv => TransfersDeliver
  <2>1. ASSUME TransferInv, pc = "exit", program = "put" PROVE disk[name] = sent
    BY <2>1, WholeAndNone DEF TransferInv, PutProgress
  <2>2. ASSUME TransferInv, pc = "exit", program = "get"
        PROVE  host[file_name_for_write] = before \o File(name)
    BY <2>2 DEF TransferInv, GetProgress
  <2> QED BY <2>1, <2>2 DEF TransfersDeliver
<1> QED BY <1>1, TransferInvariant, PTL

\* 0x3fff is diverted outside transfers, and bytes of a get are kept, only if a
\* transfer in that direction was cut short and none has ended since.
THEOREM LeftoversAreOwed == TransferSpec => []LeftoversOwed
<1>1. TransferInv => LeftoversOwed
  BY DEF TransferInv, TransferTypeOK, LeftoversKept, LeftoversOwed, PutSteps, GetSteps, Ended
<1> QED BY <1>1, TransferInvariant, PTL
-----------------------------------------------------------------------------
(*                               SaveRestore                               *)

\* Swapping the halves of an image leaves the step that changed it.
LEMMA SwappedVersion ==
    ASSUME NEW a \in Versions, NEW by \in 0 .. 1
    PROVE  /\ Swapped(a, by) \in Versions
           /\ a = Torn => Swapped(a, by) = Torn
           /\ a # Torn => Swapped(a, by).version = a.version
  <1>1. CASE a = Torn \/ by = 0
    BY <1>1 DEF Swapped
  <1>2. CASE ~(a = Torn \/ by = 0)
    <2>1. a \in [version : Nat, order : 0 .. 1]
      BY <1>2 DEF Versions
    <2>2. Swapped(a, by) = [a EXCEPT !.order = 1 - @]
      BY <1>2 DEF Swapped
    <2>3. 1 - a.order \in 0 .. 1
      BY <2>1
    <2>4. QED
      BY <1>2, <2>1, <2>2, <2>3 DEF Versions
  <1>3. QED
    BY <1>1, <1>2

\* So whatever is not after an image is not after it with its halves swapped.
LEMMA SwappedAfter ==
    ASSUME NEW a \in Versions, NEW b \in Versions, NEW by \in 0 .. 1, NotAfter(b, a)
    PROVE  NotAfter(b, Swapped(a, by))
  BY SwappedVersion DEF NotAfter

LEMMA NotAfterItself == ASSUME NEW a \in Versions PROVE NotAfter(a, a)
  BY DEF NotAfter, Versions

LEMMA TornIsVersion == Torn \in Versions
  BY DEF Versions

\* The files of the saves, as tuples.
LEMMA SavesAre == /\ save_flash = <<"nand0", "nand", "nor">>
                  /\ save_all = <<"nand0", "nand", "nor", "state">>
  BY DEF save_flash, save_all

\* What follows the first file of what is left.
LEMMA Tails ==
    ASSUME NEW j \in FlashJobs \cup AllJobs, j # <<>>
    PROVE  /\ Head(j) \in ImagesAndState
           /\ Tail(j) \in FlashJobs \cup AllJobs
           /\ Tail(j) \in AllJobs => j \in AllJobs
  <1>1. \/ j = <<"nand0", "nand", "nor">> \/ j = <<"nand", "nor">> \/ j = <<"nor">>
        \/ j = <<"nand0", "nand", "nor", "state">> \/ j = <<"nand", "nor", "state">>
        \/ j = <<"nor", "state">> \/ j = <<"state">>
    BY SavesAre DEF FlashJobs, AllJobs
  <1> USE SavesAre DEF FlashJobs, AllJobs, ImagesAndState, Images
  <1>2. CASE j = <<"nand0", "nand", "nor">>
    <2>1. Head(j) = "nand0" /\ Tail(j) = <<"nand", "nor">>
      BY <1>2
    <2>2. Tail(j) \in FlashJobs
      BY <2>1
    <2>3. Tail(j) \notin AllJobs
      <3>1. <<"nand", "nor">> # <<"nor", "state">>
        OBVIOUS
      <3>2. /\ <<"nand", "nor">> # <<"state">> /\ <<"nand", "nor">> # <<"nand", "nor", "state">>
            /\ <<"nand", "nor">> # <<"nand0", "nand", "nor", "state">>
        OBVIOUS
      <3>3. QED
        BY <2>1, <3>1, <3>2
    <2>4. QED
      BY <2>1, <2>2, <2>3
  <1>3. CASE j = <<"nand", "nor">>
    <2>1. Head(j) = "nand" /\ Tail(j) = <<"nor">>
      BY <1>3
    <2>2. QED
      BY <2>1
  <1>4. CASE j = <<"nor">>
    <2>1. Head(j) = "nor" /\ Tail(j) = <<>>
      BY <1>4
    <2>2. <<>> \in FlashJobs /\ <<>> \notin AllJobs
      BY DEF FlashJobs, AllJobs
    <2>3. "nor" \in ImagesAndState
      BY DEF ImagesAndState, Images
    <2> HIDE DEF FlashJobs, AllJobs, ImagesAndState, Images
    <2>4. QED
      BY <2>1, <2>2, <2>3
  <1>5. CASE j = <<"nand0", "nand", "nor", "state">>
    <2>1. Head(j) = "nand0" /\ Tail(j) = <<"nand", "nor", "state">>
      BY <1>5
    <2>2. QED
      BY <2>1, <1>5
  <1>6. CASE j = <<"nand", "nor", "state">>
    <2>1. Head(j) = "nand" /\ Tail(j) = <<"nor", "state">>
      BY <1>6
    <2>2. QED
      BY <2>1, <1>6
  <1>7. CASE j = <<"nor", "state">>
    <2>1. Head(j) = "nor" /\ Tail(j) = <<"state">>
      BY <1>7
    <2>2. QED
      BY <2>1, <1>7
  <1>8. CASE j = <<"state">>
    <2>1. Head(j) = "state" /\ Tail(j) = <<>>
      BY <1>8
    <2>2. QED
      BY <2>1, <1>8
  <1>9. QED
    BY <1>1, <1>2, <1>3, <1>4, <1>5, <1>6, <1>7, <1>8

\* An image that is not left any more but was is the first.
LEMMA OnlyHead ==
    ASSUME NEW j \in AllJobs, Tail(j) \in AllJobs, NEW p \in Images,
           \A i \in 1 .. Len(Tail(j)) : Tail(j)[i] # p
    PROVE  p = Head(j) \/ \A i \in 1 .. Len(j) : j[i] # p
  <1>1. /\ j # <<>> /\ j \in Seq(ImagesAndState)
    <2>1. \/ j = <<"nand0", "nand", "nor", "state">> \/ j = <<"nand", "nor", "state">>
          \/ j = <<"nor", "state">> \/ j = <<"state">>
      BY SavesAre DEF AllJobs
    <2>2. {"nand0", "nand", "nor", "state"} = ImagesAndState
      BY DEF ImagesAndState, Images
    <2>3. j # <<>>
      BY <2>1
    <2>4. /\ <<"nand0", "nand", "nor", "state">> \in Seq(ImagesAndState)
          /\ <<"nand", "nor", "state">> \in Seq(ImagesAndState)
          /\ <<"nor", "state">> \in Seq(ImagesAndState)
          /\ <<"state">> \in Seq(ImagesAndState)
      BY <2>2
    <2>5. QED
      BY <2>1, <2>3, <2>4
  <1>2. /\ Len(Tail(j)) = Len(j) - 1 /\ Len(j) \in Nat
        /\ \A i \in 1 .. Len(j) - 1 : Tail(j)[i] = j[i + 1]
        /\ Head(j) = j[1]
    BY <1>1
  <1>3. ASSUME p # Head(j), NEW i \in 1 .. Len(j) PROVE j[i] # p
    <2>1. CASE i = 1
      BY <1>2, <1>3, <2>1
    <2>2. CASE i # 1
      <3>1. i - 1 \in 1 .. Len(j) - 1 /\ (i - 1) + 1 = i
        BY <1>2, <2>2
      <3>2. Tail(j)[i - 1] = j[i]
        BY <1>2, <3>1
      <3>3. QED
        BY <1>2, <3>1, <3>2
    <2>3. QED
      BY <2>1, <2>2
  <1>4. QED
    BY <1>3

\* Before the state, no image is left.
LEMMA StateIsLast ==
    ASSUME NEW j \in FlashJobs \cup AllJobs, j # <<>>, Head(j) = "state"
    PROVE  j = <<"state">> /\ j \in AllJobs
  BY SavesAre DEF FlashJobs, AllJobs
-----------------------------------------------------------------------------
(* The steps that leave the files alone *)

LEMMA NoMemoryIs == /\ NoMemory \in [Images -> Versions]
                    /\ \A p \in Images : NoMemory[p].version = 0
                    /\ NoOptions.nor \in (0 .. 1) \X (0 .. 1)
  BY DEF NoMemory, Image, Versions, NoOptions

LEMMA SaveInitInv == SaveInit => SaveInv
  <1> SUFFICES ASSUME SaveInit PROVE SaveInv
    OBVIOUS
  <1>1. SaveTypeOK
    <2>1. Image(0) \in Versions
      BY DEF Image, Versions
    <2>2. /\ stored \in [ImagesAndState -> Versions \cup States \cup {Absent, Torn}]
          /\ \A p \in Images : stored[p] \in Versions
      BY <2>1 DEF SaveInit, ImagesAndState
    <2>3. stored["state"] \in States \cup {Absent, Torn}
      BY DEF SaveInit, ImagesAndState, Images
    <2>4. job \in FlashJobs \cup AllJobs
      BY DEF SaveInit, FlashJobs
    <2>5. QED
      BY <2>2, <2>3, <2>4, NoMemoryIs DEF SaveInit, SaveTypeOK
  <1>2. NothingAhead
    <2>1. ~HasState
      BY DEF SaveInit, HasState, ImagesAndState, Images
    <2>2. \A p \in Images : flash[p].version = 0 /\ stored[p].version = 0 /\ now = 0
      BY NoMemoryIs DEF SaveInit, ImagesAndState, Image
    <2>3. QED
      BY <2>1, <2>2 DEF NothingAhead
  <1>3. MemoryAhead /\ ImagesFirst
    BY DEF SaveInit, MemoryAhead, ImagesFirst
  <1>4. QED
    BY <1>1, <1>2, <1>3 DEF SaveInv

\* The end of the process, whatever it was doing.
LEMMA EndsInv ==
    ASSUME SaveInv, Ends, UNCHANGED <<stored, now>>
    PROVE  SaveInv'
  <1>1. /\ at' = "off" /\ options' = NoOptions /\ flash' = NoMemory /\ seen' = NoMemory
        /\ step' = 0 /\ adjusted' = {} /\ job' = <<>>
    BY DEF Ends
  <1>2. SaveTypeOK'
    <2>1. job' \in FlashJobs
      BY <1>1 DEF FlashJobs
    <2>2. QED
      BY <1>1, <2>1, NoMemoryIs DEF SaveInv, SaveTypeOK
  <1>3. NothingAhead'
    <2>1. \A p \in Images : flash'[p].version <= now'
      BY <1>1, NoMemoryIs DEF SaveInv, SaveTypeOK
    <2>2. QED
      BY <2>1 DEF SaveInv, NothingAhead, HasState
  <1>4. MemoryAhead' /\ ImagesFirst'
    BY <1>1 DEF MemoryAhead, ImagesFirst
  <1>5. QED
    BY <1>2, <1>3, <1>4 DEF SaveInv

\* The images are loaded as they are stored, and the state with them.
LEMMA LoadInv ==
    ASSUME SaveInv, LoadNC2k
    PROVE  SaveInv'
  <1> USE DEF SaveInv
  <1>1. /\ at' = "running" /\ UNCHANGED <<stored, now, job>>
        /\ options' \in Options /\ flash' = [p \in Images |-> Loaded(p)]
    BY DEF LoadNC2k, jobVars
  <1>2. options'.nor \in (0 .. 1) \X (0 .. 1)
    BY <1>1, SaveAssumption DEF process_args
  <1>3. ASSUME NEW p \in Images
        PROVE  \E by \in 0 .. 1 : flash'[p] = Swapped(stored[p], by)
    BY <1>1, <1>2 DEF Loaded
  <1>4. flash' \in [Images -> Versions]
    <2>1. \A p \in Images : flash'[p] \in Versions
      BY <1>3, SwappedVersion DEF SaveTypeOK
    <2>2. QED
      BY <1>1, <2>1
  <1>5. \/ seen' = flash' /\ step' \in Nat \cup {Torn} /\ adjusted' = Adjusts
        \/ /\ HasState /\ seen' = stored["state"].seen /\ step' = stored["state"].step
           /\ adjusted' = stored["state"].adjusted \cup Adjusts
    BY DEF LoadNC2k, load_state, LoadsState, HasState
  <1>6. HasState => /\ stored["state"].seen \in [Images -> Versions]
                    /\ stored["state"].step \in Nat \cup {Torn}
                    /\ stored["state"].adjusted \in SUBSET Adjustments
    BY DEF HasState, SaveTypeOK, States
  <1>a. adjusted' \in SUBSET Adjustments
    BY <1>5, <1>6 DEF Adjusts
  <1>7. SaveTypeOK'
    BY <1>1, <1>2, <1>4, <1>5, <1>6, <1>a DEF SaveTypeOK
  <1>8. HasState => \A p \in Images : NotAfter(stored["state"].seen[p], flash'[p])
    <2> SUFFICES ASSUME HasState, NEW p \in Images
                 PROVE  NotAfter(stored["state"].seen[p], flash'[p])
      OBVIOUS
    <2>1. PICK by \in 0 .. 1 : flash'[p] = Swapped(stored[p], by)
      BY <1>3
    <2>2. stored["state"].seen[p] \in Versions /\ stored[p] \in Versions
      BY <1>6 DEF SaveTypeOK
    <2>3. NotAfter(stored["state"].seen[p], stored[p])
      BY DEF NothingAhead
    <2>4. QED
      BY <2>1, <2>2, <2>3, SwappedAfter
  <1>9. \A p \in Images : NotAfter(seen'[p], flash'[p])
    BY <1>4, <1>5, <1>8, NotAfterItself
  <1>10. NothingAhead'
    <2>1. ASSUME NEW p \in Images, flash'[p] # Torn PROVE flash'[p].version <= now
      <3>1. PICK by \in 0 .. 1 : flash'[p] = Swapped(stored[p], by)
        BY <1>3
      <3>2. stored[p] \in Versions
        BY DEF SaveTypeOK
      <3>3. stored[p] # Torn /\ flash'[p].version = stored[p].version
        BY <2>1, <3>1, <3>2, SwappedVersion
      <3>4. QED
        BY <3>3 DEF NothingAhead
    <2>2. QED
      BY <1>1, <2>1 DEF NothingAhead, HasState
  <1>11. MemoryAhead'
    BY <1>1, <1>8, <1>9 DEF MemoryAhead, HasState
  <1>12. ImagesFirst'
    BY <1>1 DEF ImagesFirst
  <1>13. QED
    BY <1>7, <1>10, <1>11, <1>12

\* The guest's changes are later than everything stored.
LEMMA GuestInv ==
    ASSUME SaveInv, NEW changed \in SUBSET Images, GuestStep(changed)
    PROVE  SaveInv'
  <1> USE DEF SaveInv
  <1>1. /\ at = "running" /\ now' = now + 1 /\ now \in Nat
        /\ UNCHANGED <<at, options, stored, job>>
        /\ flash' = [p \in Images |-> IF p \in changed /\ flash[p] # Torn
                                      THEN [flash[p] EXCEPT !.version = now'] ELSE flash[p]]
        /\ seen' = [p \in Images |-> IF p \in changed THEN flash'[p] ELSE seen[p]]
        /\ step' = IF step = Torn THEN Torn ELSE now'
        /\ adjusted' = {}
    BY DEF GuestStep, jobVars, SaveTypeOK
  <1>2. ASSUME NEW p \in Images
        PROVE  /\ flash'[p] \in Versions
               /\ flash'[p] # Torn => flash[p] # Torn
               /\ flash'[p] # Torn => flash'[p].version <= now'
               /\ flash'[p] # Torn => flash[p].version <= flash'[p].version
    <2>1. flash[p] \in Versions /\ (flash[p] # Torn => flash[p].version <= now)
      BY DEF SaveTypeOK, NothingAhead
    <2>2. CASE flash[p] = Torn
      BY <1>1, <2>1, <2>2
    <2>3. CASE flash[p] # Torn
      <3>1. flash[p] \in [version : Nat, order : 0 .. 1] /\ flash[p].version <= now
        BY <2>1, <2>3 DEF Versions
      <3>2. CASE p \in changed
        <4>1. flash'[p] = [flash[p] EXCEPT !.version = now']
          BY <1>1, <2>3, <3>2
        <4>2. flash'[p] \in [version : Nat, order : 0 .. 1] /\ flash'[p].version = now + 1
          BY <1>1, <3>1, <4>1
        <4>3. QED
          BY <1>1, <2>3, <3>1, <4>2 DEF Versions
      <3>3. CASE p \notin changed
        <4>1. flash'[p] = flash[p]
          BY <1>1, <3>3
        <4>2. QED
          BY <1>1, <2>1, <2>3, <3>1, <4>1
      <3>4. QED
        BY <3>2, <3>3
    <2>4. QED
      BY <2>2, <2>3
  <1>3. flash' \in [Images -> Versions] /\ seen' \in [Images -> Versions]
    <2>1. flash' \in [Images -> Versions]
      BY <1>1, <1>2
    <2>2. seen \in [Images -> Versions]
      BY DEF SaveTypeOK
    <2>3. QED
      BY <1>1, <2>1, <2>2
  <1>4. SaveTypeOK'
    <2>1. now' \in Nat /\ step' \in Nat \cup {Torn}
      BY <1>1
    <2>2. QED
      BY <1>1, <1>3, <2>1 DEF SaveTypeOK
  <1>5. ASSUME NEW p \in Images, NEW old \in Versions, NotAfter(old, flash[p])
        PROVE  NotAfter(old, flash'[p])
    <2> SUFFICES ASSUME old # Torn, flash'[p] # Torn PROVE old.version <= flash'[p].version
      BY DEF NotAfter
    <2>1. flash[p] # Torn /\ flash[p].version <= flash'[p].version
      BY <1>2
    <2>2. old.version <= flash[p].version
      BY <1>5, <2>1 DEF NotAfter
    <2>3. old.version \in Nat /\ flash[p].version \in Nat /\ flash'[p].version \in Nat
      BY <1>2, <2>1 DEF SaveTypeOK, Versions
    <2>4. QED
      BY <2>1, <2>2, <2>3
  <1>6. NothingAhead'
    <2>1. ASSUME NEW p \in Images, stored[p] # Torn PROVE stored[p].version <= now'
      <3>1. stored[p].version \in Nat /\ stored[p].version <= now
        BY <2>1 DEF SaveTypeOK, Versions, NothingAhead
      <3>2. QED
        BY <1>1, <3>1
    <2>2. QED
      BY <1>1, <1>2, <2>1 DEF NothingAhead, HasState
  <1>7. MemoryAhead'
    <2>1. ASSUME HasState, NEW p \in Images PROVE NotAfter(stored["state"].seen[p], flash'[p])
      <3>1. stored["state"].seen[p] \in Versions
        BY <2>1 DEF HasState, SaveTypeOK, States
      <3>2. NotAfter(stored["state"].seen[p], flash[p])
        BY <1>1, <2>1 DEF MemoryAhead
      <3>3. QED
        BY <1>5, <3>1, <3>2
    <2>2. ASSUME NEW p \in Images PROVE NotAfter(seen'[p], flash'[p])
      <3>1. CASE p \in changed
        BY <1>1, <1>2, <3>1, NotAfterItself
      <3>2. CASE p \notin changed
        <4>1. seen'[p] = seen[p] /\ seen[p] \in Versions
          BY <1>1, <3>2 DEF SaveTypeOK
        <4>2. NotAfter(seen[p], flash[p])
          BY <1>1 DEF MemoryAhead
        <4>3. QED
          BY <1>5, <4>1, <4>2
      <3>3. QED
        BY <3>1, <3>2
    <2>3. QED
      BY <1>1, <2>1, <2>2 DEF MemoryAhead, HasState
  <1>8. ImagesFirst'
    BY <1>1 DEF ImagesFirst
  <1>9. QED
    BY <1>4, <1>6, <1>7, <1>8
-----------------------------------------------------------------------------
(* Saving *)

\* A save begins with all of its images ahead.
LEMMA BeginInv ==
    ASSUME SaveInv, NEW jobs \in Saves \cup {<<>>}, NEW slot, NEW end, Begin(jobs, slot, end)
    PROVE  SaveInv'
  <1> USE DEF SaveInv
  <1>1. /\ at = "running" /\ at' = "saving" /\ job' = jobs /\ opened' = FALSE
        /\ UNCHANGED <<options, flash, step, seen, adjusted, stored, now>>
    BY DEF Begin, machine
  <1>2. SaveTypeOK'
    <2>1. job' \in FlashJobs \cup AllJobs
      BY <1>1 DEF Saves, FlashJobs, AllJobs
    <2>2. QED
      BY <1>1, <2>1 DEF SaveTypeOK
  <1>3. NothingAhead' /\ MemoryAhead'
    BY <1>1 DEF NothingAhead, MemoryAhead, HasState
  <1>4. ImagesFirst'
    <2>1. ASSUME NEW p \in Images, job' \in AllJobs
          PROVE  \E i \in 1 .. Len(job') : job'[i] = p
      <3>1. jobs # <<>>
        BY <1>1, <2>1, SavesAre DEF AllJobs
      <3>2. jobs = <<"nand0", "nand", "nor">> \/ jobs = <<"nand0", "nand", "nor", "state">>
        BY <3>1, SavesAre DEF Saves
      <3>3. /\ Len(jobs) \in {3, 4}
            /\ jobs[1] = "nand0" /\ jobs[2] = "nand" /\ jobs[3] = "nor"
        BY <3>2
      <3>4. {1, 2, 3} \subseteq 1 .. Len(jobs)
        BY <3>3
      <3>5. p \in {"nand0", "nand", "nor"}
        BY DEF Images
      <3>6. QED
        BY <1>1, <3>3, <3>4, <3>5
    <2>2. QED
      BY <1>1, <2>1 DEF ImagesFirst
  <1>5. QED
    BY <1>2, <1>3, <1>4

\* A file that is opened is torn until it has been written.
LEMMA OpenInv ==
    ASSUME SaveInv, Open
    PROVE  SaveInv'
  <1> USE DEF SaveInv
  <1>1. /\ at = "saving" /\ job # <<>> /\ opened' = TRUE
        /\ UNCHANGED <<at, options, flash, step, seen, adjusted, now, job, target>>
        /\ stored' = IF target = "" THEN [stored EXCEPT ![Head(job)] = Torn] ELSE stored
    BY DEF Open, machine
  <1>2. Head(job) \in ImagesAndState
    BY <1>1, Tails DEF SaveTypeOK
  <1>3. ASSUME NEW f \in ImagesAndState PROVE stored'[f] \in {stored[f], Torn}
    BY <1>1, <1>2 DEF SaveTypeOK
  <1>4. "state" \in ImagesAndState /\ Images \subseteq ImagesAndState
    BY DEF ImagesAndState
  <1>5. SaveTypeOK'
    <2>1. stored' \in [ImagesAndState -> Versions \cup States \cup {Absent, Torn}]
      BY <1>1, <1>2 DEF SaveTypeOK
    <2>2. \A p \in Images : stored'[p] \in Versions
      BY <1>3, <1>4, TornIsVersion DEF SaveTypeOK
    <2>3. stored'["state"] \in States \cup {Absent, Torn}
      BY <1>3, <1>4 DEF SaveTypeOK
    <2>4. QED
      BY <1>1, <2>1, <2>2, <2>3 DEF SaveTypeOK
  <1>6. HasState' => HasState /\ stored'["state"] = stored["state"]
    BY <1>3, <1>4 DEF HasState
  <1>7. NothingAhead'
    <2>1. ASSUME NEW p \in Images, stored'[p] # Torn PROVE stored'[p].version <= now'
      BY <1>1, <1>3, <1>4, <2>1 DEF NothingAhead
    <2>2. ASSUME HasState', NEW p \in Images PROVE NotAfter(stored'["state"].seen[p], stored'[p])
      BY <1>3, <1>4, <1>6, <2>2 DEF NothingAhead, NotAfter
    <2>3. QED
      BY <1>1, <2>1, <2>2 DEF NothingAhead
  <1>8. MemoryAhead'
    BY <1>1, <1>6 DEF MemoryAhead
  <1>9. ImagesFirst'
    <2>1. target = "" => stored'[Head(job)] = Torn
      BY <1>1, <1>2 DEF SaveTypeOK
    <2>2. ASSUME target = "", job \in AllJobs, NEW p \in Images, \A i \in 1 .. Len(job) : job[i] # p
          PROVE  NotAfter(seen[p], stored'[p])
      BY <1>1, <1>3, <1>4, <2>2 DEF ImagesFirst, NotAfter
    <2>3. QED
      BY <1>1, <2>1, <2>2 DEF ImagesFirst
  <1>10. QED
    BY <1>5, <1>7, <1>8, <1>9

\* A state file that cannot be opened stays as it was, and is the last.
LEMMA OpenFailsInv ==
    ASSUME SaveInv, OpenFails
    PROVE  SaveInv'
  <1>1. CASE Head(job) # "state"
    BY <1>1, EndsInv DEF OpenFails
  <1>2. CASE Head(job) = "state"
    <2> USE DEF SaveInv
    <2>1. /\ at = "saving" /\ job # <<>> /\ ~opened /\ job' = Tail(job)
          /\ UNCHANGED <<at, options, flash, step, seen, adjusted, stored, now, target, opened>>
      BY <1>2 DEF OpenFails, machine
    <2>2. job' \in FlashJobs \cup AllJobs
      BY <2>1, Tails DEF SaveTypeOK
    <2>3. job = <<"state">>
      BY <1>2, <2>1, StateIsLast DEF SaveTypeOK
    <2>4. job' = <<>>
      BY <2>1, <2>3
    <2>5. job' \notin AllJobs
      BY <2>4, SavesAre DEF AllJobs
    <2>6. SaveTypeOK'
      BY <2>1, <2>2 DEF SaveTypeOK
    <2>7. NothingAhead' /\ MemoryAhead'
      BY <2>1 DEF NothingAhead, MemoryAhead, HasState
    <2>8. ImagesFirst'
      BY <2>1, <2>5 DEF ImagesFirst
    <2>9. QED
      BY <2>6, <2>7, <2>8
  <1>3. QED
    BY <1>1, <1>2

\* The first file is done; what of the images is left stays in order.
LEMMA FileDone ==
    ASSUME SaveInv, at = "saving", job # <<>>, opened' = FALSE, job' = Tail(job),
           UNCHANGED <<at, seen, target>>,
           \A p \in Images : p # Head(job) => stored'[p] = stored[p],
           target = "" => \A p \in Images : p = Head(job) => NotAfter(seen[p], stored'[p])
    PROVE  ImagesFirst'
  <1> USE DEF SaveInv
  <1> SUFFICES ASSUME target = "", job' \in AllJobs, NEW p \in Images,
                      \A i \in 1 .. Len(job') : job'[i] # p
               PROVE  NotAfter(seen[p], stored'[p])
    BY DEF ImagesFirst
  <1>1. job \in AllJobs
    BY Tails DEF SaveTypeOK
  <1>2. p = Head(job) \/ \A i \in 1 .. Len(job) : job[i] # p
    BY <1>1, OnlyHead
  <1>3. CASE p = Head(job)
    BY <1>3
  <1>4. CASE p # Head(job)
    <2>1. NotAfter(seen[p], stored[p])
      BY <1>1, <1>2, <1>4 DEF ImagesFirst
    <2>2. QED
      BY <1>4, <2>1
  <1>5. QED
    BY <1>3, <1>4

\* The images are written from memory, and the state when they all have been.
LEMMA WriteInv ==
    ASSUME SaveInv, Write1
    PROVE  SaveInv'
  <1> USE DEF SaveInv
  <1>1. /\ at = "saving" /\ opened /\ opened' = FALSE /\ job' = Tail(job)
        /\ UNCHANGED <<at, options, flash, step, seen, adjusted, now, target>>
        /\ stored' = IF target = "" THEN [stored EXCEPT ![Head(job)] = Content(Head(job))] ELSE stored
    BY DEF Write1, machine
  <1>a. "state" \in ImagesAndState /\ Images \subseteq ImagesAndState /\ "state" \notin Images
    BY DEF ImagesAndState, Images
  <1>b. job # <<>>
    BY DEF Write1
  <1>3. Head(job) \in ImagesAndState /\ job' \in FlashJobs \cup AllJobs
    BY <1>1, <1>b, Tails DEF SaveTypeOK
  <1>4. CASE target # ""
    <2>1. UNCHANGED stored
      BY <1>1, <1>4
    <2>2. SaveTypeOK'
      BY <1>1, <1>3, <2>1 DEF SaveTypeOK
    <2>3. NothingAhead' /\ MemoryAhead' /\ ImagesFirst'
      BY <1>1, <1>4, <2>1 DEF NothingAhead, MemoryAhead, ImagesFirst, HasState
    <2>4. QED
      BY <2>2, <2>3
  <1>5. CASE target = "" /\ Head(job) # "state"
    <2> DEFINE h == Head(job)
    <2>1. h \in Images
      BY <1>3, <1>5 DEF ImagesAndState
    <2>2. /\ stored' = [stored EXCEPT ![h] = Content(h)]
          /\ stored'[h] = Content(h)
          /\ \A f \in ImagesAndState : f # h => stored'[f] = stored[f]
      BY <1>1, <1>3, <1>5 DEF SaveTypeOK
    <2>3. PICK by \in 0 .. 1 : Content(h) = Swapped(flash[h], by)
      <3>1. options.nor[2] \in 0 .. 1
        BY DEF SaveTypeOK
      <3>2. (IF h = "nor" THEN options.nor[2] ELSE 0) \in 0 .. 1
        BY <3>1
      <3>3. Content(h) = Swapped(flash[h], IF h = "nor" THEN options.nor[2] ELSE 0)
        BY <1>5 DEF Content
      <3>4. QED
        BY <3>2, <3>3
    <2>4. flash[h] \in Versions /\ seen[h] \in Versions
      BY <2>1 DEF SaveTypeOK
    <2>5. Content(h) \in Versions
      BY <2>3, <2>4, SwappedVersion
    <2>6. SaveTypeOK'
      <3>1. stored' \in [ImagesAndState -> Versions \cup States \cup {Absent, Torn}]
        BY <2>2, <2>5 DEF SaveTypeOK
      <3>2. \A p \in Images : stored'[p] \in Versions
        BY <1>a, <2>2, <2>5 DEF SaveTypeOK
      <3>3. stored'["state"] = stored["state"]
        BY <1>a, <1>5, <2>2
      <3>4. QED
        BY <1>1, <1>3, <3>1, <3>2, <3>3 DEF SaveTypeOK
    <2>7. stored'["state"] = stored["state"]
      BY <1>a, <1>5, <2>2
    <2>8. NotAfter(seen[h], stored'[h])
      <3>1. NotAfter(seen[h], flash[h])
        BY <1>1, <2>1 DEF MemoryAhead
      <3>2. QED
        BY <2>2, <2>3, <2>4, <3>1, SwappedAfter
    <2>9. NothingAhead'
      <3>1. ASSUME NEW p \in Images, stored'[p] # Torn PROVE stored'[p].version <= now
        <4>1. CASE p = h
          <5>1. flash[h] # Torn /\ stored'[h].version = flash[h].version
            BY <2>2, <2>3, <2>4, <3>1, <4>1, SwappedVersion
          <5>2. QED
            BY <2>1, <4>1, <5>1 DEF NothingAhead
        <4>2. CASE p # h
          BY <1>a, <2>2, <3>1, <4>2 DEF NothingAhead
        <4>3. QED
          BY <4>1, <4>2
      <3>2. ASSUME HasState, NEW p \in Images PROVE NotAfter(stored["state"].seen[p], stored'[p])
        <4>1. CASE p = h
          <5>1. stored["state"].seen[h] \in Versions
            BY <2>1, <3>2 DEF HasState, SaveTypeOK, States
          <5>2. NotAfter(stored["state"].seen[h], flash[h])
            BY <1>1, <2>1, <3>2 DEF MemoryAhead
          <5>3. QED
            BY <2>2, <2>3, <2>4, <4>1, <5>1, <5>2, SwappedAfter
        <4>2. CASE p # h
          BY <1>a, <2>2, <3>2, <4>2 DEF NothingAhead
        <4>3. QED
          BY <4>1, <4>2
      <3>3. QED
        BY <1>1, <2>7, <3>1, <3>2 DEF NothingAhead, HasState
    <2>10. MemoryAhead'
      BY <1>1, <2>7 DEF MemoryAhead, HasState
    <2>11. ImagesFirst'
      <3>1. \A p \in Images : p # Head(job) => stored'[p] = stored[p]
        BY <1>a, <2>2
      <3>2. \A p \in Images : p = Head(job) => NotAfter(seen[p], stored'[p])
        BY <2>8
      <3>3. QED
        BY <1>1, <1>b, <3>1, <3>2, FileDone
    <2>12. QED
      BY <2>6, <2>9, <2>10, <2>11
  <1>6. CASE target = "" /\ Head(job) = "state"
    <2>1. job = <<"state">> /\ job \in AllJobs
      BY <1>b, <1>6, StateIsLast DEF SaveTypeOK
    <2>2. \A p \in Images : NotAfter(seen[p], stored[p])
      <3>1. ASSUME NEW p \in Images, NEW i \in 1 .. Len(job) PROVE job[i] # p
        BY <1>a, <2>1
      <3>2. QED
        BY <1>1, <1>6, <2>1, <3>1 DEF ImagesFirst
    <2>3. /\ stored' = [stored EXCEPT !["state"] = Content("state")]
          /\ stored'["state"] = Content("state")
          /\ \A p \in Images : stored'[p] = stored[p]
      BY <1>1, <1>a, <1>6 DEF SaveTypeOK
    <2>4. /\ Content("state") \in States \cup {Torn}
          /\ Content("state") = Torn \/ Content("state").seen = seen
      BY DEF Content, States, SaveTypeOK
    <2>5. SaveTypeOK'
      <3>1. stored' \in [ImagesAndState -> Versions \cup States \cup {Absent, Torn}]
        BY <2>3, <2>4 DEF SaveTypeOK
      <3>2. QED
        BY <1>1, <1>3, <2>3, <2>4, <3>1 DEF SaveTypeOK
    <2>6. NothingAhead'
      <3>1. HasState' => \A p \in Images : NotAfter(stored'["state"].seen[p], stored'[p])
        BY <2>2, <2>3, <2>4 DEF HasState
      <3>2. QED
        BY <1>1, <2>3, <3>1 DEF NothingAhead
    <2>7. MemoryAhead'
      <3>1. \A p \in Images : NotAfter(seen[p], flash[p])
        BY <1>1 DEF MemoryAhead
      <3>2. HasState' => stored'["state"].seen = seen
        BY <2>3, <2>4 DEF HasState
      <3>3. QED
        BY <1>1, <3>1, <3>2 DEF MemoryAhead
    <2>8. ImagesFirst'
      <3>1. \A p \in Images : p # Head(job) => stored'[p] = stored[p]
        BY <2>3
      <3>2. \A p \in Images : p # Head(job)
        BY <1>a, <1>6
      <3>3. QED
        BY <1>1, <1>b, <3>1, <3>2, FileDone
    <2>9. QED
      BY <2>5, <2>6, <2>7, <2>8
  <1>7. QED
    BY <1>4, <1>5, <1>6

\* A file that could not be written stays torn.
LEMMA WriteFailsInv ==
    ASSUME SaveInv, WriteFails
    PROVE  SaveInv'
  <1> USE DEF SaveInv
  <1>1. /\ at = "saving" /\ job # <<>> /\ opened /\ opened' = FALSE /\ job' = Tail(job)
        /\ UNCHANGED <<at, options, flash, step, seen, adjusted, stored, now, target>>
    BY DEF WriteFails, machine
  <1>2. job' \in FlashJobs \cup AllJobs
    BY <1>1, Tails DEF SaveTypeOK
  <1>3. SaveTypeOK'
    BY <1>1, <1>2 DEF SaveTypeOK
  <1>4. NothingAhead' /\ MemoryAhead'
    BY <1>1 DEF NothingAhead, MemoryAhead, HasState
  <1>5. ImagesFirst'
    <2>1. target = "" => \A p \in Images : p = Head(job) => NotAfter(seen[p], stored'[p])
      BY <1>1 DEF ImagesFirst, NotAfter
    <2>2. QED
      BY <1>1, <2>1, FileDone
  <1>6. QED
    BY <1>3, <1>4, <1>5

\* The save is over.
LEMMA DoneInv ==
    ASSUME SaveInv, Done
    PROVE  SaveInv'
  <1>1. CASE ends
    BY <1>1, EndsInv DEF Done
  <1>2. CASE ~ends
    <2>1. at' = "running" /\ at = "saving" /\ UNCHANGED <<options, flash, step, seen, adjusted, job, stored, now>>
      BY <1>2 DEF Done, machine
    <2>2. SaveTypeOK' /\ NothingAhead' /\ MemoryAhead' /\ ImagesFirst'
      BY <2>1 DEF SaveInv, SaveTypeOK, NothingAhead, MemoryAhead, ImagesFirst, HasState
    <2>3. QED
      BY <2>2 DEF SaveInv
  <1>3. QED
    BY <1>1, <1>2

\* Without a state file there is nothing to be ahead.
LEMMA DeleteInv ==
    ASSUME SaveInv, NEW slot, delete_state(slot)
    PROVE  SaveInv'
  <1> USE DEF SaveInv
  <1>1. /\ at = "running" /\ UNCHANGED <<at, options, flash, step, seen, adjusted, now, job>>
        /\ stored' = IF slot = "" THEN [stored EXCEPT !["state"] = Absent] ELSE stored
    BY DEF delete_state, machine, jobVars
  <1>2. /\ "state" \in ImagesAndState /\ Images \subseteq ImagesAndState /\ "state" \notin Images
    BY DEF ImagesAndState, Images
  <1>3. /\ \A p \in Images : stored'[p] = stored[p]
        /\ stored'["state"] \in {stored["state"], Absent}
    BY <1>1, <1>2 DEF SaveTypeOK
  <1>4. SaveTypeOK'
    <2>1. stored' \in [ImagesAndState -> Versions \cup States \cup {Absent, Torn}]
      BY <1>1, <1>2 DEF SaveTypeOK
    <2>2. QED
      BY <1>1, <1>3, <2>1 DEF SaveTypeOK
  <1>5. HasState' => HasState /\ stored'["state"] = stored["state"]
    BY <1>3 DEF HasState
  <1>6. NothingAhead' /\ MemoryAhead'
    BY <1>1, <1>3, <1>5 DEF NothingAhead, MemoryAhead
  <1>7. ImagesFirst'
    BY <1>1 DEF ImagesFirst
  <1>8. QED
    BY <1>4, <1>6, <1>7
-----------------------------------------------------------------------------
(* The theorem *)

LEMMA SaveInvariant == SaveSpec => []SaveInv
  <1>1. ASSUME SaveInv, [SaveNext]_saveVars PROVE SaveInv'
    <2>1. CASE LoadNC2k
      BY <1>1, <2>1, LoadInv
    <2>2. CASE GuestStep({}) \/ \E p \in Written : GuestStep({p})
      <3>1. PICK changed \in SUBSET Images : GuestStep(changed)
        BY <2>2, SaveAssumption
      <3>2. QED
        BY <1>1, <3>1, GuestInv
    <2>3. CASE \E jobs \in Saves, slot \in Targets : SaveCommand(jobs, slot)
      BY <1>1, <2>3, BeginInv DEF SaveCommand
    <2>4. CASE \E jobs \in Saves \cup {<<>>} : Quit(jobs)
      BY <1>1, <2>4, BeginInv DEF Quit
    <2>5. CASE Open
      BY <1>1, <2>5, OpenInv
    <2>6. CASE OpenFails
      BY <1>1, <2>6, OpenFailsInv
    <2>7. CASE Write1
      BY <1>1, <2>7, WriteInv
    <2>8. CASE WriteFails
      BY <1>1, <2>8, WriteFailsInv
    <2>9. CASE Done
      BY <1>1, <2>9, DoneInv
    <2>10. CASE \E slot \in Targets : delete_state(slot)
      BY <1>1, <2>10, DeleteInv
    <2>11. CASE Dies
      BY <1>1, <2>11, EndsInv DEF Dies
    <2>12. CASE UNCHANGED saveVars
      BY <1>1, <2>12 DEF saveVars, machine, jobVars, SaveInv, SaveTypeOK, NothingAhead,
                         MemoryAhead, ImagesFirst, HasState
    <2>13. QED
      BY <1>1, <2>1, <2>2, <2>3, <2>4, <2>5, <2>6, <2>7, <2>8, <2>9, <2>10, <2>11, <2>12 DEF SaveNext
  <1>2. QED
    BY SaveInitInv, <1>1, PTL DEF SaveSpec

\* Wherever a save is interrupted or fails, the program's state file is not
\* ahead of its flash images (save_all: the images first).
THEOREM StateIsNeverAhead == SaveSpec => []StateNotAhead
  <1>1. SaveInv => StateNotAhead
    BY DEF SaveInv, NothingAhead, HasState, NotAfter, StateNotAhead
  <1>2. QED
    BY SaveInvariant, <1>1, PTL
-----------------------------------------------------------------------------
(* A program that starts goes on where its files were saved *)

\* Swapping twice is no swapping: a NOR that is read in the order in which it
\* was written.
LEMMA SwappedBack ==
    ASSUME NEW a \in Versions, NEW by \in 0 .. 1
    PROVE  Swapped(Swapped(a, by), by) = a
  <1>1. CASE a = Torn \/ by = 0
    BY <1>1 DEF Swapped
  <1>2. CASE ~(a = Torn \/ by = 0)
    <2>1. a \in [version : Nat, order : 0 .. 1]
      BY <1>2 DEF Versions
    <2>2. /\ Swapped(a, by) = [a EXCEPT !.order = 1 - @]
          /\ [a EXCEPT !.order = 1 - @] \in [version : Nat, order : 0 .. 1]
      BY <1>2, <2>1 DEF Swapped
    <2>3. Swapped(a, by) # Torn
      BY <2>2, FilesAssumption
    <2>4. Swapped(Swapped(a, by), by) = [[a EXCEPT !.order = 1 - @] EXCEPT !.order = 1 - @]
      BY <1>2, <2>2, <2>3 DEF Swapped
    <2>5. 1 - (1 - a.order) = a.order
      BY <2>1
    <2>6. QED
      BY <2>1, <2>4, <2>5
  <1>3. QED
    BY <1>1, <1>2

LEMMA CompleteInit == SaveInit => CompleteKept
  BY DEF SaveInit, CompleteKept

\* Nothing touches the files, and the memory is left alone, given up or not as
\* it was when the program started.
LEMMA FilesUntouched ==
    ASSUME CompleteKept, UNCHANGED <<stored, complete>>,
           at' = "saving" /\ target' = "" => job' = <<>>,
           at' # "off" /\ started' => at # "off" /\ UNCHANGED <<machine, options, started>>
    PROVE  CompleteKept'
  <1> SUFFICES ASSUME complete' # Absent PROVE CompleteKept'
    BY DEF CompleteKept
  <1>1. FilesHold'
    BY DEF CompleteKept, FilesHold, SavedAs
  <1>2. at' # "off" /\ started' /\ options'.load_state => MemoryHolds'
    BY DEF CompleteKept, MemoryHolds, machine
  <1>3. QED
    BY <1>1, <1>2 DEF CompleteKept

\* The state and the images are loaded as they were saved.
LEMMA LoadComplete ==
    ASSUME SaveInv, CompleteKept, LoadNC2k
    PROVE  CompleteKept'
  <1> SUFFICES ASSUME complete' # Absent PROVE CompleteKept'
    BY DEF CompleteKept
  <1>1. /\ UNCHANGED <<stored, complete>> /\ at' = "running"
        /\ flash' = [p \in Images |-> Loaded(p)] /\ options' \in Options
    BY DEF LoadNC2k
  <1>2. FilesHold /\ FilesHold'
    BY <1>1 DEF CompleteKept, FilesHold, SavedAs
  <1>3. ASSUME options'.load_state
        PROVE  /\ step' = complete.step /\ seen' = complete.seen
               /\ adjusted' = complete.adjusted \cup Adjusts
    <2>1. stored["state"] \in States
      BY <1>2 DEF FilesHold, States
    <2>2. stored["state"] # Absent /\ stored["state"] # Torn
      BY <2>1, FilesAssumption
    <2>3. /\ step' = stored["state"].step /\ seen' = stored["state"].seen
          /\ adjusted' = stored["state"].adjusted \cup Adjusts
      BY <1>3, <2>2 DEF LoadNC2k, load_state, LoadsState
    <2>4. QED
      BY <1>2, <2>3 DEF FilesHold
  <1>4. {"nand0", "nand", "nor"} \subseteq Images
    BY DEF Images
  <1>5. \A p \in Images : complete.flash[p] \in Versions
    BY <1>2 DEF FilesHold
  <1>6. \A p \in {"nand0", "nand"} : flash'[p] = complete.flash[p]
    <2>1. ASSUME NEW p \in {"nand0", "nand"}
          PROVE  flash'[p] = Swapped(Swapped(complete.flash[p], 0), 0)
      BY <1>1, <1>2, <1>4 DEF Loaded, FilesHold, SavedAs
    <2>2. QED
      BY <1>4, <1>5, <2>1, SwappedBack
  <1>7. ASSUME options'.nor[1] = complete.order PROVE flash'["nor"] = complete.flash["nor"]
    <2>1. complete.order \in 0 .. 1
      BY <1>2 DEF FilesHold
    <2>2. flash'["nor"] = Swapped(Swapped(complete.flash["nor"], complete.order), complete.order)
      BY <1>1, <1>2, <1>4, <1>7 DEF Loaded, FilesHold, SavedAs
    <2>3. QED
      BY <1>4, <1>5, <2>1, <2>2, SwappedBack
  <1>8. QED
    BY <1>1, <1>2, <1>3, <1>6, <1>7 DEF CompleteKept, MemoryHolds, Adjusts

\* The state is the last file of a save_all, and makes it complete if the
\* images are those of the memory.
LEMMA WriteComplete ==
    ASSUME SaveInv, CompleteKept, Write1
    PROVE  CompleteKept'
  <1>1. /\ at = "saving" /\ job # <<>> /\ job' = Tail(job) /\ target' = target
        /\ UNCHANGED <<at, options, machine, started>>
    BY DEF Write1
  <1>2. CASE target = "" /\ Head(job) = "state" /\ WentWell
    <2>1. complete' = [flash |-> flash, step |-> step, seen |-> seen,
                       adjusted |-> adjusted, order |-> options.nor[2]]
      BY <1>2 DEF Write1
    <2>2. /\ flash \in [Images -> Versions] /\ seen \in [Images -> Versions]
          /\ step \in Nat /\ adjusted \in SUBSET Adjustments /\ options.nor[2] \in 0 .. 1
      BY <1>2 DEF SaveInv, SaveTypeOK, WentWell
    <2>3. stored' = [stored EXCEPT !["state"] = [step |-> step, seen |-> seen, adjusted |-> adjusted]]
      BY <1>2 DEF Write1, WentWell, Content
    <2>4. /\ stored'["state"] = [step |-> step, seen |-> seen, adjusted |-> adjusted]
          /\ \A p \in Images : stored'[p] = stored[p]
      BY <2>3 DEF SaveInv, SaveTypeOK, ImagesAndState, Images
    <2>5. \A p \in Images : stored[p] = Swapped(flash[p], IF p = "nor" THEN options.nor[2] ELSE 0)
      BY <1>2 DEF WentWell, Content, Images
    <2>6. FilesHold'
      BY <2>1, <2>2, <2>4, <2>5 DEF FilesHold, SavedAs
    <2>7. MemoryHolds'
      BY <1>1, <2>1 DEF MemoryHolds, machine
    <2>8. job' = <<>>
      <3>1. job = <<"state">>
        BY <1>1, <1>2, StateIsLast DEF SaveInv, SaveTypeOK
      <3>2. QED
        BY <1>1, <3>1
    <2>9. QED
      BY <2>6, <2>7, <2>8 DEF CompleteKept
  <1>3. CASE ~(target = "" /\ Head(job) = "state" /\ WentWell)
    <2>1. complete' = complete
      BY <1>3 DEF Write1
    <2>2. CASE complete = Absent
      BY <2>1, <2>2 DEF CompleteKept
    <2>3. CASE complete # Absent
      <3>1. target # "" /\ stored' = stored
        BY <1>1, <2>3 DEF CompleteKept, Write1
      <3>2. QED
        BY <1>1, <2>1, <3>1, FilesUntouched
    <2>4. QED
      BY <2>2, <2>3
  <1>4. QED
    BY <1>2, <1>3

\* Whatever else touches the program's own files takes note of it.
LEMMA OthersComplete ==
    ASSUME SaveInv, CompleteKept,
           \/ \E changed : GuestStep(changed)
           \/ \E jobs, slot, end : Begin(jobs, slot, end)
           \/ Open \/ OpenFails \/ WriteFails \/ Done \/ Dies
           \/ \E slot : delete_state(slot)
    PROVE  CompleteKept'
  <1>1. ASSUME complete' = Absent PROVE CompleteKept'
    BY <1>1 DEF CompleteKept
  <1>2. CASE \E changed : GuestStep(changed)
    BY <1>2, FilesUntouched DEF GuestStep
  <1>3. ASSUME NEW jobs, NEW slot, NEW end, Begin(jobs, slot, end) PROVE CompleteKept'
    <2>1. CASE slot = ""
      BY <1>1, <1>3, <2>1 DEF Begin
    <2>2. CASE slot # ""
      <3>1. /\ target' # "" /\ at = "running" /\ UNCHANGED <<stored, complete>>
            /\ UNCHANGED <<machine, options, started>>
        BY <1>3, <2>2 DEF Begin
      <3>2. QED
        BY <3>1, FilesUntouched
    <2>3. QED
      BY <2>1, <2>2
  <1>4. CASE Open
    <2>1. CASE complete = Absent
      BY <1>1, <1>4, <2>1 DEF Open
    <2>2. CASE complete # Absent
      <3>1. /\ target # "" /\ at = "saving" /\ UNCHANGED <<stored, complete, target, at>>
            /\ UNCHANGED <<machine, options, started>>
        BY <1>4, <2>2 DEF CompleteKept, Open
      <3>2. QED
        BY <3>1, FilesUntouched
    <2>3. QED
      BY <2>1, <2>2
  <1>5. CASE OpenFails
    <2>1. CASE target = ""
      BY <1>1, <1>5, <2>1 DEF OpenFails
    <2>2. CASE target # ""
      <3>1. UNCHANGED <<stored, complete>>
        BY <1>5, <2>2 DEF OpenFails
      <3>2. CASE Head(job) # "state"
        <4>1. at' = "off"
          BY <1>5, <3>2 DEF OpenFails, Ends
        <4>2. QED
          BY <3>1, <4>1, FilesUntouched
      <3>3. CASE Head(job) = "state"
        <4>1. target' # "" /\ at = "saving" /\ UNCHANGED <<machine, options, started, at>>
          BY <1>5, <2>2, <3>3 DEF OpenFails
        <4>2. QED
          BY <3>1, <4>1, FilesUntouched
      <3>4. QED
        BY <3>2, <3>3
    <2>3. QED
      BY <2>1, <2>2
  <1>6. CASE WriteFails
    <2>1. CASE target = ""
      BY <1>1, <1>6, <2>1 DEF WriteFails
    <2>2. CASE target # ""
      <3>1. /\ at = "saving" /\ UNCHANGED <<stored, complete, target, at>>
            /\ UNCHANGED <<machine, options, started>>
        BY <1>6, <2>2 DEF WriteFails
      <3>2. QED
        BY <2>2, <3>1, FilesUntouched
    <2>3. QED
      BY <2>1, <2>2
  <1>7. CASE Done
    <2>1. UNCHANGED <<stored, complete>> /\ at = "saving"
      BY <1>7 DEF Done
    <2>2. CASE ends
      <3>1. at' = "off"
        BY <1>7, <2>2 DEF Done, Ends
      <3>2. QED
        BY <2>1, <3>1, FilesUntouched
    <2>3. CASE ~ends
      <3>1. at' = "running" /\ UNCHANGED <<machine, options, started>>
        BY <1>7, <2>3 DEF Done
      <3>2. QED
        BY <2>1, <3>1, FilesUntouched
    <2>4. QED
      BY <2>2, <2>3
  <1>8. CASE Dies
    BY <1>8, FilesUntouched DEF Dies, Ends
  <1>9. ASSUME NEW slot, delete_state(slot) PROVE CompleteKept'
    <2>1. CASE slot = ""
      BY <1>1, <1>9, <2>1 DEF delete_state
    <2>2. CASE slot # ""
      <3>1. /\ at = "running" /\ UNCHANGED <<stored, complete, at>>
            /\ UNCHANGED <<machine, options, started>>
        BY <1>9, <2>2 DEF delete_state
      <3>2. QED
        BY <3>1, FilesUntouched
    <2>3. QED
      BY <2>1, <2>2
  <1>10. QED
    BY <1>2, <1>3, <1>4, <1>5, <1>6, <1>7, <1>8, <1>9

\* A program that loads the files of a complete save goes on where that save
\* was: the same step of the machine and the images of the same moment, with the
\* clock set or the CPU reset only as its options ask for.
THEOREM LoadResumes == SaveSpec => []ResumesAsSaved
  <1>1. ASSUME SaveInv, CompleteKept, [SaveNext]_saveVars PROVE CompleteKept'
    <2>1. CASE LoadNC2k
      BY <1>1, <2>1, LoadComplete
    <2>2. CASE Write1
      BY <1>1, <2>2, WriteComplete
    <2>3. CASE UNCHANGED saveVars
      BY <1>1, <2>3, FilesUntouched DEF saveVars, jobVars, CompleteKept
    <2>4. CASE SaveNext /\ ~LoadNC2k /\ ~Write1
      BY <1>1, <2>4, OthersComplete DEF SaveNext, SaveCommand, Quit
    <2>5. QED
      BY <1>1, <2>1, <2>2, <2>3, <2>4
  <1>2. CompleteKept => ResumesAsSaved
    BY DEF CompleteKept, MemoryHolds, ResumesAsSaved
  <1>3. QED
    BY SaveInvariant, CompleteInit, <1>1, <1>2, PTL DEF SaveSpec
=============================================================================
