--------------------------- MODULE DeviceKeyProofs ---------------------------
(***************************************************************************)
(* Proofs about KeypadScan and FbKeys, for any matrix, keys, key tables    *)
(* and lengths of the queues: the guest's scan finds what is in the        *)
(* matrix, and the matrix that two threads write is what is held.          *)
(***************************************************************************)
EXTENDS FbKeys, KeypadScan, SequenceTheorems, TLAPS

(* The guest's scan *)

\* What a read of the ports finds on the line that is selected: by row or by
\* column the pressed cells of the line, and no other line's; by the poll the
\* first columns with a pressed cell.
LEMMA ReadFinds ==
    ASSUME ScanTypeOK, RegistersSet, Read
    PROVE  /\ scan = "rows" => Found = {cell \in pressed : cell[1] = line}
           /\ scan = "columns" => Found = {cell \in pressed : cell[2] = line}
           /\ scan = "poll" => Found = {cell[2] : cell \in pressed} \cap HotColumns
<1>1. /\ pressed \subseteq Rows \X Columns /\ task = "read" /\ setup = {}
      /\ UNCHANGED <<pressed, port1_DIR107, port0_DIR, port1_OL, port0_OL, pulled>>
      /\ port1_ID' = Port1(pressed', port0_DIR', port0_OL', port1_DIR107', port1_ID)
      /\ port0_ID' = Port0(pressed', port1_DIR107', port1_OL', port0_DIR', pulled', port0_ID)
  BY DEF ScanTypeOK, Read, ReadPort, Update, latches
<1>2. /\ port1_DIR107 = IF scan = "columns" THEN {} ELSE Rows
      /\ port0_DIR = CASE scan = "rows" -> {} [] scan = "columns" -> Columns
                       [] OTHER -> Columns \ HotColumns
      /\ pulled = IF scan = "rows" THEN {} ELSE PullUps
      /\ scan = "poll" => port1_OL = {}
      /\ scan = "rows" => port1_OL = {line} /\ line \in Rows
      /\ scan = "columns" => port0_OL = {line} /\ line \in Columns
  BY <1>1 DEF RegistersSet
<1>3. CASE scan = "rows"
  <2>1. port0_ID' = {x \in Columns : <<line, x>> \in pressed}
    BY <1>1, <1>2, <1>3 DEF Port0, InputHigh, Meeting
  <2>2. Found = {line} \X port0_ID'
    BY <1>3 DEF Found
  <2> QED BY <1>1, <1>2, <1>3, <2>1, <2>2
<1>4. CASE scan = "columns"
  <2>1. port1_ID' = {y \in Rows : <<y, line>> \in pressed}
    BY <1>1, <1>2, <1>4 DEF Port1
  <2>2. Found = port1_ID' \X {line}
    BY <1>4 DEF Found
  <2> QED BY <1>1, <1>2, <1>4, <2>1, <2>2
<1>5. CASE scan = "poll"
  <2>1. ASSUME NEW x \in HotColumns
        PROVE  x \in port0_ID' <=> \A y \in Rows : <<y, x>> \notin pressed
    <3>1. x \in Columns /\ x \in PullUps
      BY DEF HotColumns, PullUps
    <3> QED BY <1>1, <1>2, <1>5, <3>1 DEF Port0, InputHigh, Meeting
  <2>2. Found = HotColumns \ port0_ID'
    BY <1>5 DEF Found
  <2> QED BY <1>1, <1>5, <2>1, <2>2
<1> QED BY <1>3, <1>4, <1>5

LEMMA ScanInitially == ScanInit => ScanInv
BY DEF ScanInit, KeypadInit, ScanInv, ScanTypeOK, RegistersSet, SeenSoFar

LEMMA ScanTypeStep == ScanTypeOK /\ [ScanNext]_portVars => ScanTypeOK'
<1> SUFFICES ASSUME ScanTypeOK, [ScanNext]_portVars PROVE ScanTypeOK'
  OBVIOUS
<1> USE DEF ScanTypeOK
<1>1. CASE UNCHANGED portVars
  BY <1>1 DEF portVars, keypadVars, scanVars
<1>2. CASE Begin
  BY <1>2 DEF Begin, keypadVars
<1>3. ASSUME NEW register \in {"dir1", "dir0", "pull", "out1"}, Setup(register)
      PROVE  ScanTypeOK'
  <2>1. /\ UNCHANGED <<scan, lines, pressed>> /\ task = "setup" /\ setup' = setup \ {register}
        /\ task' = IF setup' = {} THEN "select" ELSE "setup"
    BY <1>3 DEF Setup, Write15Dir1, Write0F, WritePullUp, Write09Port1,
                Quietly
  <2> QED BY <2>1
<1>4. ASSUME NEW l, Select(l) PROVE ScanTypeOK'
  <2>1. /\ UNCHANGED <<scan, setup, pressed>> /\ task = "select" /\ task' = "read"
        /\ lines' = lines \ {l}
    BY <1>4 DEF Select, Write09Port1, Write08Port0, keypadVars
  <2> QED BY <2>1
<1>5. CASE Read
  BY <1>5 DEF Read, ReadPort
<1>6. CASE KeyChange
  BY <1>6 DEF KeyChange, PressCell, ReleaseCell, scanVars
<1>7. CASE OtherUse
  BY <1>7 DEF OtherUse, Write04GeneralCtrl, Write08Port0, Quietly
<1> QED BY <1>1, <1>2, <1>3, <1>4, <1>5, <1>6, <1>7 DEF ScanNext

LEMMA RegistersStep ==
    ScanTypeOK /\ RegistersSet /\ [ScanNext]_portVars => RegistersSet'
<1> SUFFICES ASSUME ScanTypeOK, RegistersSet, [ScanNext]_portVars
             PROVE  RegistersSet'
  OBVIOUS
<1>1. ASSUME UNCHANGED <<task, setup, scan, line, latches>> PROVE RegistersSet'
  BY <1>1 DEF RegistersSet, latches
<1>2. CASE UNCHANGED portVars \/ KeyChange
  BY <1>1, <1>2 DEF portVars, keypadVars, scanVars, KeyChange, PressCell,
                    ReleaseCell
<1>3. CASE Begin
  BY <1>3 DEF Begin, RegistersSet
<1>4. ASSUME NEW register \in {"dir1", "dir0", "pull", "out1"}, Setup(register)
      PROVE  RegistersSet'
  <2>1. /\ UNCHANGED scan /\ task = "setup" /\ task' # "read" /\ setup' = setup \ {register}
    BY <1>4 DEF Setup
  <2>2. CASE register = "dir1"
    BY <1>4, <2>1, <2>2 DEF Setup, Write15Dir1, RegistersSet
  <2>3. CASE register = "dir0"
    BY <1>4, <2>1, <2>3 DEF Setup, Write0F, Quietly, RegistersSet
  <2>4. CASE register = "pull"
    BY <1>4, <2>1, <2>4 DEF Setup, WritePullUp, Quietly, RegistersSet
  <2>5. CASE register = "out1"
    BY <1>4, <2>1, <2>5 DEF Setup, Write09Port1, RegistersSet
  <2> QED BY <2>2, <2>3, <2>4, <2>5
<1>5. ASSUME NEW l, Select(l) PROVE RegistersSet'
  <2>1. /\ UNCHANGED <<scan, setup, port1_DIR107, port0_DIR, pulled>> /\ line' = l /\ l \in lines
        /\ task = "select" /\ task' = "read"
        /\ scan = "rows" => port1_OL' = {l}
        /\ scan = "columns" => port0_OL' = {l}
        /\ scan = "poll" => UNCHANGED port1_OL
    BY <1>5 DEF Select, Write09Port1, Write08Port0, keypadVars, latches
  <2>2. (scan = "rows" => l \in Rows) /\ (scan = "columns" => l \in Columns)
    BY <2>1 DEF ScanTypeOK
  <2> QED BY <2>1, <2>2 DEF RegistersSet
<1>6. CASE Read
  <2>1. /\ UNCHANGED <<scan, setup, line, port1_DIR107, port0_DIR, port1_OL, pulled>>
        /\ task = "read" /\ task' # "read"
    BY <1>6 DEF Read, ReadPort, latches
  <2> QED BY <2>1 DEF RegistersSet
<1>7. CASE OtherUse
  BY <1>7 DEF OtherUse, RegistersSet
<1> QED BY <1>2, <1>3, <1>4, <1>5, <1>6, <1>7 DEF ScanNext

LEMMA SeenStep == ScanInv /\ [ScanNext]_portVars => SeenSoFar'
<1> SUFFICES ASSUME ScanInv, [ScanNext]_portVars PROVE SeenSoFar'
  OBVIOUS
<1>0. ScanTypeOK /\ RegistersSet /\ SeenSoFar
  BY DEF ScanInv
\* A step that looks at no line only has to keep the lines to come.
<1>1. ASSUME Watch, UNCHANGED <<scan, seen>>,
             \A cell \in pressed : ToCome(cell) => ToCome(cell)'
      PROVE  SeenSoFar'
  <2>1. /\ throughout' \subseteq throughout /\ throughout' \subseteq pressed'
        /\ pressed' \subseteq sometime' /\ sometime \subseteq sometime'
    BY <1>1 DEF Watch
  <2>2. HotColumns' = HotColumns
    BY DEF HotColumns
  <2>3. throughout \subseteq pressed
    BY <1>0 DEF SeenSoFar
  <2> QED BY <1>0, <1>1, <2>1, <2>2, <2>3 DEF SeenSoFar
<1>2. CASE UNCHANGED portVars
  BY <1>0, <1>2 DEF portVars, keypadVars, scanVars, history, SeenSoFar,
                    ToCome, LineOf
<1>3. CASE Begin
  <2>1. /\ throughout' = pressed /\ sometime' = pressed /\ seen' = {}
        /\ UNCHANGED pressed /\ scan' \in {"rows", "columns", "poll"}
        /\ lines' = CASE scan' = "rows" -> Rows [] scan' = "columns" -> Columns
                      [] OTHER -> {NoLine}
    BY <1>3 DEF Begin, keypadVars
  <2>2. pressed \subseteq Rows \X Columns
    BY <1>0 DEF ScanTypeOK
  <2>3. \A cell \in pressed : ToCome(cell)'
    BY <2>1, <2>2 DEF ToCome, LineOf
  <2> QED BY <2>1, <2>3 DEF SeenSoFar
<1>4. ASSUME NEW register \in {"dir1", "dir0", "pull", "out1"}, Setup(register)
      PROVE  SeenSoFar'
  <2>1. Watch /\ UNCHANGED <<scan, seen, lines>> /\ task = "setup"
    BY <1>4 DEF Setup
  <2>2. \A cell : ToCome(cell) => ToCome(cell)'
    BY <2>1 DEF ToCome, LineOf
  <2> QED BY <1>1, <2>1, <2>2
<1>5. ASSUME NEW l, Select(l) PROVE SeenSoFar'
  <2>1. /\ Watch /\ UNCHANGED <<scan, seen>> /\ task = "select" /\ task' = "read"
        /\ lines' = lines \ {l} /\ line' = l
    BY <1>5 DEF Select
  <2>2. \A cell : ToCome(cell) => ToCome(cell)'
    BY <2>1 DEF ToCome, LineOf
  <2> QED BY <1>1, <2>1, <2>2
<1>6. CASE Read
  <2>1. /\ UNCHANGED <<scan, lines, line, pressed>> /\ Watch
        /\ seen' = seen \cup Found
    BY <1>6 DEF Read, ReadPort
  <2>2. /\ throughout' \subseteq throughout /\ throughout' \subseteq pressed'
        /\ pressed' \subseteq sometime' /\ sometime \subseteq sometime'
    BY <2>1 DEF Watch
  <2>3. HotColumns' = HotColumns
    BY DEF HotColumns
  <2>4. ASSUME NEW cell \in throughout'
        PROVE  ToCome(cell) => ToCome(cell)' \/ LineOf(cell) = line
    BY <2>1 DEF ToCome, LineOf
  <2>5. scan \in {"rows", "columns", "poll"}
    BY <1>0 DEF ScanTypeOK
  <2>6. CASE scan = "poll"
    <3>1. Found = {cell[2] : cell \in pressed} \cap HotColumns
      BY <1>0, <1>6, <2>6, ReadFinds
    <3>2. seen' \subseteq {cell[2] : cell \in sometime'}
      BY <1>0, <2>1, <2>2, <2>6, <3>1 DEF SeenSoFar
    <3>3. \A cell \in throughout' : cell[2] \in HotColumns => cell[2] \in Found
      BY <2>1, <2>2, <3>1
    <3> QED BY <2>1, <2>2, <2>3, <2>6, <3>2, <3>3 DEF SeenSoFar
  <2>7. CASE scan = "rows" \/ scan = "columns"
    <3>1. Found = {cell \in pressed : LineOf(cell) = line}
      BY <1>0, <1>6, <2>7, ReadFinds DEF LineOf
    <3>2. seen' \subseteq sometime'
      BY <1>0, <2>1, <2>2, <2>7, <3>1 DEF SeenSoFar
    <3>3. ASSUME NEW cell \in throughout' PROVE ToCome(cell)' \/ cell \in seen'
      <4>1. ToCome(cell) \/ cell \in seen
        BY <1>0, <2>2, <2>7 DEF SeenSoFar
      <4> QED BY <2>1, <2>2, <2>4, <3>1, <4>1
    <3> QED BY <2>1, <2>2, <2>7, <3>2, <3>3 DEF SeenSoFar
  <2> QED BY <2>5, <2>6, <2>7
<1>7. CASE KeyChange
  <2>1. Watch /\ UNCHANGED <<scan, seen, lines, line, task>>
    BY <1>7 DEF KeyChange, scanVars
  <2>2. \A cell : ToCome(cell) => ToCome(cell)'
    BY <2>1 DEF ToCome, LineOf
  <2> QED BY <1>1, <2>1, <2>2
<1>8. CASE OtherUse
  BY <1>8 DEF OtherUse, Write04GeneralCtrl, Write08Port0, Quietly, SeenSoFar
<1> QED BY <1>2, <1>3, <1>4, <1>5, <1>6, <1>7, <1>8 DEF ScanNext

\* A scan of the guest is honest: it finds every key that was down all the time
\* and no key that never was, whatever the registers held before it.
THEOREM ScanIsAlwaysHonest == ScanSpec => []ScanIsHonest
<1>1. ScanInv /\ [ScanNext]_portVars => ScanInv'
  BY ScanTypeStep, RegistersStep, SeenStep DEF ScanInv
<1>2. ScanInv => ScanIsHonest
  BY DEF ScanInv, ScanTypeOK, SeenSoFar, ToCome, ScanIsHonest
<1> QED BY <1>1, <1>2, ScanInitially, PTL DEF ScanSpec

-----------------------------------------------------------------------------
(* Queues *)

\* What a queue holds after an event is added or taken.
LEMMA Added ==
    ASSUME NEW S, NEW q \in Seq(S), NEW e \in S
    PROVE  /\ Append(q, e) \in Seq(S) /\ Len(Append(q, e)) = Len(q) + 1 /\ Len(q) \in Nat
           /\ \A i \in 1 .. Len(q) : Append(q, e)[i] = q[i]
           /\ Append(q, e)[Len(q) + 1] = e
BY AppendProperties, LenProperties

LEMMA Taken ==
    ASSUME NEW S, NEW q \in Seq(S), q # <<>>
    PROVE  /\ Head(q) \in S /\ Head(q) = q[1] /\ Len(q) \in Nat /\ Len(q) > 0
           /\ Tail(q) \in Seq(S) /\ Len(Tail(q)) = Len(q) - 1
           /\ \A i \in 1 .. Len(q) - 1 : Tail(q)[i] = q[i + 1]
           /\ \A i \in 2 .. Len(q) : q[i] = Tail(q)[i - 1]
<1>1. /\ Head(q) \in S /\ Tail(q) \in Seq(S) /\ Len(q) \in Nat /\ Len(q) > 0
      /\ Len(Tail(q)) = Len(q) - 1 /\ \A i \in 1 .. Len(Tail(q)) : Tail(q)[i] = q[i + 1]
  BY HeadTailProperties, LenProperties, EmptySeq
<1>2. Head(q) = q[1]
  BY LenProperties, EmptySeq
<1>3. ASSUME NEW i \in 2 .. Len(q) PROVE q[i] = Tail(q)[i - 1]
  <2>1. i - 1 \in 1 .. Len(Tail(q)) /\ (i - 1) + 1 = i
    BY <1>1
  <2> QED BY <1>1, <2>1
<1> QED BY <1>1, <1>2, <1>3

-----------------------------------------------------------------------------
(* The threads of nc2000_fb *)

\* What still waits after an event is added, and after one is taken.
LEMMA WaitsAfterAdding ==
    ASSUME NEW S, NEW q \in Seq(S), NEW e \in S, NEW code, NEW value
    PROVE  /\ \A from \in 1 .. Len(q) + 1 :
                Waits(q, code, value, from) => Waits(Append(q, e), code, value, from)
           /\ \A from \in 1 .. Len(q) + 1 :
                e = [code |-> code, value |-> value] => Waits(Append(q, e), code, value, from)
<1> DEFINE r == Append(q, e)
<1>1. /\ Len(r) = Len(q) + 1 /\ Len(q) \in Nat /\ r[Len(q) + 1] = e
      /\ \A i \in 1 .. Len(q) : r[i] = q[i]
  BY Added
<1> HIDE DEF r
<1>2. ASSUME NEW from \in 1 .. Len(q) + 1, Waits(q, code, value, from)
      PROVE  Waits(r, code, value, from)
  <2>1. PICK i \in from .. Len(q) : q[i] = [code |-> code, value |-> value]
    BY <1>2 DEF Waits
  <2>2. i \in from .. Len(r) /\ r[i] = q[i]
    BY <1>1, <2>1
  <2> QED BY <2>1, <2>2 DEF Waits
<1>3. ASSUME NEW from \in 1 .. Len(q) + 1, e = [code |-> code, value |-> value]
      PROVE  Waits(r, code, value, from)
  <2>1. Len(q) + 1 \in from .. Len(r)
    BY <1>1
  <2> QED BY <1>1, <1>3, <2>1 DEF Waits
<1> QED BY <1>2, <1>3 DEF r

LEMMA WaitsAfterTaking ==
    ASSUME NEW S, NEW q \in Seq(S), q # <<>>, NEW code, NEW value
    PROVE  /\ \A from \in 2 .. Len(q) + 1 :
                Waits(q, code, value, from) => Waits(Tail(q), code, value, from - 1)
           /\ Waits(q, code, value, 1) /\ Head(q) # [code |-> code, value |-> value]
                => Waits(Tail(q), code, value, 1)
<1>1. /\ Len(Tail(q)) = Len(q) - 1 /\ Len(q) \in Nat /\ Len(q) > 0 /\ Head(q) = q[1]
      /\ \A i \in 2 .. Len(q) : q[i] = Tail(q)[i - 1]
  BY Taken
<1>2. ASSUME NEW from \in 2 .. Len(q) + 1, Waits(q, code, value, from)
      PROVE  Waits(Tail(q), code, value, from - 1)
  <2>1. PICK i \in from .. Len(q) : q[i] = [code |-> code, value |-> value]
    BY <1>2 DEF Waits
  <2>2. i - 1 \in from - 1 .. Len(Tail(q)) /\ Tail(q)[i - 1] = q[i]
    BY <1>1, <2>1
  <2> QED BY <2>1, <2>2 DEF Waits
<1>3. ASSUME Waits(q, code, value, 1), Head(q) # [code |-> code, value |-> value]
      PROVE  Waits(Tail(q), code, value, 1)
  <2>1. PICK i \in 1 .. Len(q) : q[i] = [code |-> code, value |-> value]
    BY <1>3 DEF Waits
  <2>2. i # 1
    BY <1>1, <1>3, <2>1
  <2>3. i - 1 \in 1 .. Len(Tail(q)) /\ Tail(q)[i - 1] = q[i]
    BY <1>1, <2>1, <2>2
  <2> QED BY <2>1, <2>3 DEF Waits
<1> QED BY <1>2, <1>3

\* A write of the matrix sets the cell the thread has found and no other.
LEMMA SetsOneCell ==
    ASSUME NEW t, NEW isDown \in BOOLEAN, SetCell(t, isDown), NEW cell \in Cells
    PROVE  cell \in keypadmatrix' <=> IF target[t] = cell THEN isDown ELSE cell \in keypadmatrix
<1>1. cell # NoCell
  BY FbKeysAssumption
<1>2. CASE target[t] = NoCell
  BY <1>1, <1>2 DEF SetCell
<1>3. CASE target[t] # NoCell
  BY <1>1, <1>3 DEF SetCell
<1> QED BY <1>2, <1>3

\* An event that has met no table under construction sets the cell of its key;
\* one that has leaves its cells in question, and all others as they were.
LEMMA SetsItsCell ==
    ASSUME Aimed, NEW t \in Threads, at[t] = "store",
           NEW isDown \in BOOLEAN, SetCell(t, isDown), NEW cell \in Cells \ astray'
    PROVE  /\ CellOf(KeyId(t)) = cell => (cell \in keypadmatrix' <=> isDown)
           /\ CellOf(KeyId(t)) # cell =>
                cell \notin astray /\ (cell \in keypadmatrix' <=> cell \in keypadmatrix)
<1>1. cell # NoCell /\ cell \in Cells
  BY FbKeysAssumption
<1>2. cell \in keypadmatrix' <=> IF target[t] = cell THEN isDown ELSE cell \in keypadmatrix
  BY <1>1, SetsOneCell
<1>3. CASE met[t]
  <2>1. cell \notin astray /\ CellOf(KeyId(t)) # cell /\ target[t] # cell
    BY <1>1, <1>3 DEF SetCell
  <2> QED BY <1>2, <2>1
<1>4. CASE ~met[t]
  <2>1. target[t] = CellOf(KeyId(t))
    BY <1>4 DEF Aimed
  <2>2. CellOf(KeyId(t)) # cell => cell \notin astray
    BY <1>4 DEF SetCell
  <2> QED BY <1>2, <2>1, <2>2
<1> QED BY <1>3, <1>4

\* The steps of the keyboard that add an event, which tells how its key is, the
\* client's, and the steps of a thread before it writes the matrix.
KeyEvent(code, value) ==
    /\ events' = Append(events, [code |-> code, value |-> value])
    /\ held' = CASE value = 1 -> held \cup {code} [] value = 0 -> held \ {code} [] OTHER -> held
    /\ UNCHANGED <<bytes, remote, keypadmatrix, astray, lookupVars>>
BytesOnly == /\ UNCHANGED <<events, held, remote, keypadmatrix, astray, lookupVars>>
             /\ \/ UNCHANGED bytes
                \/ \E id \in RemoteIds, isDown \in BOOLEAN :
                     bytes' = Append(bytes, [id |-> id, down |-> isDown])
Lookup(t) == /\ Takes(t) \/ SetsFlag(t) \/ init_yx_map(t) \/ LooksUp(t)
             /\ UNCHANGED <<events, held, bytes, remote, keypadmatrix, astray>>

LEMMA FbSteps ==
    ASSUME [Next]_vars
    PROVE  \/ \E code \in Codes, value \in 0 .. 2 : KeyEvent(code, value)
           \/ BytesOnly \/ evdev_thread \/ process_remote_byte
           \/ \E t \in Threads : Lookup(t)
<1>1. CASE UNCHANGED vars
  BY <1>1 DEF vars, deviceVars, clientVars, matrixVars, BytesOnly
<1>2. ASSUME NEW code \in Codes, Press(code) PROVE KeyEvent(code, 1)
  BY <1>2 DEF Press, Key, clientVars, matrixVars, KeyEvent
<1>3. ASSUME NEW code \in Codes, Repeat(code) PROVE KeyEvent(code, 2)
  BY <1>3 DEF Repeat, Key, clientVars, matrixVars, KeyEvent
<1>4. ASSUME NEW code \in Codes, Release(code) PROVE KeyEvent(code, 0)
  BY <1>4 DEF Release, Key, clientVars, matrixVars, KeyEvent
<1>5. ASSUME NEW id \in RemoteIds, NEW isDown \in BOOLEAN, Send(id, isDown) PROVE BytesOnly
  BY <1>5 DEF Send, deviceVars, matrixVars, BytesOnly
<1>6. CASE Connect \/ Disconnect
  BY <1>6 DEF Connect, Disconnect, deviceVars, matrixVars, BytesOnly
<1>7. ASSUME NEW t \in Threads, Takes(t) \/ SetsFlag(t) \/ init_yx_map(t) \/ LooksUp(t)
      PROVE  Lookup(t)
  BY <1>7 DEF Lookup, Takes, SetsFlag, init_yx_map, LooksUp, deviceVars, clientVars, matrixVars
<1>8. 0 \in 0 .. 2 /\ 1 \in 0 .. 2 /\ 2 \in 0 .. 2
  OBVIOUS
<1> QED BY <1>1, <1>2, <1>3, <1>4, <1>5, <1>6, <1>7, <1>8 DEF Next

\* The cells a thread may find.
LEMMA CellTypes ==
    /\ \A id \in 0 .. 255 : CellOf(id) \in Cells \cup {NoCell}
    /\ \A id \in 0 .. 63 : Seen(id) \subseteq Cells \cup {NoCell}
<1>1. ASSUME NEW id \in 0 .. 255 PROVE CellOf(id) \in Cells \cup {NoCell}
  BY FbKeysAssumption DEF CellOf
<1>2. ASSUME NEW id \in 0 .. 63 PROVE Seen(id) \subseteq Cells \cup {NoCell}
  <2>1. CellOf(id) \in Cells \cup {NoCell}
    BY <1>1
  <2>2. Row(CellOf(id)) \in -1 .. 7 /\ Column(CellOf(id)) \in -1 .. 7
    BY <2>1 DEF Row, Column, Cells
  <2>3. \A y, x \in -1 .. 7 : Place(y, x) \in Cells \cup {NoCell}
    BY DEF Place, Cells
  <2>4. -1 \in -1 .. 7 /\ 0 \in -1 .. 7
    OBVIOUS
  <2> QED BY <2>2, <2>3, <2>4 DEF Seen
<1> QED BY <1>1, <1>2

LEMMA KeyIdTypes ==
    ASSUME FbTypeOK, NEW t \in Threads, Has(t)
    PROVE  KeyId(t) \in 0 .. 255
<1>1. CASE t = "evdev"
  <2>1. events # <<>> /\ events \in Seq([code : Codes, value : 0 .. 2])
    BY <1>1 DEF FbTypeOK, Has
  <2>2. events[1] \in [code : Codes, value : 0 .. 2]
    BY <2>1, Taken
  <2>3. events[1].code \in Codes
    BY <2>2
  <2> QED BY <1>1, <2>3, FbKeysAssumption DEF KeyId
<1>2. CASE t = "tcp"
  <2>1. bytes # <<>> /\ bytes \in Seq([id : RemoteIds, down : BOOLEAN])
    BY <1>2 DEF FbTypeOK, Has
  <2>2. bytes[1] \in [id : RemoteIds, down : BOOLEAN]
    BY <2>1, Taken
  <2>3. bytes[1].id \in RemoteIds
    BY <2>2
  <2>4. bytes[1].id \in 0 .. 127
    BY <2>3, FbKeysAssumption
  <2>5. \A n \in 0 .. 127 : n \in 0 .. 255
    OBVIOUS
  <2>6. KeyId(t) = bytes[1].id
    BY <1>2 DEF KeyId
  <2> QED BY <2>4, <2>5, <2>6
<1> QED BY <1>1, <1>2 DEF Threads

LEMMA FbTypeStep == FbTypeOK /\ Aimed /\ [Next]_vars => FbTypeOK'
<1> SUFFICES ASSUME FbTypeOK, Aimed, [Next]_vars PROVE FbTypeOK'
  OBVIOUS
<1> DEFINE E == [code : Codes, value : 0 .. 2]
           B == [id : RemoteIds, down : BOOLEAN]
           Lookups == /\ at \in [Threads -> {"idle", "init", "look", "store"}]
                      /\ target \in [Threads -> Cells \cup {NoCell}] /\ met \in [Threads -> BOOLEAN]
<1>0. /\ events \in Seq(E) /\ bytes \in Seq(B) /\ held \subseteq Codes /\ remote \subseteq RemoteIds
      /\ Lookups
  BY DEF FbTypeOK
<1>a. ASSUME UNCHANGED lookupVars PROVE Lookups'
  BY <1>0, <1>a DEF lookupVars
<1>b. ASSUME NEW t \in Threads, Finishes(t) PROVE Lookups'
  BY <1>0, <1>b DEF Finishes
<1>1. ASSUME NEW code \in Codes, NEW value \in 0 .. 2, KeyEvent(code, value)
      PROVE  FbTypeOK'
  <2>1. [code |-> code, value |-> value] \in E
    OBVIOUS
  <2>2. events' \in Seq(E)
    BY <1>0, <1>1, <2>1, AppendProperties DEF KeyEvent
  <2>3. held' \subseteq Codes
    BY <1>0, <1>1 DEF KeyEvent
  <2>4. Lookups'
    BY <1>1, <1>a DEF KeyEvent
  <2> QED BY <1>0, <1>1, <2>2, <2>3, <2>4 DEF KeyEvent, FbTypeOK
<1>2. CASE BytesOnly
  <2>1. bytes' \in Seq(B)
    <3>1. ASSUME NEW id \in RemoteIds, NEW isDown \in BOOLEAN,
                 bytes' = Append(bytes, [id |-> id, down |-> isDown])
          PROVE  bytes' \in Seq(B)
      <4>1. [id |-> id, down |-> isDown] \in B
        OBVIOUS
      <4> QED BY <1>0, <3>1, <4>1, AppendProperties
    <3> QED BY <1>0, <1>2, <3>1 DEF BytesOnly
  <2>2. Lookups'
    BY <1>2, <1>a DEF BytesOnly
  <2> QED BY <1>0, <1>2, <2>1, <2>2 DEF BytesOnly, FbTypeOK
<1>3. CASE evdev_thread
  <2>1. Finishes("evdev") /\ "evdev" \in Threads /\ at["evdev"] # "idle"
    BY <1>3 DEF evdev_thread, Finishes, Threads
  <2>2. events # <<>>
    BY <2>1 DEF Aimed, Has
  <2>3. events' \in Seq(E)
    BY <1>0, <1>3, <2>2, Taken DEF evdev_thread
  <2>4. Lookups'
    BY <1>b, <2>1
  <2> QED BY <1>0, <1>3, <2>3, <2>4 DEF evdev_thread, clientVars, FbTypeOK
<1>4. CASE process_remote_byte
  <2>0. Finishes("tcp") /\ "tcp" \in Threads /\ at["tcp"] # "idle"
    BY <1>4 DEF process_remote_byte, Finishes, Threads
  <2>1. bytes # <<>>
    BY <2>0 DEF Aimed, Has
  <2>2. bytes' \in Seq(B) /\ bytes[1] \in B
    BY <1>0, <1>4, <2>1, Taken DEF process_remote_byte
  <2>3. remote' \subseteq RemoteIds
    BY <1>0, <1>4, <2>2 DEF process_remote_byte
  <2>4. Lookups'
    BY <1>b, <2>0
  <2> QED BY <1>0, <1>4, <2>2, <2>3, <2>4 DEF process_remote_byte, deviceVars, FbTypeOK
<1>5. ASSUME NEW t \in Threads, Lookup(t) PROVE FbTypeOK'
  <2>1. CASE Takes(t) \/ SetsFlag(t) \/ init_yx_map(t)
    <3>1. at' \in [Threads -> {"idle", "init", "look", "store"}] /\ UNCHANGED <<target, met>>
      BY <1>0, <2>1 DEF Takes, SetsFlag, init_yx_map
    <3> QED BY <1>0, <1>5, <3>1 DEF Lookup, FbTypeOK
  <2>2. CASE LooksUp(t)
    <3>1. Has(t)
      BY <2>2 DEF LooksUp, Aimed
    <3>2. KeyId(t) \in 0 .. 255 /\ (KeyId(t) <= 63 => KeyId(t) \in 0 .. 63)
      BY <3>1, KeyIdTypes
    <3>3. PICK cell \in Cells \cup {NoCell} : target' = [target EXCEPT ![t] = cell]
      BY <2>2, <3>2, CellTypes DEF LooksUp
    <3>4. Lookups'
      BY <1>0, <2>2, <3>3 DEF LooksUp
    <3> QED BY <1>0, <1>5, <3>4 DEF Lookup, FbTypeOK
  <2> QED BY <1>5, <2>1, <2>2 DEF Lookup
<1> QED BY <1>1, <1>2, <1>3, <1>4, <1>5, FbSteps

\* An event in hand stays the first of its queue until it is handled.
LEMMA FbAimedStep == FbTypeOK /\ Aimed /\ [Next]_vars => Aimed'
<1> SUFFICES ASSUME FbTypeOK, Aimed, [Next]_vars PROVE Aimed'
  OBVIOUS
<1> DEFINE E == [code : Codes, value : 0 .. 2]
           B == [id : RemoteIds, down : BOOLEAN]
<1>0. /\ events \in Seq(E) /\ bytes \in Seq(B)
      /\ at \in [Threads -> {"idle", "init", "look", "store"}]
      /\ target \in [Threads -> Cells \cup {NoCell}] /\ met \in [Threads -> BOOLEAN]
  BY DEF FbTypeOK
\* A thread that does nothing, and whose event stays where it is.
<1>a. ASSUME NEW t \in Threads, Has(t) => Has(t)' /\ KeyId(t)' = KeyId(t),
             at'[t] = at[t], target'[t] = target[t], met'[t] = met[t]
      PROVE  /\ at'[t] # "idle" => Has(t)'
             /\ at'[t] = "store" /\ ~met'[t] => target'[t] = CellOf(KeyId(t))'
  <2>1. at[t] # "idle" => Has(t)
    BY DEF Aimed
  <2>2. CASE at[t] = "idle"
    BY <1>a, <2>2
  <2>3. CASE at[t] # "idle"
    <3>1. Has(t)' /\ KeyId(t)' = KeyId(t)
      BY <1>a, <2>1, <2>3
    <3>2. CellOf(KeyId(t))' = CellOf(KeyId(t))
      BY <3>1 DEF CellOf
    <3> QED BY <1>a, <3>1, <3>2 DEF Aimed
  <2> QED BY <2>2, <2>3
<1>b. \A t \in Threads : (t = "evdev" /\ UNCHANGED events) \/ (t # "evdev" /\ UNCHANGED bytes)
         => Has(t)' = Has(t) /\ KeyId(t)' = KeyId(t)
  BY DEF Has, KeyId
\* Adding to a queue leaves its first event.
<1>c. ASSUME NEW S, NEW q \in Seq(S), NEW e \in S, q # <<>>
      PROVE  Append(q, e) # <<>> /\ Append(q, e)[1] = q[1]
  <2>1. Len(q) \in Nat /\ Len(q) > 0 /\ Len(Append(q, e)) = Len(q) + 1
        /\ \A i \in 1 .. Len(q) : Append(q, e)[i] = q[i]
    BY <1>c, Added, Taken
  <2>2. Append(q, e) # <<>>
    BY <2>1, EmptySeq
  <2> QED BY <2>1, <2>2
<1>1. ASSUME NEW code \in Codes, NEW value \in 0 .. 2, KeyEvent(code, value)
      PROVE  Aimed'
  <2>1. [code |-> code, value |-> value] \in E /\ events' = Append(events, [code |-> code, value |-> value])
    BY <1>1 DEF KeyEvent
  <2>2. events # <<>> => events' # <<>> /\ events'[1] = events[1]
    BY <1>0, <1>c, <2>1
  <2>3. ASSUME NEW t \in Threads PROVE Has(t) => Has(t)' /\ KeyId(t)' = KeyId(t)
    BY <1>1, <2>2 DEF Has, KeyId, KeyEvent
  <2>4. UNCHANGED <<at, target, met>>
    BY <1>1 DEF KeyEvent, lookupVars
  <2> QED BY <1>a, <2>3, <2>4 DEF Aimed
<1>2. CASE BytesOnly
  <2>1. ASSUME NEW id \in RemoteIds, NEW isDown \in BOOLEAN,
               bytes' = Append(bytes, [id |-> id, down |-> isDown])
        PROVE  bytes # <<>> => bytes' # <<>> /\ bytes'[1] = bytes[1]
    <3>1. [id |-> id, down |-> isDown] \in B
      OBVIOUS
    <3> QED BY <1>0, <1>c, <2>1, <3>1
  <2>2. bytes # <<>> => bytes' # <<>> /\ bytes'[1] = bytes[1]
    BY <1>2, <2>1 DEF BytesOnly
  <2>3. ASSUME NEW t \in Threads PROVE Has(t) => Has(t)' /\ KeyId(t)' = KeyId(t)
    BY <1>2, <2>2 DEF Has, KeyId, BytesOnly
  <2>4. UNCHANGED <<at, target, met>>
    BY <1>2 DEF BytesOnly, lookupVars
  <2> QED BY <1>a, <2>3, <2>4 DEF Aimed
<1>3. ASSUME NEW t \in Threads, Finishes(t),
             \A other \in Threads \ {t} : Has(other)' = Has(other) /\ KeyId(other)' = KeyId(other)
      PROVE  Aimed'
  <2>1. at'[t] = "idle"
    BY <1>0, <1>3 DEF Finishes
  <2>2. \A other \in Threads \ {t} : /\ at'[other] = at[other] /\ target'[other] = target[other]
                                      /\ met'[other] = met[other]
    BY <1>0, <1>3 DEF Finishes
  <2> QED BY <1>3, <1>a, <2>1, <2>2 DEF Aimed
<1>4. CASE evdev_thread
  <2>1. Finishes("evdev") /\ "evdev" \in Threads /\ UNCHANGED bytes
    BY <1>4 DEF evdev_thread, clientVars, Threads
  <2> QED BY <1>b, <1>3, <2>1
<1>5. CASE process_remote_byte
  <2>1. Finishes("tcp") /\ "tcp" \in Threads /\ UNCHANGED events
    BY <1>5 DEF process_remote_byte, deviceVars, Threads
  <2>2. \A other \in Threads \ {"tcp"} : other = "evdev"
    BY DEF Threads
  <2> QED BY <1>b, <1>3, <2>1, <2>2
<1>6. ASSUME NEW t \in Threads, Lookup(t) PROVE Aimed'
  <2>1. UNCHANGED <<events, bytes>>
    BY <1>6 DEF Lookup
  <2>2. \A other \in Threads : Has(other)' = Has(other) /\ KeyId(other)' = KeyId(other)
    BY <1>b, <2>1
  <2>3. CellOf(KeyId(t))' = CellOf(KeyId(t))
    BY <2>2 DEF CellOf
  <2>4. CASE Takes(t) \/ SetsFlag(t) \/ init_yx_map(t)
    <3>1. /\ UNCHANGED <<target, met>> /\ (at'[t] # "idle" => Has(t))
          /\ (at'[t] = "store" => at[t] = "store")
          /\ \A other \in Threads \ {t} : at'[other] = at[other]
      BY <1>0, <2>4 DEF Takes, SetsFlag, init_yx_map, Aimed
    <3> QED BY <1>a, <2>2, <2>3, <3>1 DEF Aimed
  <2>5. CASE LooksUp(t)
    <3>1. Has(t) /\ \A other \in Threads \ {t} : /\ at'[other] = at[other] /\ met'[other] = met[other]
                                                 /\ target'[other] = target[other]
      BY <1>0, <2>5 DEF LooksUp, Aimed
    <3>2. ~met'[t] => target'[t] = CellOf(KeyId(t))
      BY <1>0, <2>5 DEF LooksUp
    <3> QED BY <1>a, <2>2, <2>3, <3>1, <3>2 DEF Aimed
  <2> QED BY <1>6, <2>4, <2>5 DEF Lookup
<1> QED BY <1>1, <1>2, <1>4, <1>5, <1>6, FbSteps

LEMMA FbQueueStep ==
    FbTypeOK /\ Aimed /\ QueueSettles /\ [Next]_vars => QueueSettles'
<1> SUFFICES ASSUME FbTypeOK, Aimed, QueueSettles, [Next]_vars PROVE QueueSettles'
  OBVIOUS
<1> DEFINE E == [code : Codes, value : 0 .. 2]
<1>0. events \in Seq(E) /\ Len(events) \in Nat
  BY LenProperties DEF FbTypeOK
<1>1. CASE UNCHANGED <<events, held>>
  BY <1>1 DEF QueueSettles
<1>2. ASSUME NEW code \in Codes, NEW value \in 0 .. 2, KeyEvent(code, value)
      PROVE  QueueSettles'
  <2> DEFINE e == [code |-> code, value |-> value]
  <2>1. e \in E /\ events' = Append(events, e)
    BY <1>2 DEF KeyEvent
  <2>2. /\ Len(events') = Len(events) + 1 /\ events'[Len(events) + 1] = e
        /\ \A i \in 1 .. Len(events) : events'[i] = events[i]
    BY <1>0, <2>1, Added
  <2>3. /\ value = 1 => code \in held'
        /\ value = 0 => code \notin held'
        /\ \A other : other # code \/ value = 2 => (other \in held' <=> other \in held)
    BY <1>2 DEF KeyEvent
  <2>4. ASSUME NEW i \in 1 .. Len(events'),
               events'[i].value = 1 - Now(held', events'[i].code)
        PROVE  Waits(events', events'[i].code, Now(held', events'[i].code), i + 1)
    <3>1. CASE i = Len(events) + 1
      BY <2>2, <2>3, <2>4, <3>1 DEF Now
    <3>2. CASE i \in 1 .. Len(events)
      <4>1. events'[i] = events[i] /\ i + 1 \in 1 .. Len(events) + 1
        BY <1>0, <2>2, <3>2
      <4>2. CASE events[i].code = code /\ value # 2
        <5>1. value = Now(held', code)
          BY <2>3, <4>2 DEF Now
        <5> QED BY <1>0, <2>1, <4>1, <4>2, <5>1, WaitsAfterAdding
      <4>3. CASE events[i].code # code \/ value = 2
        <5>1. Now(held', events[i].code) = Now(held, events[i].code)
          BY <2>3, <4>3 DEF Now
        <5>2. Waits(events, events[i].code, Now(held, events[i].code), i + 1)
          BY <2>4, <3>2, <4>1, <5>1 DEF QueueSettles
        <5>3. Waits(events', events[i].code, Now(held, events[i].code), i + 1)
          BY <1>0, <2>1, <4>1, <5>2, WaitsAfterAdding
        <5> QED BY <4>1, <5>1, <5>3
      <4> QED BY <4>2, <4>3
    <3> QED BY <1>0, <2>2, <3>1, <3>2
  <2> QED BY <2>4 DEF QueueSettles
<1>3. CASE evdev_thread
  <2>1. events # <<>> /\ events' = Tail(events) /\ held' = held
    <3>1. at["evdev"] # "idle" /\ "evdev" \in Threads
      BY <1>3 DEF evdev_thread, Finishes, Threads
    <3> QED BY <1>3, <3>1 DEF evdev_thread, Aimed, Has
  <2>2. /\ Len(events') = Len(events) - 1
        /\ \A i \in 1 .. Len(events) - 1 : events'[i] = events[i + 1]
    BY <1>0, <2>1, Taken
  <2>3. ASSUME NEW i \in 1 .. Len(events'),
               events'[i].value = 1 - Now(held', events'[i].code)
        PROVE  Waits(events', events'[i].code, Now(held', events'[i].code), i + 1)
    <3>1. events'[i] = events[i + 1] /\ i + 1 \in 1 .. Len(events)
      BY <1>0, <2>2
    <3>2. Waits(events, events[i + 1].code, Now(held, events[i + 1].code), (i + 1) + 1)
      BY <2>1, <2>3, <3>1 DEF QueueSettles
    <3>3. (i + 1) + 1 \in 2 .. Len(events) + 1 /\ ((i + 1) + 1) - 1 = i + 1
      BY <1>0, <3>1
    <3>4. Waits(events', events[i + 1].code, Now(held, events[i + 1].code), ((i + 1) + 1) - 1)
      BY <1>0, <2>1, <3>2, <3>3, WaitsAfterTaking
    <3> QED BY <2>1, <3>1, <3>3, <3>4
  <2> QED BY <2>3 DEF QueueSettles
<1>4. CASE process_remote_byte
  BY <1>1, <1>4 DEF process_remote_byte, deviceVars
<1> QED BY <1>1, <1>2, <1>3, <1>4, FbSteps DEF BytesOnly, Lookup

\* What CellsHeld says of one cell.
Held(cell) ==
    /\ cell \in keypadmatrix =>
         \/ \E code \in LocalKeys(cell) : code \in held \/ Waits(events, code, 0, 1)
         \/ RemoteKeys(cell) \cap remote # {}
    /\ \A code \in held : LocalKeys(cell) = {code} /\ RemoteKeys(cell) = {} =>
                            cell \in keypadmatrix \/ Waits(events, code, 1, 1)
    /\ \A id \in remote : RemoteKeys(cell) = {id} /\ LocalKeys(cell) = {} => cell \in keypadmatrix

LEMMA HeldByCell == /\ CellsHeld <=> \A cell \in Cells \ astray : Held(cell)
                    /\ CellsHeld' <=> \A cell \in Cells \ astray' : Held(cell)'
BY DEF CellsHeld, Held

LEMMA FbCellsStep ==
    ASSUME FbInv, [Next]_vars PROVE CellsHeld'
<1> SUFFICES ASSUME NEW cell \in Cells \ astray' PROVE Held(cell)'
  BY HeldByCell
<1> DEFINE E == [code : Codes, value : 0 .. 2]
           B == [id : RemoteIds, down : BOOLEAN]
<1>0. /\ events \in Seq(E) /\ bytes \in Seq(B) /\ held \subseteq Codes /\ remote \subseteq RemoteIds
      /\ QueueSettles /\ Aimed /\ (cell \notin astray => Held(cell))
  BY HeldByCell DEF FbInv, FbTypeOK
<1>1. /\ LocalKeys(cell)' = LocalKeys(cell) /\ RemoteKeys(cell)' = RemoteKeys(cell)
      /\ LocalKeys(cell) \subseteq Codes
  BY DEF LocalKeys, RemoteKeys, CellOf
<1>2. ASSUME NEW code \in Codes, NEW value \in 0 .. 2, KeyEvent(code, value)
      PROVE  Held(cell)'
  <2> DEFINE e == [code |-> code, value |-> value]
  <2>1. e \in E /\ events' = Append(events, e) /\ UNCHANGED <<remote, keypadmatrix, astray>>
    BY <1>2 DEF KeyEvent
  <2>2. 1 \in 1 .. Len(events) + 1
    BY <1>0, LenProperties
  <2>3. \A other, v : Waits(events, other, v, 1) => Waits(events', other, v, 1)
    BY <1>0, <2>1, <2>2, WaitsAfterAdding
  <2>4. Waits(events', code, value, 1)
    BY <1>0, <2>1, <2>2, WaitsAfterAdding
  <2>5. /\ \A other \in held : other \in held' \/ (other = code /\ value = 0)
        /\ \A other \in held' : other \in held \/ (other = code /\ value = 1)
    BY <1>2 DEF KeyEvent
  <2> QED BY <1>0, <1>1, <2>1, <2>3, <2>4, <2>5 DEF Held
<1>3. CASE UNCHANGED <<events, held, remote, keypadmatrix, astray>>
  BY <1>0, <1>1, <1>3 DEF Held
<1>4. CASE evdev_thread
  <2> DEFINE e == events[1]
             id == evdev_to_wqx[e.code]
  <2>0. /\ "evdev" \in Threads /\ at["evdev"] = "store"
        /\ events # <<>> /\ KeyId("evdev") = id
    BY <1>0, <1>4 DEF evdev_thread, Finishes, Threads, Aimed, Has, KeyId
  <2>1. /\ events' = Tail(events) /\ UNCHANGED <<held, bytes, remote>>
        /\ e.value > 1 => UNCHANGED <<keypadmatrix, astray>>
        /\ ~(e.value > 1) => SetCell("evdev", e.value = 1)
    BY <1>4 DEF evdev_thread, clientVars, matrixVars
  <2>2. e \in E /\ Head(events) = e /\ Len(events) \in Nat /\ Len(events) > 0
    BY <1>0, <2>0, Taken
  <2>3. e.code \in LocalKeys(cell) <=> CellOf(id) = cell
    <3>1. e.code \in Codes
      BY <2>2
    <3> QED BY <3>1 DEF LocalKeys
  <2>4. ASSUME NEW code, NEW value, Waits(events, code, value, 1),
               e # [code |-> code, value |-> value]
        PROVE  Waits(events', code, value, 1)
    BY <1>0, <2>0, <2>1, <2>2, <2>4, WaitsAfterTaking
  <2>5. e.value = 1 - Now(held, e.code) => Waits(events', e.code, Now(held, e.code), 1)
    <3>1. 1 \in 1 .. Len(events) /\ 1 + 1 = 2 /\ 2 \in 2 .. Len(events) + 1 /\ 2 - 1 = 1
      BY <2>2
    <3>2. ASSUME e.value = 1 - Now(held, e.code)
          PROVE  Waits(events, e.code, Now(held, e.code), 2)
      BY <1>0, <3>1, <3>2 DEF QueueSettles
    <3>3. Waits(events, e.code, Now(held, e.code), 2)
            => Waits(events', e.code, Now(held, e.code), 1)
      BY <1>0, <2>0, <2>1, <3>1, WaitsAfterTaking
    <3> QED BY <3>2, <3>3
  <2>6. ~(e.value > 1) =>
          /\ CellOf(id) = cell => (cell \in keypadmatrix' <=> e.value = 1)
          /\ CellOf(id) # cell =>
               cell \notin astray /\ (cell \in keypadmatrix' <=> cell \in keypadmatrix)
    <3> SUFFICES ASSUME ~(e.value > 1)
                 PROVE  /\ CellOf(id) = cell => (cell \in keypadmatrix' <=> e.value = 1)
                        /\ CellOf(id) # cell =>
                             cell \notin astray /\ (cell \in keypadmatrix' <=> cell \in keypadmatrix)
      OBVIOUS
    <3> DEFINE isDown == e.value = 1
    <3>1. isDown \in BOOLEAN /\ SetCell("evdev", isDown)
      BY <2>1
    <3> HIDE DEF isDown
    <3>2. /\ CellOf(KeyId("evdev")) = cell => (cell \in keypadmatrix' <=> isDown)
          /\ CellOf(KeyId("evdev")) # cell =>
               cell \notin astray /\ (cell \in keypadmatrix' <=> cell \in keypadmatrix)
      BY <1>0, <2>0, <3>1, SetsItsCell
    <3> QED BY <2>0, <3>2 DEF isDown
  <2>7. e.value \in 0 .. 2
    BY <2>2
  <2> HIDE DEF e, id
  <2>8. CASE e.value > 1
    <3>1. \A code : e # [code |-> code, value |-> 0] /\ e # [code |-> code, value |-> 1]
      BY <2>8
    <3> QED BY <1>0, <1>1, <2>1, <2>4, <2>8, <3>1 DEF Held
  <2>9. CASE ~(e.value > 1) /\ CellOf(id) # cell
    <3>1. cell \notin astray /\ (cell \in keypadmatrix' <=> cell \in keypadmatrix)
      BY <2>6, <2>9
    <3>2. \A code \in LocalKeys(cell) : \A value : e # [code |-> code, value |-> value]
      BY <2>3, <2>9
    <3>3. \A code \in LocalKeys(cell) :
            /\ Waits(events, code, 0, 1) => Waits(events', code, 0, 1)
            /\ Waits(events, code, 1, 1) => Waits(events', code, 1, 1)
      BY <2>4, <3>2
    <3> QED BY <1>0, <1>1, <2>1, <3>1, <3>3 DEF Held
  <2>10. CASE e.value = 1 /\ CellOf(id) = cell
    <3>1. cell \in keypadmatrix' /\ e.code \in LocalKeys(cell)
      BY <2>3, <2>6, <2>10
    <3>2. e.code \in held \/ Waits(events', e.code, 0, 1)
      BY <2>5, <2>10 DEF Now
    <3> QED BY <1>1, <2>1, <3>1, <3>2 DEF Held
  <2>11. CASE e.value = 0 /\ CellOf(id) = cell
    <3>1. cell \notin keypadmatrix' /\ e.code \in LocalKeys(cell)
      BY <2>3, <2>6, <2>11
    <3>2. e.code \in held => Waits(events', e.code, 1, 1)
      BY <2>5, <2>11 DEF Now
    <3> QED BY <1>1, <2>1, <3>1, <3>2 DEF Held
  <2> QED BY <2>7, <2>8, <2>9, <2>10, <2>11
<1>5. CASE process_remote_byte
  <2> DEFINE b == bytes[1]
  <2>0. /\ "tcp" \in Threads /\ at["tcp"] = "store" /\ bytes # <<>> /\ KeyId("tcp") = b.id
    BY <1>0, <1>5 DEF process_remote_byte, Finishes, Threads, Aimed, Has, KeyId
  <2>1. /\ SetCell("tcp", b.down) /\ UNCHANGED <<events, held>>
        /\ remote' = IF b.down THEN remote \cup {b.id} ELSE remote \ {b.id}
    BY <1>5 DEF process_remote_byte, deviceVars
  <2>2. b \in B
    BY <1>0, <2>0, Taken
  <2>3. b.id \in RemoteIds /\ b.down \in BOOLEAN
    BY <2>2
  <2>4. b.id \in RemoteKeys(cell) <=> CellOf(b.id) = cell
    BY <2>3 DEF RemoteKeys
  <2>5. /\ CellOf(b.id) = cell => (cell \in keypadmatrix' <=> b.down)
        /\ CellOf(b.id) # cell =>
             cell \notin astray /\ (cell \in keypadmatrix' <=> cell \in keypadmatrix)
    BY <1>0, <2>0, <2>1, <2>3, SetsItsCell
  <2> HIDE DEF b
  <2>6. CASE CellOf(b.id) = cell
    BY <1>1, <2>1, <2>3, <2>4, <2>5, <2>6 DEF Held
  <2>7. CASE CellOf(b.id) # cell
    BY <1>0, <1>1, <2>1, <2>3, <2>4, <2>5, <2>7 DEF Held
  <2> QED BY <2>6, <2>7
<1> QED BY <1>2, <1>3, <1>4, <1>5, FbSteps DEF BytesOnly, Lookup

\* The matrix of the device follows the keys: the two threads set and clear
\* cells in any order, but each reads its own queue in the order it was filled,
\* and the last event of a key tells how the key is.  Only what a thread looks up
\* while the other builds the table may be lost or go to another cell, until the
\* next event of the cell's keys.
THEOREM FbMatrixAlwaysFollowsKeys ==
    Spec => []FbMatrixFollowsKeys
<1>1. Init => FbInv
  <2> SUFFICES ASSUME Init PROVE FbInv
    OBVIOUS
  <2>1. FbTypeOK /\ Aimed
    BY EmptySeq DEF Init, FbTypeOK, Aimed
  <2>2. QueueSettles
    <3>1. Len(events) = 0
      BY EmptySeq DEF Init
    <3> QED BY <3>1 DEF QueueSettles
  <2> QED BY <2>1, <2>2 DEF Init, CellsHeld, FbInv
<1>2. FbInv /\ [Next]_vars => FbInv'
  BY FbTypeStep, FbAimedStep, FbQueueStep, FbCellsStep DEF FbInv
<1>3. FbInv => FbMatrixFollowsKeys
  <2> SUFFICES ASSUME FbInv, events = <<>> PROVE FbMatrixFollowsKeys
    BY DEF FbMatrixFollowsKeys
  <2>1. Len(events) = 0
    BY EmptySeq
  <2>2. \A code, value : ~Waits(events, code, value, 1)
    BY <2>1 DEF Waits
  <2> QED BY <2>2 DEF FbInv, CellsHeld, FbMatrixFollowsKeys
<1> QED BY <1>1, <1>2, <1>3, PTL DEF Spec
=============================================================================
