----------------------------- MODULE KeypadScan -----------------------------
(***************************************************************************)
(* The guest scanning its keyboard through the ports of Keypad.tla, in the *)
(* three ways that UpdateKeypadRegisters() provides for: row by row with   *)
(* the columns as inputs, column by column with the rows as inputs, and    *)
(* the poll for keys of the first two columns, which are pulled up, with   *)
(* all rows low.  The registers are written one by one, in any order and   *)
(* over whatever the scan before has left; keys come and go in between.    *)
(***************************************************************************)
EXTENDS Keypad

VARIABLES scan,      \* the scan in progress or just ended
          task,      \* "idle", "setup", "select", "read"
          setup,     \* registers still to be written
          lines,     \* lines still to be read
          line,      \* the line selected
          seen,      \* cells found; columns by the poll
          throughout, sometime  \* history: cells down at every step of the
                                \* scan, and at some step

scanVars == <<scan, task, setup, lines, line, seen>>
history == <<throughout, sometime>>
portVars == <<keypadVars, scanVars, history>>

NoLine == 8

ScanInit == /\ KeypadInit
            /\ scan = "rows" /\ task = "idle" /\ setup = {} /\ lines = {} /\ line = NoLine
            /\ seen = {} /\ throughout = {} /\ sometime = {}
-----------------------------------------------------------------------------
HotColumns == Columns \cap {0, 1}

Watch == /\ throughout' = throughout \cap pressed'
         /\ sometime' = sometime \cup pressed'

Begin == /\ task = "idle" /\ task' = "setup"
         /\ scan' \in {"rows", "columns", "poll"}
         /\ setup' = {"dir1", "dir0", "pull", "out1"}
         /\ lines' = CASE scan' = "rows" -> Rows [] scan' = "columns" -> Columns [] OTHER -> {NoLine}
         /\ line' = NoLine /\ seen' = {}
         /\ throughout' = pressed /\ sometime' = pressed
         /\ UNCHANGED keypadVars

Setup(register) ==
    /\ task = "setup" /\ register \in setup /\ setup' = setup \ {register}
    /\ task' = IF setup' = {} THEN "select" ELSE "setup"
    /\ CASE register = "dir1" -> Write15Dir1(IF scan = "columns" THEN {} ELSE Rows)
         [] register = "dir0" -> Write0F(CASE scan = "rows" -> {}
                                           [] scan = "columns" -> Columns
                                           [] OTHER -> Columns \ HotColumns)
         [] register = "pull" -> WritePullUp(IF scan = "rows" THEN {} ELSE PullUps)
         [] register = "out1" -> Write09Port1({})
    /\ Watch /\ UNCHANGED <<scan, lines, line, seen>>

Select(l) == /\ task = "select" /\ l \in lines
             /\ lines' = lines \ {l} /\ line' = l /\ task' = "read"
             /\ CASE scan = "rows" -> Write09Port1({l})
                  [] scan = "columns" -> Write08Port0({l})
                  [] OTHER -> UNCHANGED keypadVars
             /\ Watch /\ UNCHANGED <<scan, setup, seen>>

Found == CASE scan = "rows" -> {line} \X port0_ID'
           [] scan = "columns" -> port1_ID' \X {line}
           [] OTHER -> HotColumns \ port0_ID'

Read == /\ task = "read" /\ task' = IF lines = {} THEN "idle" ELSE "select"
        /\ ReadPort
        /\ seen' = seen \cup Found
        /\ Watch /\ UNCHANGED <<scan, setup, lines, line>>

KeyChange == /\ \E cell \in Rows \X Columns : PressCell(cell) \/ ReleaseCell(cell)
             /\ Watch /\ UNCHANGED scanVars

\* Other writes of the guest between two scans.
OtherUse == /\ task = "idle" /\ lines = {} /\ setup = {}
            /\ \/ \E type \in {0, 1, 5} : Write04GeneralCtrl(type)
               \/ \E value \in SUBSET Columns : Write08Port0(value)
            /\ seen' = {} /\ throughout' = {} /\ sometime' = pressed
            /\ UNCHANGED <<scan, task, setup, lines, line>>

ScanNext == \/ Begin \/ Read \/ KeyChange \/ OtherUse
            \/ \E register \in {"dir1", "dir0", "pull", "out1"} : Setup(register)
            \/ \E l \in Rows \cup Columns \cup {NoLine} : Select(l)

ScanSpec == ScanInit /\ [][ScanNext]_portVars
-----------------------------------------------------------------------------
(* Properties *)

\* A scan finds every key that is down all the time and none that never is,
\* whatever the ports were used for before: there are no ghosts of keys that
\* form a rectangle, and no key hides another.
ScanIsHonest ==
    task = "idle" =>
      IF scan = "poll" THEN /\ {cell[2] : cell \in throughout} \cap HotColumns \subseteq seen
                            /\ seen \subseteq {cell[2] : cell \in sometime}
      ELSE throughout \subseteq seen /\ seen \subseteq sometime
-----------------------------------------------------------------------------
(* What makes ScanIsHonest inductive *)

ScanTypeOK == /\ scan \in {"rows", "columns", "poll"} /\ task \in {"idle", "setup", "select", "read"}
              /\ pressed \subseteq Rows \X Columns
              /\ lines \subseteq CASE scan = "rows" -> Rows [] scan = "columns" -> Columns
                                   [] OTHER -> {NoLine}
              /\ task = "idle" => lines = {}
              /\ task # "setup" => setup = {}

\* A register that has been written holds what this scan needs.
RegistersSet ==
    task # "idle" =>
      /\ "dir1" \notin setup => port1_DIR107 = IF scan = "columns" THEN {} ELSE Rows
      /\ "dir0" \notin setup => port0_DIR = CASE scan = "rows" -> {}
                                              [] scan = "columns" -> Columns
                                              [] OTHER -> Columns \ HotColumns
      /\ "pull" \notin setup => pulled = IF scan = "rows" THEN {} ELSE PullUps
      /\ "out1" \notin setup /\ scan = "poll" => port1_OL = {}
      /\ task = "read" /\ scan = "rows" => port1_OL = {line} /\ line \in Rows
      /\ task = "read" /\ scan = "columns" => port0_OL = {line} /\ line \in Columns

\* The line on which a scan looks for a cell, and whether it still will.
LineOf(cell) == CASE scan = "rows" -> cell[1] [] scan = "columns" -> cell[2] [] OTHER -> NoLine
ToCome(cell) == LineOf(cell) \in lines \/ (task = "read" /\ LineOf(cell) = line)

SeenSoFar ==
    /\ throughout \subseteq pressed /\ pressed \subseteq sometime
    /\ IF scan = "poll"
       THEN /\ seen \subseteq {cell[2] : cell \in sometime}
            /\ \A cell \in throughout : cell[2] \in HotColumns => ToCome(cell) \/ cell[2] \in seen
       ELSE /\ seen \subseteq sometime
            /\ \A cell \in throughout : ToCome(cell) \/ cell \in seen

ScanInv == ScanTypeOK /\ RegistersSet /\ SeenSoFar
=============================================================================
