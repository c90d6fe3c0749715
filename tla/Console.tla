------------------------------- MODULE Console -------------------------------
(***************************************************************************)
(* The command line that the user opens over the emulated screen:          *)
(* handle_console() and input_text() of src/src/console.cpp.  Keys edit    *)
(* the line and walk through the history; the text itself comes in events  *)
(* of its own, which the input method may send without a key.              *)
(***************************************************************************)
EXTENDS Integers, Sequences

CONSTANTS Texts,         \* pieces of text an event may bring
          HistoryLimit,  \* lines remembered, 100 in the code
          Leap           \* characters that Shift and an arrow moves, 10 in the code

ASSUME ConsoleAssumption == /\ Texts \subseteq Seq(Nat)
                            /\ HistoryLimit \in Nat \ {0}
                            /\ Leap \in Nat \ {0}

VARIABLES console_on, console_input, cursor,
          history, history_index, save_of_current,
          typed    \* history variable: the line when the history was last left

consoleVars == <<console_on, console_input, cursor, history, history_index, save_of_current, typed>>

ConsoleInit == /\ console_on = FALSE /\ console_input = <<>> /\ cursor = 0
               /\ history = <<>> /\ history_index = 0 /\ save_of_current = <<>>
               /\ typed = <<>>
-----------------------------------------------------------------------------
EditKeys == {"backspace", "left", "right", "up", "down", "escape", "return"}

Typed == typed' = IF history_index' = 0 THEN console_input' ELSE typed

\* Mutant: the end of the line is not looked at.
ClampedBelow(position, line) == IF position < 0 THEN 0 ELSE position

\* The position that the end of handle_console() makes of a cursor.
Clamped(position, line) ==
    IF position < 0 THEN 0 ELSE IF position > Len(line) THEN Len(line) ELSE position

\* A cursor at the end of the line stays there when another line is shown.
Followed(line) == IF cursor = Len(console_input) THEN Len(line) ELSE Clamped(cursor, line)

Without(line, i) == SubSeq(line, 1, i - 1) \o SubSeq(line, i + 1, Len(line))

Backspace == /\ console_input' = IF cursor > 0 THEN Without(console_input, cursor) ELSE console_input
             /\ cursor' = IF cursor > 0 THEN cursor - 1 ELSE cursor
             /\ history_index' = 0
             /\ UNCHANGED <<console_on, history, save_of_current>>

Move(by) == /\ cursor' = Clamped(cursor + by, console_input)
            /\ UNCHANGED <<console_on, console_input, history, history_index, save_of_current>>

Entry(index) == history[Len(history) + 1 - index]

\* Mutant: every step up saves the line, also one that is out of the history.
UpSavesAlways ==
    /\ save_of_current' = console_input
    /\ IF history_index < Len(history)
         THEN /\ history_index' = history_index + 1
              /\ console_input' = Entry(history_index + 1)
              /\ cursor' = Followed(Entry(history_index + 1))
         ELSE UNCHANGED <<history_index, console_input, cursor>>
    /\ UNCHANGED <<console_on, history>>

Up == /\ save_of_current' = IF history_index = 0 THEN console_input ELSE save_of_current
      /\ IF history_index < Len(history)
           THEN /\ history_index' = history_index + 1
                /\ console_input' = Entry(history_index + 1)
                /\ cursor' = Followed(Entry(history_index + 1))
           ELSE UNCHANGED <<history_index, console_input, cursor>>
      /\ UNCHANGED <<console_on, history>>

\* Below the newest line of the history is the line the user was typing.
Down == /\ history_index > 0
        /\ LET line == IF history_index = 1 THEN save_of_current ELSE Entry(history_index - 1)
           IN  console_input' = line /\ cursor' = Followed(line)
        /\ history_index' = history_index - 1
        /\ UNCHANGED <<console_on, history, save_of_current>>
AtBottom == history_index = 0 /\ UNCHANGED <<console_on, console_input, cursor, history,
                                             history_index, save_of_current>>

Leave == console_on' = FALSE /\ console_input' = <<>> /\ cursor' = 0 /\ history_index' = 0

Escape == Leave /\ UNCHANGED <<history, save_of_current>>

Newest(lines) == IF Len(lines) > HistoryLimit THEN Tail(lines) ELSE lines

\* A line that is not empty is pushed as a command.
Return == /\ Leave
          /\ history' = IF console_input = <<>> THEN history ELSE Newest(Append(history, console_input))
          /\ UNCHANGED save_of_current

\* A press of a key that edits the line.
Edit(key, shift) ==
    /\ \/ key = "backspace" /\ Backspace
       \/ key = "left" /\ Move(IF shift THEN -Leap ELSE -1)
       \/ key = "right" /\ Move(IF shift THEN Leap ELSE 1)
       \/ key = "up" /\ Up
       \/ key = "down" /\ (Down \/ AtBottom)
       \/ key = "escape" /\ Escape
       \/ key = "return" /\ Return
    /\ Typed

\* Without Shift the backquote opens and closes the console.  Opening leaves
\* the history; closing does not, nor does it clear the line.
Toggle == /\ console_on' = ~console_on
          /\ history_index' = IF console_on THEN history_index ELSE 0
          /\ UNCHANGED <<console_input, cursor, history, save_of_current>>
          /\ Typed

\* Other keys leave the history.
OtherKey == /\ history_index' = 0
            /\ UNCHANGED <<console_on, console_input, cursor, history, save_of_current>>
            /\ Typed

\* handle_console(): only presses count.
handle_console(key, shift) ==
    \/ key = "backquote" /\ ~shift /\ Toggle
    \/ console_on /\ key \in EditKeys /\ Edit(key, shift)
    \/ console_on /\ (key = "other" \/ (key = "backquote" /\ shift)) /\ OtherKey
    \/ ~console_on /\ (key # "backquote" \/ shift) /\ UNCHANGED consoleVars

\* input_text(): the text goes to the cursor.  (One that begins with a backquote
\* is dropped; Texts has none.)
input_text(text) ==
    /\ console_on
    /\ console_input' = SubSeq(console_input, 1, cursor) \o text
                          \o SubSeq(console_input, cursor + 1, Len(console_input))
    /\ cursor' = cursor + Len(text)
    /\ UNCHANGED <<console_on, history, history_index, save_of_current>>
    /\ Typed

ConsoleNext == \/ \E key \in EditKeys \cup {"backquote", "other"}, shift \in BOOLEAN :
                    handle_console(key, shift)
               \/ \E text \in Texts : input_text(text)

ConsoleSpec == ConsoleInit /\ [][ConsoleNext]_consoleVars
-----------------------------------------------------------------------------
(* Properties *)

\* The cursor is always inside the line, which insert() and erase() need not
\* to throw, and the index inside the history, which is subscripted unchecked:
\* through lines of other lengths, history that drops its oldest line, and a
\* console closed and opened in the middle of it.
ConsoleInRange == /\ cursor \in 0 .. Len(console_input)
                  /\ Len(history) <= HistoryLimit
                  /\ history_index \in 0 .. Len(history)

\* Walking up the history and down again ends at the line the user was typing,
\* whatever was done to the lines in between.
SavedLineKept == history_index > 0 => save_of_current = typed
=============================================================================
