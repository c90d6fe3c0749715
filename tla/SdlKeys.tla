------------------------------- MODULE SdlKeys -------------------------------
(***************************************************************************)
(* The keyboard of the SDL program: main_loop() of src/src/main.cpp, which *)
(* takes the events of a time slice from SDL's queue, the console, which   *)
(* takes keys away while it is open, and handle_key_wayback() of           *)
(* key_new.cpp, which sets the matrix the guest scans and wakes a machine  *)
(* whose clock is off.                                                     *)
(*                                                                         *)
(* main_loop() keeps the last event of every key of the slice in the map   *)
(* "mp" and, for every event it takes, handles the whole map again, in the *)
(* order of the key codes.                                                 *)
(***************************************************************************)
EXTENDS Console

CONSTANTS Keyboards,  \* sets of keys (SDL_Keycode), of which the user uses one
          Items,      \* the cell <<y, x>> of a key, [BOOLEAN -> [Keys -> cell]],
                      \* without and with pro_key; NoCell if it has none
          NoCell,
          MaxEvents,  \* bound: events in SDL's queue
          MaxLine     \* bound: characters in the console when the user types more

TextEvent == 0        \* the code given here to events that bring text
Keys == UNION Keyboards

ASSUME SdlKeysAssumption == /\ Keys \subseteq Nat \ {TextEvent}
                            /\ Items \in [BOOLEAN -> [Keys -> ((0 .. 7) \X (0 .. 7)) \cup {NoCell}]]
                            /\ MaxEvents \in Nat /\ MaxLine \in Nat

VARIABLES events,         \* SDL's queue
          held,           \* keys the user holds
          inUse,          \* the keys the user uses
          mp, walk,       \* the map, and its keys still to be handled
          polling,        \* FALSE while RunTimeSlice() runs the guest
          shift_down, ctrl_down,
          keypadmatrix,   \* pressed cells
          pro_key, fast_forward,
          clk_off, do_warm_reset,
          last, down,     \* history: the last event taken, keys down as of it
          astray          \* history: keys the guest has not been told of

inputVars == <<events, held, inUse>>
loopVars == <<mp, walk, polling, last, down>>
modifiers == <<shift_down, ctrl_down>>
keyVars == <<keypadmatrix, pro_key, fast_forward, clk_off, do_warm_reset, astray>>
vars == <<inputVars, loopVars, modifiers, keyVars, consoleVars>>

Event(key, isDown) == [key |-> key, down |-> isDown]
NoEvent == Event(TextEvent, FALSE)
NoKeys == [key \in {} |-> FALSE]

Init == /\ ConsoleInit
        /\ events = <<>> /\ held = {} /\ inUse \in Keyboards
        /\ mp = NoKeys /\ walk = {} /\ polling = TRUE
        /\ shift_down = FALSE /\ ctrl_down = FALSE
        /\ keypadmatrix = {} /\ pro_key = FALSE /\ fast_forward = FALSE
        /\ clk_off = FALSE /\ do_warm_reset = FALSE
        /\ last = NoEvent /\ down = {} /\ astray = {}
-----------------------------------------------------------------------------
(* Key codes *)

TAB == 9
RETURN == 13
ESCAPE == 27
BACKQUOTE == 96
F12 == 1073741893
BACKSPACE == 8
UP == 1073741906
DOWN == 1073741905
LCTRL == 1073742048
LSHIFT == 1073742049
RCTRL == 1073742052
RSHIFT == 1073742053

Shifts == {LSHIFT, RSHIFT}
Ctrls == {LCTRL, RCTRL}

ConsoleKey(key) == CASE key = BACKQUOTE -> "backquote"
                     [] key = RETURN -> "return"
                     [] key = ESCAPE -> "escape"
                     [] key = BACKSPACE -> "backspace"
                     [] key = UP -> "up"
                     [] key = DOWN -> "down"
                     [] OTHER -> "other"
-----------------------------------------------------------------------------
(* The user acts while the guest runs: an event that comes while main_loop()  *)
(* empties the queue is as one that came a little earlier.                    *)

Room == ~polling /\ Len(events) < MaxEvents

\* SDL repeats the press of a key that is held.
Press(key) == /\ Room
              /\ held' = held \cup {key}
              /\ events' = Append(events, Event(key, TRUE))
              /\ UNCHANGED <<inUse, loopVars, modifiers, keyVars, consoleVars>>

Release(key) == /\ Room /\ key \in held
                /\ held' = held \ {key}
                /\ events' = Append(events, Event(key, FALSE))
                /\ UNCHANGED <<inUse, loopVars, modifiers, keyVars, consoleVars>>

\* Text events come while the console is open, SDL_StartTextInput().
Type == /\ Room /\ console_on /\ Len(console_input) < MaxLine
        /\ events' = Append(events, Event(TextEvent, TRUE))
        /\ UNCHANGED <<held, inUse, loopVars, modifiers, keyVars, consoleVars>>
-----------------------------------------------------------------------------
(* main_loop() *)

Taking == polling /\ walk = {} /\ events # <<>>

\* Mutant: the map keeps the first event of a key.
TakeKeyFirst ==
    /\ Taking /\ Head(events).key # TextEvent
    /\ last' = Head(events) /\ events' = Tail(events)
    /\ down' = IF last'.down THEN down \cup {last'.key} ELSE down \ {last'.key}
    /\ mp' = [key \in DOMAIN mp \cup {last'.key} |->
                IF key \in DOMAIN mp THEN mp[key] ELSE last'.down]
    /\ walk' = DOMAIN mp'
    /\ UNCHANGED <<held, inUse, polling, modifiers, keyVars, consoleVars>>

TakeKey ==
    /\ Taking /\ Head(events).key # TextEvent
    /\ last' = Head(events) /\ events' = Tail(events)
    /\ down' = IF last'.down THEN down \cup {last'.key} ELSE down \ {last'.key}
    /\ mp' = [key \in DOMAIN mp \cup {last'.key} |-> IF key = last'.key THEN last'.down ELSE mp[key]]
    /\ walk' = DOMAIN mp'
    /\ UNCHANGED <<held, inUse, polling, modifiers, keyVars, consoleVars>>

TakeText ==
    /\ Taking /\ Head(events).key = TextEvent
    /\ last' = Head(events) /\ events' = Tail(events)
    /\ \/ ~console_on /\ UNCHANGED consoleVars
       \/ \E text \in Texts : input_text(text)
    /\ UNCHANGED <<held, inUse, mp, walk, polling, down, modifiers, keyVars>>

\* The next key of the map.
Turn(key) == /\ key \in walk /\ \A other \in walk : key <= other
             /\ walk' = walk \ {key}
             /\ UNCHANGED <<inputVars, mp, polling, last, down>>

\* Mutant: a modifier is only ever set.
HandleModifierSticky(key) ==
    /\ Turn(key) /\ key \in Shifts \cup Ctrls
    /\ shift_down' = (shift_down \/ (key \in Shifts /\ mp[key]))
    /\ ctrl_down' = (ctrl_down \/ (key \in Ctrls /\ mp[key]))
    /\ UNCHANGED <<keyVars, consoleVars>>

HandleModifier(key) == /\ Turn(key) /\ key \in Shifts \cup Ctrls
                       /\ shift_down' = IF key \in Shifts THEN mp[key] ELSE shift_down
                       /\ ctrl_down' = IF key \in Ctrls THEN mp[key] ELSE ctrl_down
                       /\ UNCHANGED <<keyVars, consoleVars>>

HandleConsole(key) == IF mp[key] THEN handle_console(ConsoleKey(key), shift_down)
                                 ELSE UNCHANGED consoleVars

\* The console, if it is open, takes presses and releases.
ConsoleTakes(key) == /\ Turn(key) /\ key \notin Shifts \cup Ctrls
                     /\ console_on /\ HandleConsole(key)
                     /\ astray' = astray \cup {key}
                     /\ UNCHANGED <<modifiers, keypadmatrix, pro_key, fast_forward,
                                    clk_off, do_warm_reset>>
-----------------------------------------------------------------------------
(* handle_key_wayback() *)

GuestTurn(key) == /\ Turn(key) /\ key \notin Shifts \cup Ctrls
                  /\ ~console_on /\ HandleConsole(key)
                  /\ UNCHANGED modifiers

Chord(key) == key = F12 /\ shift_down /\ ctrl_down

\* Shift, Ctrl and F12 press the reset button; the release of F12 is ignored.
ResetButton(key) == /\ Chord(key) /\ GuestTurn(key)
                    /\ clk_off' = IF mp[key] THEN FALSE ELSE clk_off
                    /\ astray' = astray \cup {key}
                    /\ UNCHANGED <<keypadmatrix, pro_key, fast_forward, do_warm_reset>>

\* The keys of the first two columns wake a machine whose clock is off.
SetKeyWayback(cell, isDown) ==
    /\ do_warm_reset' = (do_warm_reset \/ (isDown /\ cell[2] < 2 /\ clk_off))
    /\ keypadmatrix' = IF isDown THEN keypadmatrix \cup {cell} ELSE keypadmatrix \ {cell}

\* Shift and the backquote change the layout, under the keys that are down; Tab
\* is the fast-forward switch.
GuestKey(key) ==
    LET cell == Items[pro_key][key]
    IN  /\ ~Chord(key) /\ GuestTurn(key)
        /\ IF cell = NoCell THEN UNCHANGED <<keypadmatrix, do_warm_reset>>
                            ELSE SetKeyWayback(cell, mp[key])
        /\ pro_key' = (pro_key # (key = BACKQUOTE /\ mp[key] /\ shift_down))
        /\ fast_forward' = (fast_forward # (key = TAB /\ mp[key]))
        /\ astray' = IF pro_key' = pro_key THEN astray \ {key} ELSE inUse
        /\ UNCHANGED clk_off

Handle(key) == HandleModifier(key) \/ ConsoleTakes(key) \/ ResetButton(key) \/ GuestKey(key)
-----------------------------------------------------------------------------
(* Between two slices the guest runs *)

EndPolling == /\ polling /\ walk = {} /\ events = <<>>
              /\ polling' = FALSE /\ mp' = NoKeys
              /\ UNCHANGED <<inputVars, walk, last, down, modifiers, keyVars, consoleVars>>

\* cpu_run3() carries a warm reset out, and then executes; a guest that runs
\* may turn the clock off, at the end of the slice or before.
RunTimeSlice == /\ ~polling /\ polling' = TRUE
                /\ do_warm_reset' = FALSE
                /\ \/ do_warm_reset /\ clk_off' = FALSE
                   \/ ~do_warm_reset /\ clk_off' \in {clk_off, TRUE}
                /\ UNCHANGED <<inputVars, mp, walk, last, down, modifiers, keypadmatrix,
                               pro_key, fast_forward, astray, consoleVars>>

User == Type \/ \E key \in inUse : Press(key) \/ Release(key)
MainLoop == TakeKey \/ TakeText \/ (\E key \in Keys : Handle(key)) \/ EndPolling \/ RunTimeSlice
Next == User \/ MainLoop

Spec == Init /\ [][Next]_vars
-----------------------------------------------------------------------------
(* Properties *)

KeysTypeOK == /\ events \in Seq([key : inUse \cup {TextEvent}, down : BOOLEAN])
              /\ inUse \in Keyboards
              /\ held \subseteq inUse /\ down \subseteq inUse /\ astray \subseteq inUse
              /\ DOMAIN mp \subseteq inUse /\ walk \subseteq DOMAIN mp
              /\ \A key \in DOMAIN mp : mp[key] \in BOOLEAN
              /\ {polling, shift_down, ctrl_down, pro_key, fast_forward,
                  clk_off, do_warm_reset} \subseteq BOOLEAN
              /\ keypadmatrix \subseteq (0 .. 7) \X (0 .. 7)

KeysOf(cell) == {key \in inUse \ (Shifts \cup Ctrls) : Items[pro_key][key] = cell}
Drained == events = <<>> /\ walk = {}

\* What the guest scans is what the user holds, once the events are handled: a
\* cell is up if no key of it is held, and down if its only key is; unless the
\* console or the reset button has taken the key's last event, or the layout has
\* changed since.
MatrixFollowsKeys ==
    Drained => \A cell \in {Items[pro_key][key] : key \in inUse \ (Shifts \cup Ctrls)} \ {NoCell} :
                 KeysOf(cell) \cap astray = {} =>
                   /\ cell \in keypadmatrix => KeysOf(cell) \cap held # {}
                   /\ KeysOf(cell) \subseteq held /\ (\E key \in inUse : KeysOf(cell) = {key})
                        => cell \in keypadmatrix

\* The reset button needs its three keys: Shift and Ctrl may have been released
\* by the very event being handled, but never earlier.
ResetNeedsChord ==
    [][\A key \in Keys : ResetButton(key) /\ mp[key] =>
         /\ F12 \in down
         /\ Shifts \cap (down \cup {last.key}) # {}
         /\ Ctrls \cap (down \cup {last.key}) # {}]_vars
-----------------------------------------------------------------------------
(* What makes MatrixFollowsKeys and ResetNeedsChord inductive *)

\* An event, or what main_loop() knows, that does not tell how a key is now is
\* followed by an event that does.
Told(queue, keys, key, from) ==
    \E i \in from .. Len(queue) : queue[i] = Event(key, key \in keys)
EventsSettle ==
    /\ \A key \in inUse : (key \in down) # (key \in held) => Told(events, held, key, 1)
    /\ \A i \in 1 .. Len(events) :
         LET key == events[i].key
         IN  key # TextEvent /\ events[i].down # (key \in held) => Told(events, held, key, i + 1)

\* The map holds the last events of its keys.
MapIsLast == \A key \in DOMAIN mp : mp[key] = (key \in down)

ModifiersKnown ==
    /\ shift_down => \E key \in Shifts : key \in down \/ (key \in walk /\ key = last.key)
    /\ ctrl_down => \E key \in Ctrls : key \in down \/ (key \in walk /\ key = last.key)

\* A cell that is down has a key that is, or that is still to be handled; a
\* cell's only key has been handled, or will be.
CellsFollow ==
    \A cell \in {Items[pro_key][key] : key \in inUse \ (Shifts \cup Ctrls)} \ {NoCell} :
      KeysOf(cell) \cap astray = {} =>
        /\ cell \in keypadmatrix => KeysOf(cell) \cap (down \cup walk) # {}
        /\ \A key \in inUse : KeysOf(cell) = {key} /\ key \in down /\ key \notin walk
                                 => cell \in keypadmatrix

SdlInv == KeysTypeOK /\ EventsSettle /\ MapIsLast /\ ModifiersKnown /\ CellsFollow
=============================================================================
