------------------------------- MODULE FbKeys -------------------------------
(***************************************************************************)
(* The keyboard of nc2000_fb, the program that runs on the device:         *)
(* src/port_fb/input_fb.cpp.  One thread reads the device's keyboard,      *)
(* another the bytes of a TCP client; both write the matrix the guest      *)
(* scans, without a lock, while the main thread (main_fb.cpp) runs the     *)
(* guest.  The table that says which cell a key has is built by the first  *)
(* thread that handles an event, without a lock too: both may build it,    *)
(* one while the other reads it.                                           *)
(***************************************************************************)
EXTENDS Integers, Sequences

CONSTANTS Codes,          \* evdev codes in use
          evdev_to_wqx,   \* the key id of a code
          RemoteIds,      \* key ids the TCP client sends
          key_id_to_yx,   \* the table: the cell of a key id, NoCell if it has none
          NoCell,
          MaxEvents       \* bound: events, and bytes, that are not handled yet

Threads == {"evdev", "tcp"}
Cells == (0 .. 7) \X (0 .. 7)
KEY_TAB == 15

ASSUME FbKeysAssumption == /\ evdev_to_wqx \in [Codes -> 0 .. 255]
                           /\ RemoteIds \subseteq 0 .. 127
                           /\ key_id_to_yx \in [0 .. 63 -> Cells \cup {NoCell}]
                           /\ NoCell \notin Cells
                           /\ MaxEvents \in Nat

VARIABLES events,        \* the device's queue; a thread's first event is in hand
          held,          \* keys the user holds
          connected,     \* there is a TCP client
          bytes,         \* what it has sent
          remote,        \* history: keys clients have pressed and not released
          keypadmatrix, fast_forward,
          yx_map_inited, \* the flag that says that the table is there
          at,            \* where a thread is: "idle", "init", "look" or "store"
          target,        \* the cell it has found for its event
          met,           \* history: it looked while the other built the table
          astray         \* history: cells whose last event met such a table,
                         \* and cells such an event has gone to

deviceVars == <<events, held>>
clientVars == <<connected, bytes, remote>>
matrixVars == <<keypadmatrix, fast_forward, astray>>
lookupVars == <<yx_map_inited, at, target, met>>
vars == <<deviceVars, clientVars, matrixVars, lookupVars>>

Init == /\ events = <<>> /\ held = {}
        /\ connected = FALSE /\ bytes = <<>> /\ remote = {}
        /\ keypadmatrix = {} /\ fast_forward = FALSE /\ astray = {}
        /\ yx_map_inited = FALSE
        /\ at = [t \in Threads |-> "idle"]
        /\ target = [t \in Threads |-> NoCell] /\ met = [t \in Threads |-> FALSE]
-----------------------------------------------------------------------------
(* The device's keyboard: 1 for a press, 2 for its repetition, 0 for a release *)

Key(code, value) == /\ Len(events) < MaxEvents
                    /\ events' = Append(events, [code |-> code, value |-> value])
                    /\ UNCHANGED <<clientVars, matrixVars, lookupVars>>

Press(code) == code \notin held /\ held' = held \cup {code} /\ Key(code, 1)
Repeat(code) == code \in held /\ UNCHANGED held /\ Key(code, 2)
Release(code) == code \in held /\ held' = held \ {code} /\ Key(code, 0)
-----------------------------------------------------------------------------
(* The TCP client: a byte is a key id, with the top bit for a press *)

Connect == /\ ~connected /\ bytes = <<>> /\ connected' = TRUE
           /\ UNCHANGED <<deviceVars, bytes, remote, matrixVars, lookupVars>>

Send(id, down) == /\ connected /\ Len(bytes) < MaxEvents
                  /\ bytes' = Append(bytes, [id |-> id, down |-> down])
                  /\ UNCHANGED <<deviceVars, connected, remote, matrixVars, lookupVars>>

\* What the client has sent is handled before the end of the connection; the
\* keys it holds stay down.
Disconnect == /\ connected /\ bytes = <<>> /\ connected' = FALSE
              /\ UNCHANGED <<deviceVars, bytes, remote, matrixVars, lookupVars>>
-----------------------------------------------------------------------------
(* The table of cells *)

\* The event a thread has in hand.
Has(t) == IF t = "evdev" THEN events # <<>> ELSE bytes # <<>>
KeyId(t) == IF t = "evdev" THEN evdev_to_wqx[events[1].code] ELSE bytes[1].id
CellOf(id) == IF id > 63 THEN NoCell ELSE key_id_to_yx[id]

\* A thread takes an event and looks at the flag.
Takes(t) == /\ at[t] = "idle" /\ Has(t)
            /\ at' = [at EXCEPT ![t] = IF yx_map_inited THEN "look" ELSE "init"]
            /\ UNCHANGED <<deviceVars, clientVars, matrixVars, yx_map_inited, target, met>>

\* init_yx_map() clears the table, fills it and sets the flag.  Nothing orders
\* these stores for another thread: the flag may be seen before the cells.
SetsFlag(t) == /\ at[t] = "init" /\ ~yx_map_inited /\ yx_map_inited' = TRUE
               /\ UNCHANGED <<deviceVars, clientVars, matrixVars, at, target, met>>
init_yx_map(t) == /\ at[t] = "init" /\ yx_map_inited
                  /\ at' = [at EXCEPT ![t] = "look"]
                  /\ UNCHANGED <<deviceVars, clientVars, matrixVars, yx_map_inited, target, met>>

Row(cell) == IF cell = NoCell THEN -1 ELSE cell[1]
Column(cell) == IF cell = NoCell THEN -1 ELSE cell[2]

\* Where keypadmatrix[y][x] is.  With x = -1 it is in the row before; what is
\* before the first row is not part of the model.
Place(y, x) == IF y < 0 \/ (y = 0 /\ x < 0) THEN NoCell
               ELSE IF x < 0 THEN <<y - 1, 7>> ELSE <<y, x>>

\* While the other thread builds the table, y and x are each the right number,
\* or the -1 or the 0 that was there before it.
Seen(id) == {Place(y, x) : y \in {Row(CellOf(id)), -1, 0}, x \in {Column(CellOf(id)), -1, 0}}

LooksUp(t) ==
    LET torn == \E other \in Threads \ {t} : at[other] = "init"
    IN  /\ at[t] = "look" /\ at' = [at EXCEPT ![t] = "store"]
        /\ \E cell \in (IF torn /\ KeyId(t) <= 63 THEN Seen(KeyId(t)) ELSE {CellOf(KeyId(t))}) :
             target' = [target EXCEPT ![t] = cell]
        /\ met' = [met EXCEPT ![t] = torn]
        /\ UNCHANGED <<deviceVars, clientVars, matrixVars, yx_map_inited>>
-----------------------------------------------------------------------------
(* The matrix *)

\* Keys without a cell are ignored.
SetCell(t, down) ==
    /\ keypadmatrix' = IF target[t] = NoCell THEN keypadmatrix
                       ELSE IF down THEN keypadmatrix \cup {target[t]}
                       ELSE keypadmatrix \ {target[t]}
    /\ astray' = IF met[t] THEN astray \cup ({CellOf(KeyId(t)), target[t]} \ {NoCell})
                 ELSE astray \ {CellOf(KeyId(t))}

Finishes(t) == /\ at[t] = "store" /\ at' = [at EXCEPT ![t] = "idle"]
               /\ target' = [target EXCEPT ![t] = NoCell] /\ met' = [met EXCEPT ![t] = FALSE]
               /\ UNCHANGED yx_map_inited

\* Mutant: a repetition counts as a release.
evdev_thread_repeats ==
    /\ Finishes("evdev") /\ events' = Tail(events)
    /\ LET down == events[1].value = 1
       IN  /\ SetCell("evdev", down)
           /\ fast_forward' = (fast_forward # (down /\ events[1].code = KEY_TAB))
    /\ UNCHANGED <<held, clientVars>>

\* The end of a turn of evdev_thread().  Repetitions are ignored, and Tab, which
\* has no key id, toggles fast forward.
evdev_thread ==
    /\ Finishes("evdev") /\ events' = Tail(events)
    /\ LET down == events[1].value = 1
       IN  IF events[1].value > 1 THEN UNCHANGED matrixVars
           ELSE /\ SetCell("evdev", down)
                /\ fast_forward' = (fast_forward # (down /\ events[1].code = KEY_TAB))
    /\ UNCHANGED <<held, clientVars>>

process_remote_byte ==
    /\ Finishes("tcp") /\ bytes' = Tail(bytes)
    /\ SetCell("tcp", bytes[1].down)
    /\ remote' = IF bytes[1].down THEN remote \cup {bytes[1].id} ELSE remote \ {bytes[1].id}
    /\ UNCHANGED <<deviceVars, connected, fast_forward>>

Next == \/ \E code \in Codes : Press(code) \/ Repeat(code) \/ Release(code)
        \/ \E id \in RemoteIds, down \in BOOLEAN : Send(id, down)
        \/ Connect \/ Disconnect
        \/ \E t \in Threads : Takes(t) \/ SetsFlag(t) \/ init_yx_map(t) \/ LooksUp(t)
        \/ evdev_thread \/ process_remote_byte

Spec == Init /\ [][Next]_vars
-----------------------------------------------------------------------------
(* Properties *)

LocalKeys(cell) == {code \in Codes : CellOf(evdev_to_wqx[code]) = cell}
RemoteKeys(cell) == {id \in RemoteIds : CellOf(id) = cell}

\* With both queues handled, no cell is down without a key, here or there, that
\* holds it down, and a key that shares its cell with no other is down in the
\* matrix exactly if it is held: for every cell but those whose last event was
\* looked up while the other thread built the table, and those that such an
\* event has gone to.  A cell is right again after the next event of its keys.
FbMatrixFollowsKeys ==
    events = <<>> /\ bytes = <<>> =>
      \A cell \in Cells \ astray :
        /\ cell \in keypadmatrix => LocalKeys(cell) \cap held # {} \/ RemoteKeys(cell) \cap remote # {}
        /\ \A code \in held : LocalKeys(cell) = {code} /\ RemoteKeys(cell) = {} => cell \in keypadmatrix
        /\ \A id \in remote : RemoteKeys(cell) = {id} /\ LocalKeys(cell) = {} => cell \in keypadmatrix
-----------------------------------------------------------------------------
(* What makes FbMatrixFollowsKeys inductive *)

FbTypeOK == /\ events \in Seq([code : Codes, value : 0 .. 2]) /\ held \subseteq Codes
            /\ bytes \in Seq([id : RemoteIds, down : BOOLEAN]) /\ remote \subseteq RemoteIds
            /\ at \in [Threads -> {"idle", "init", "look", "store"}]
            /\ target \in [Threads -> Cells \cup {NoCell}] /\ met \in [Threads -> BOOLEAN]

\* A thread at work has an event in hand, and has found the cell of its key
\* unless it met a table that was being built.
Aimed == \A t \in Threads :
           /\ at[t] # "idle" => Has(t)
           /\ at[t] = "store" /\ ~met[t] => target[t] = CellOf(KeyId(t))

Waits(queue, code, value, from) ==
    \E i \in from .. Len(queue) : queue[i] = [code |-> code, value |-> value]
Now(keys, code) == IF code \in keys THEN 1 ELSE 0

\* An event that does not tell how its key is now is followed by one that does.
QueueSettles ==
    \A i \in 1 .. Len(events) :
      LET code == events[i].code
      IN  events[i].value = 1 - Now(held, code) => Waits(events, code, Now(held, code), i + 1)

CellsHeld ==
    \A cell \in Cells \ astray :
      /\ cell \in keypadmatrix =>
           \/ \E code \in LocalKeys(cell) : code \in held \/ Waits(events, code, 0, 1)
           \/ RemoteKeys(cell) \cap remote # {}
      /\ \A code \in held : LocalKeys(cell) = {code} /\ RemoteKeys(cell) = {} =>
                              cell \in keypadmatrix \/ Waits(events, code, 1, 1)
      /\ \A id \in remote : RemoteKeys(cell) = {id} /\ LocalKeys(cell) = {} => cell \in keypadmatrix

FbInv == FbTypeOK /\ Aimed /\ QueueSettles /\ CellsHeld
=============================================================================
