----------------------------- MODULE SdlKeyProofs -----------------------------
(***************************************************************************)
(* Proofs about SdlKeys, for any keys, cells, layouts and lengths of the   *)
(* queue: the matrix follows the keys, and the reset button needs its      *)
(* three.                                                                  *)
(***************************************************************************)
EXTENDS SdlKeys, SequenceTheorems, TLAPS

(* Queues *)

\* What a queue holds after an event is added or taken.
LEMMA Added ==
    ASSUME NEW S, NEW q \in Seq(S), NEW e \in S
    PROVE  /\ Append(q, e) \in Seq(S) /\ Len(Append(q, e)) = Len(q) + 1 /\ Len(q) \in Nat
           /\ \A i \in 1 .. Len(q) : Append(q, e)[i] = q[i]
           /\ Append(q, e)[Len(q) + 1] = e
BY AppendProperties, LenProperties

LEMMA Taken ==
    ASSUME NEW S, NEW q \in Seq(S), q # <<>>
    PROVE  /\ Head(q) \in S /\ Head(q) = q[1] /\ Len(q) \in Nat /\ Len(q) > 0
           /\ Tail(q) \in Seq(S) /\ Len(Tail(q)) = Len(q) - 1
           /\ \A i \in 1 .. Len(q) - 1 : Tail(q)[i] = q[i + 1]
           /\ \A i \in 2 .. Len(q) : q[i] = Tail(q)[i - 1]
<1>1. /\ Head(q) \in S /\ Tail(q) \in Seq(S) /\ Len(q) \in Nat /\ Len(q) > 0
      /\ Len(Tail(q)) = Len(q) - 1 /\ \A i \in 1 .. Len(Tail(q)) : Tail(q)[i] = q[i + 1]
  BY HeadTailProperties, LenProperties, EmptySeq
<1>2. Head(q) = q[1]
  BY LenProperties, EmptySeq
<1>3. ASSUME NEW i \in 2 .. Len(q) PROVE q[i] = Tail(q)[i - 1]
  <2>1. i - 1 \in 1 .. Len(Tail(q)) /\ (i - 1) + 1 = i
    BY <1>1
  <2> QED BY <1>1, <2>1
<1> QED BY <1>1, <1>2, <1>3

-----------------------------------------------------------------------------
(* The SDL program *)

\* An event that is added settles its key; what has settled stays so.
LEMMA ToldAfterAdding ==
    ASSUME NEW S, NEW q \in Seq(S), NEW e \in S, NEW keys, NEW old
    PROVE  /\ \A key : \A from \in 1 .. Len(q) + 1 :
                e = Event(key, key \in keys) => Told(Append(q, e), keys, key, from)
           /\ \A key : \A from \in 1 .. Len(q) :
                (key \in keys <=> key \in old) /\ Told(q, old, key, from)
                  => Told(Append(q, e), keys, key, from)
<1> DEFINE r == Append(q, e)
<1>1. /\ Len(r) = Len(q) + 1 /\ Len(q) \in Nat /\ r[Len(q) + 1] = e
      /\ \A i \in 1 .. Len(q) : r[i] = q[i]
  BY Added
<1>2. ASSUME NEW key, NEW from \in 1 .. Len(q) + 1, e = Event(key, key \in keys)
      PROVE  Told(r, keys, key, from)
  <2>1. Len(q) + 1 \in from .. Len(r)
    BY <1>1
  <2> QED BY <1>1, <1>2, <2>1 DEF Told
<1>3. ASSUME NEW key, NEW from \in 1 .. Len(q), key \in keys <=> key \in old,
             Told(q, old, key, from)
      PROVE  Told(r, keys, key, from)
  <2>1. PICK i \in from .. Len(q) : q[i] = Event(key, key \in old)
    BY <1>3 DEF Told
  <2>2. i \in from .. Len(r) /\ r[i] = q[i]
    BY <1>1, <2>1
  <2>3. (key \in keys) = (key \in old)
    BY <1>3
  <2> HIDE DEF r
  <2> QED BY <2>1, <2>2, <2>3 DEF Told
<1> QED BY <1>2, <1>3

\* An event that is taken is the first; the others still settle their keys.
LEMMA ToldAfterTaking ==
    ASSUME NEW S, NEW q \in Seq(S), q # <<>>, NEW keys, NEW key,
           NEW from \in 2 .. Len(q) + 1, Told(q, keys, key, from)
    PROVE  Told(Tail(q), keys, key, from - 1)
<1>1. /\ Len(Tail(q)) = Len(q) - 1 /\ Len(q) \in Nat
      /\ \A i \in 2 .. Len(q) : q[i] = Tail(q)[i - 1]
  BY Taken
<1>2. PICK i \in from .. Len(q) : q[i] = Event(key, key \in keys)
  BY DEF Told
<1>3. i - 1 \in from - 1 .. Len(Tail(q)) /\ Tail(q)[i - 1] = q[i]
  BY <1>1, <1>2
<1> QED BY <1>2, <1>3 DEF Told

\* The keys in use are keys, with cells of the matrix or none.
LEMMA CellsOfKeys ==
    ASSUME KeysTypeOK
    PROVE  /\ inUse \subseteq Keys /\ TextEvent \notin inUse
           /\ \A key \in inUse : Items[pro_key][key] \in ((0 .. 7) \X (0 .. 7)) \cup {NoCell}
<1>1. inUse \subseteq Keys /\ TextEvent \notin inUse
  BY SdlKeysAssumption DEF KeysTypeOK, Keys
<1>2. pro_key \in BOOLEAN
  BY DEF KeysTypeOK
<1>3. ASSUME NEW key \in inUse
      PROVE  Items[pro_key][key] \in ((0 .. 7) \X (0 .. 7)) \cup {NoCell}
  <2>1. Items[pro_key] \in [Keys -> ((0 .. 7) \X (0 .. 7)) \cup {NoCell}]
    BY <1>2, SdlKeysAssumption
  <2> QED BY <1>1, <2>1
<1> QED BY <1>1, <1>3

\* What each step does to the queue, the map and the history.
InputStep == \/ events' = events /\ held' = held
             \/ \E key \in inUse, isDown \in BOOLEAN :
                  /\ events' = Append(events, Event(key, isDown))
                  /\ held' = IF isDown THEN held \cup {key} ELSE held \ {key}
             \/ events' = Append(events, Event(TextEvent, TRUE)) /\ held' = held
UserStep == InputStep /\ UNCHANGED <<inUse, loopVars, modifiers, keyVars>>

LEMMA Steps ==
    ASSUME [Next]_vars
    PROVE  \/ UserStep \/ TakeKey \/ TakeText \/ EndPolling \/ RunTimeSlice
           \/ \E key \in Keys : Handle(key)
<1>1. CASE UNCHANGED vars
  BY <1>1 DEF vars, inputVars, UserStep, InputStep
<1>2. CASE Type
  BY <1>2 DEF Type, UserStep, InputStep
<1>3. ASSUME NEW key \in inUse, Press(key) PROVE UserStep
  <2>1. events' = Append(events, Event(key, TRUE)) /\ held' = held \cup {key}
        /\ UNCHANGED <<inUse, loopVars, modifiers, keyVars>>
    BY <1>3 DEF Press
  <2> QED BY <2>1 DEF UserStep, InputStep
<1>4. ASSUME NEW key \in inUse, Release(key) PROVE UserStep
  <2>1. events' = Append(events, Event(key, FALSE)) /\ held' = held \ {key}
        /\ UNCHANGED <<inUse, loopVars, modifiers, keyVars>>
    BY <1>4 DEF Release
  <2> QED BY <2>1 DEF UserStep, InputStep
<1> QED BY <1>1, <1>2, <1>3, <1>4 DEF Next, User, MainLoop

\* The steps that handle a key of the map.
LEMMA Handling ==
    ASSUME NEW key, Handle(key)
    PROVE  /\ key \in walk /\ walk' = walk \ {key}
           /\ UNCHANGED <<events, held, inUse, mp, polling, last, down>>
           /\ key \in Shifts \cup Ctrls \/ UNCHANGED modifiers
BY DEF Handle, HandleModifier, ConsoleTakes, ResetButton, GuestKey, GuestTurn, Turn, inputVars

-----------------------------------------------------------------------------
LEMMA SdlInitially == Init => SdlInv
<1> SUFFICES ASSUME Init PROVE SdlInv
  OBVIOUS
<1>1. KeysTypeOK
  <2>1. events \in Seq([key : inUse \cup {TextEvent}, down : BOOLEAN])
    BY EmptySeq DEF Init
  <2> QED BY <2>1 DEF Init, KeysTypeOK, NoKeys
<1>2. EventsSettle
  <2>1. Len(events) = 0
    BY EmptySeq DEF Init
  <2> QED BY <2>1 DEF Init, EventsSettle
<1>3. MapIsLast /\ ModifiersKnown /\ CellsFollow
  BY DEF Init, NoKeys, MapIsLast, ModifiersKnown, CellsFollow
<1> QED BY <1>1, <1>2, <1>3 DEF SdlInv

LEMMA KeysTypeStep == KeysTypeOK /\ MapIsLast /\ [Next]_vars => KeysTypeOK'
<1> SUFFICES ASSUME KeysTypeOK, MapIsLast, [Next]_vars PROVE KeysTypeOK'
  OBVIOUS
<1> USE DEF Event
<1> DEFINE S == [key : inUse \cup {TextEvent}, down : BOOLEAN]
<1>1. CASE UserStep
  <2>1. /\ UNCHANGED <<inUse, down, astray, mp, walk, polling, shift_down, ctrl_down, pro_key,
                       fast_forward, clk_off, do_warm_reset, keypadmatrix>>
    BY <1>1 DEF UserStep, loopVars, modifiers, keyVars
  <2>2. events \in Seq(S) /\ held \subseteq inUse
    BY DEF KeysTypeOK
  <2>3. events' \in Seq(S) /\ held' \subseteq inUse
    <3>1. CASE events' = events /\ held' = held
      BY <2>2, <3>1
    <3>2. ASSUME NEW key \in inUse, NEW isDown \in BOOLEAN,
                 events' = Append(events, Event(key, isDown)),
                 held' = IF isDown THEN held \cup {key} ELSE held \ {key}
          PROVE  events' \in Seq(S) /\ held' \subseteq inUse
      <4>1. Event(key, isDown) \in S
        OBVIOUS
      <4> QED BY <2>2, <3>2, <4>1, AppendProperties
    <3>3. CASE events' = Append(events, Event(TextEvent, TRUE)) /\ held' = held
      <4>1. Event(TextEvent, TRUE) \in S
        OBVIOUS
      <4> QED BY <2>2, <3>3, <4>1, AppendProperties
    <3> QED BY <1>1, <3>1, <3>2, <3>3 DEF UserStep, InputStep
  <2> QED BY <2>1, <2>3 DEF KeysTypeOK
<1>2. CASE TakeKey \/ TakeText
  <2>1. events \in Seq(S) /\ events # <<>> /\ events' = Tail(events)
    BY <1>2 DEF TakeKey, TakeText, Taking, KeysTypeOK
  <2>2. events' \in Seq(S) /\ Head(events) \in S
    BY <2>1, Taken
  <2>3. CASE TakeText
    BY <2>2, <2>3 DEF TakeText, KeysTypeOK, modifiers, keyVars
  <2>4. CASE TakeKey
    <3>1. last'.key \in inUse /\ last'.down \in BOOLEAN
      BY <2>2, <2>4 DEF TakeKey
    <3>2. UNCHANGED <<held, inUse, astray, polling, shift_down, ctrl_down, pro_key,
                      fast_forward, clk_off, do_warm_reset, keypadmatrix>>
      BY <2>4 DEF TakeKey, modifiers, keyVars
    <3>3. down' \subseteq inUse
      BY <2>4, <3>1 DEF TakeKey, KeysTypeOK
    <3>4. DOMAIN mp' \subseteq inUse /\ walk' = DOMAIN mp' /\ \A key \in DOMAIN mp' : mp'[key] \in BOOLEAN
      BY <2>4, <3>1 DEF TakeKey, KeysTypeOK
    <3> QED BY <2>2, <3>2, <3>3, <3>4 DEF KeysTypeOK
  <2> QED BY <1>2, <2>3, <2>4
<1>3. CASE EndPolling
  BY <1>3 DEF EndPolling, KeysTypeOK, NoKeys, inputVars, modifiers, keyVars
<1>4. CASE RunTimeSlice
  BY <1>4 DEF RunTimeSlice, KeysTypeOK, inputVars, modifiers
<1>5. ASSUME NEW key \in Keys, Handle(key) PROVE KeysTypeOK'
  <2>1. /\ key \in walk /\ walk' = walk \ {key} /\ key \in inUse /\ mp[key] \in BOOLEAN
        /\ UNCHANGED <<events, held, inUse, mp, polling, last, down>>
    BY <1>5, Handling DEF KeysTypeOK
  <2>2. /\ astray' \subseteq inUse /\ {shift_down', ctrl_down', pro_key', fast_forward', clk_off',
                                       do_warm_reset'} \subseteq BOOLEAN
        /\ keypadmatrix' \subseteq (0 .. 7) \X (0 .. 7)
    <3>1. CASE HandleModifier(key)
      BY <2>1, <3>1 DEF HandleModifier, KeysTypeOK, keyVars
    <3>2. CASE ConsoleTakes(key)
      BY <2>1, <3>2 DEF ConsoleTakes, KeysTypeOK, modifiers
    <3>3. CASE ResetButton(key)
      BY <2>1, <3>3 DEF ResetButton, GuestTurn, KeysTypeOK, modifiers
    <3>4. CASE GuestKey(key)
      <4>1. /\ UNCHANGED <<shift_down, ctrl_down, clk_off>>
            /\ pro_key' = (pro_key # (key = BACKQUOTE /\ mp[key] /\ shift_down))
            /\ fast_forward' = (fast_forward # (key = TAB /\ mp[key]))
            /\ astray' = IF pro_key' = pro_key THEN astray \ {key} ELSE inUse
        BY <3>4 DEF GuestKey, GuestTurn, modifiers
      <4>2. pro_key' \in BOOLEAN /\ fast_forward' \in BOOLEAN
        BY <4>1
      <4>3. do_warm_reset' \in BOOLEAN /\ keypadmatrix' \subseteq (0 .. 7) \X (0 .. 7)
        <5>1. CASE Items[pro_key][key] = NoCell
          BY <3>4, <5>1 DEF GuestKey, KeysTypeOK
        <5>2. CASE Items[pro_key][key] # NoCell
          <6>1. Items[pro_key][key] \in (0 .. 7) \X (0 .. 7)
            BY <2>1, <5>2, CellsOfKeys
          <6>2. SetKeyWayback(Items[pro_key][key], mp[key])
            BY <3>4, <5>2 DEF GuestKey
          <6> QED BY <6>1, <6>2 DEF SetKeyWayback, KeysTypeOK
        <5> QED BY <5>1, <5>2
      <4> QED BY <2>1, <4>1, <4>2, <4>3 DEF KeysTypeOK
    <3> QED BY <1>5, <3>1, <3>2, <3>3, <3>4 DEF Handle
  <2> QED BY <2>1, <2>2 DEF KeysTypeOK
<1> QED BY <1>1, <1>2, <1>3, <1>4, <1>5, Steps

LEMMA MapStep == KeysTypeOK /\ MapIsLast /\ [Next]_vars => MapIsLast'
<1> SUFFICES ASSUME KeysTypeOK, MapIsLast, [Next]_vars PROVE MapIsLast'
  OBVIOUS
<1>1. CASE UserStep
  BY <1>1 DEF UserStep, loopVars, MapIsLast
<1>2. CASE TakeKey
  <2>1. down' = IF last'.down THEN down \cup {last'.key} ELSE down \ {last'.key}
    BY <1>2 DEF TakeKey
  <2>2. mp' = [key \in DOMAIN mp \cup {last'.key} |-> IF key = last'.key THEN last'.down ELSE mp[key]]
    BY <1>2 DEF TakeKey
  <2>3. last'.down \in BOOLEAN
    <3>1. events \in Seq([key : inUse \cup {TextEvent}, down : BOOLEAN]) /\ events # <<>>
          /\ last' = Head(events)
      BY <1>2 DEF TakeKey, Taking, KeysTypeOK
    <3>2. Head(events) \in [key : inUse \cup {TextEvent}, down : BOOLEAN]
      BY <3>1, Taken
    <3> QED BY <3>1, <3>2
  <2>4. ASSUME NEW key \in DOMAIN mp' PROVE mp'[key] = (key \in down')
    <3>1. CASE key = last'.key
      BY <2>1, <2>2, <2>3, <3>1
    <3>2. CASE key # last'.key
      <4>1. key \in DOMAIN mp /\ mp'[key] = mp[key] /\ (key \in down' <=> key \in down)
        BY <2>1, <2>2, <2>4, <3>2
      <4> QED BY <4>1 DEF MapIsLast
    <3> QED BY <3>1, <3>2
  <2> QED BY <2>4 DEF MapIsLast
<1>3. CASE TakeText
  BY <1>3 DEF TakeText, MapIsLast
<1>4. CASE EndPolling
  BY <1>4 DEF EndPolling, NoKeys, MapIsLast
<1>5. CASE RunTimeSlice
  BY <1>5 DEF RunTimeSlice, MapIsLast
<1>6. ASSUME NEW key \in Keys, Handle(key) PROVE MapIsLast'
  BY <1>6, Handling DEF MapIsLast
<1> QED BY <1>1, <1>2, <1>3, <1>4, <1>5, <1>6, Steps

LEMMA ModifiersStep ==
    KeysTypeOK /\ MapIsLast /\ ModifiersKnown /\ [Next]_vars => ModifiersKnown'
<1> SUFFICES ASSUME KeysTypeOK, MapIsLast, ModifiersKnown, [Next]_vars PROVE ModifiersKnown'
  OBVIOUS
<1>1. CASE UserStep
  BY <1>1 DEF UserStep, loopVars, modifiers, ModifiersKnown
<1>2. CASE TakeKey
  <2>1. /\ walk = {} /\ UNCHANGED <<shift_down, ctrl_down>> /\ last'.key \in walk'
        /\ \A key : key \in down => key \in down' \/ key = last'.key
    BY <1>2 DEF TakeKey, Taking, modifiers
  <2> QED BY <2>1 DEF ModifiersKnown
<1>3. CASE TakeText
  BY <1>3 DEF TakeText, Taking, modifiers, ModifiersKnown
<1>4. CASE EndPolling
  BY <1>4 DEF EndPolling, modifiers, ModifiersKnown
<1>5. CASE RunTimeSlice
  BY <1>5 DEF RunTimeSlice, modifiers, ModifiersKnown
<1>6. ASSUME NEW key \in Keys, Handle(key) PROVE ModifiersKnown'
  <2>1. key \in DOMAIN mp /\ mp[key] = (key \in down) /\ walk' = walk \ {key}
        /\ UNCHANGED <<last, down>>
    BY <1>6, Handling DEF KeysTypeOK, MapIsLast
  <2>2. CASE key \notin Shifts \cup Ctrls
    <3>1. UNCHANGED modifiers
      BY <1>6, <2>2, Handling
    <3> QED BY <2>1, <2>2, <3>1 DEF modifiers, ModifiersKnown
  <2>3. CASE key \in Shifts \cup Ctrls
    <3>1. /\ shift_down' = IF key \in Shifts THEN key \in down ELSE shift_down
          /\ ctrl_down' = IF key \in Ctrls THEN key \in down ELSE ctrl_down
      BY <1>6, <2>1, <2>3 DEF Handle, HandleModifier, ConsoleTakes, ResetButton, GuestKey, GuestTurn
    <3> QED BY <2>1, <2>3, <3>1 DEF ModifiersKnown
  <2> QED BY <2>2, <2>3
<1> QED BY <1>1, <1>2, <1>3, <1>4, <1>5, <1>6, Steps

\* A key that is pressed or released adds the event that tells how it is now; an
\* event that is taken leaves the later ones to tell.
LEMMA SettleStep == KeysTypeOK /\ EventsSettle /\ [Next]_vars => EventsSettle'
<1> SUFFICES ASSUME KeysTypeOK, EventsSettle, [Next]_vars PROVE EventsSettle'
  OBVIOUS
<1> DEFINE S == [key : inUse \cup {TextEvent}, down : BOOLEAN]
<1>0. events \in Seq(S) /\ Len(events) \in Nat /\ TextEvent \notin inUse
  BY CellsOfKeys, LenProperties DEF KeysTypeOK
<1>1. ASSUME UNCHANGED <<events, held, inUse, down>> PROVE EventsSettle'
  BY <1>1 DEF EventsSettle, Told
<1>2. CASE UserStep
  <2>1. UNCHANGED <<inUse, down>>
    BY <1>2 DEF UserStep, loopVars
  <2>2. ASSUME NEW e \in S, events' = Append(events, e),
               \A key : key # e.key => (key \in held' <=> key \in held),
               e.key # TextEvent => e = Event(e.key, e.key \in held'),
               e.key = TextEvent => held' = held
        PROVE  EventsSettle'
    <3>1. /\ Len(events') = Len(events) + 1 /\ events'[Len(events) + 1] = e
          /\ \A i \in 1 .. Len(events) : events'[i] = events[i]
      BY <1>0, <2>2, Added
    <3>2. /\ \A key : \A from \in 1 .. Len(events) + 1 :
               e = Event(key, key \in held') => Told(events', held', key, from)
          /\ \A key : \A from \in 1 .. Len(events) :
               (key \in held' <=> key \in held) /\ Told(events, held, key, from)
                 => Told(events', held', key, from)
      BY <1>0, <2>2, ToldAfterAdding
    <3>3. ASSUME NEW key \in inUse, (key \in down) # (key \in held') PROVE Told(events', held', key, 1)
      <4>1. CASE key = e.key
        <5>1. e = Event(key, key \in held')
          BY <1>0, <2>2, <4>1
        <5> QED BY <1>0, <3>2, <5>1
      <4>2. CASE key # e.key
        <5>1. Told(events, held, key, 1) /\ (key \in held' <=> key \in held)
          BY <2>2, <3>3, <4>2 DEF EventsSettle
        <5>2. Len(events) >= 1
          BY <1>0, <5>1 DEF Told
        <5> QED BY <1>0, <3>2, <5>1, <5>2
      <4> QED BY <4>1, <4>2
    <3>4. ASSUME NEW i \in 1 .. Len(events'), events'[i].key # TextEvent,
                 events'[i].down # (events'[i].key \in held')
          PROVE  Told(events', held', events'[i].key, i + 1)
      <4>1. CASE i = Len(events) + 1
        BY <2>2, <3>1, <3>4, <4>1 DEF Event
      <4>2. CASE i \in 1 .. Len(events)
        <5>1. events'[i] = events[i]
          BY <3>1, <4>2
        <5>2. CASE events[i].key = e.key
          <6>1. e = Event(events[i].key, events[i].key \in held')
            BY <2>2, <3>4, <5>1, <5>2
          <6>2. i + 1 \in 1 .. Len(events) + 1
            BY <1>0, <4>2
          <6> QED BY <3>2, <5>1, <6>1, <6>2
        <5>3. CASE events[i].key # e.key
          <6>1. events[i].key \in held' <=> events[i].key \in held
            BY <2>2, <5>3
          <6>2. Told(events, held, events[i].key, i + 1)
            BY <3>4, <4>2, <5>1, <6>1 DEF EventsSettle
          <6>3. i + 1 \in 1 .. Len(events)
            BY <1>0, <4>2, <6>2 DEF Told
          <6> QED BY <3>2, <5>1, <6>1, <6>2, <6>3
        <5> QED BY <5>2, <5>3
      <4> QED BY <1>0, <3>1, <4>1, <4>2
    <3> QED BY <2>1, <3>3, <3>4 DEF EventsSettle
  <2>3. CASE events' = events /\ held' = held
    BY <1>1, <2>1, <2>3
  <2>4. ASSUME NEW key \in inUse, NEW isDown \in BOOLEAN,
               events' = Append(events, Event(key, isDown)),
               held' = IF isDown THEN held \cup {key} ELSE held \ {key}
        PROVE  EventsSettle'
    <3>1. Event(key, isDown) \in S /\ Event(key, isDown).key = key
      BY DEF Event
    <3>2. isDown = (key \in held') /\ key # TextEvent
      BY <1>0, <2>4
    <3>3. \A other : other # key => (other \in held' <=> other \in held)
      BY <2>4
    <3> QED BY <2>2, <2>4, <3>1, <3>2, <3>3
  <2>5. CASE events' = Append(events, Event(TextEvent, TRUE)) /\ held' = held
    <3>1. Event(TextEvent, TRUE) \in S /\ Event(TextEvent, TRUE).key = TextEvent
      BY DEF Event
    <3> QED BY <2>2, <2>5, <3>1
  <2> QED BY <1>2, <2>3, <2>4, <2>5 DEF UserStep, InputStep
<1>3. CASE TakeKey \/ TakeText
  <2>1. /\ events # <<>> /\ events' = Tail(events) /\ UNCHANGED <<inUse, held>>
        /\ \A key \in inUse : key # Head(events).key => (key \in down' <=> key \in down)
        /\ Head(events).key \in inUse => (Head(events).key \in down') = Head(events).down
    <3>1. CASE TakeText
      BY <1>0, <3>1 DEF TakeText, Taking
    <3>2. CASE TakeKey
      <4>1. Head(events).down \in BOOLEAN
        <5>1. events # <<>>
          BY <3>2 DEF TakeKey, Taking
        <5>2. Head(events) \in S
          BY <1>0, <5>1, Taken
        <5> QED BY <5>2
      <4> QED BY <3>2, <4>1 DEF TakeKey, Taking
    <3> QED BY <1>3, <3>1, <3>2
  <2>2. /\ Head(events) = events[1] /\ Len(events) > 0 /\ Len(events') = Len(events) - 1
        /\ \A i \in 1 .. Len(events) - 1 : events'[i] = events[i + 1]
    BY <1>0, <2>1, Taken
  <2>3. \A key : \A from \in 2 .. Len(events) + 1 :
          Told(events, held, key, from) => Told(events', held', key, from - 1)
    BY <1>0, <2>1, ToldAfterTaking
  <2>4. ASSUME NEW key \in inUse, (key \in down') # (key \in held') PROVE Told(events', held', key, 1)
    <3>1. CASE key = Head(events).key
      <4>1. events[1].key = key /\ events[1].down # (key \in held)
        BY <2>1, <2>2, <2>4, <3>1
      <4>2. Told(events, held, key, 2)
        BY <1>0, <2>2, <4>1 DEF EventsSettle
      <4>3. 2 \in 2 .. Len(events) + 1 /\ 2 - 1 = 1
        BY <1>0, <2>2
      <4> QED BY <2>3, <4>2, <4>3
    <3>2. CASE key # Head(events).key
      <4>1. Told(events, held, key, 1)
        BY <2>1, <2>4, <3>2 DEF EventsSettle
      <4>2. PICK i \in 1 .. Len(events) : events[i] = Event(key, key \in held)
        BY <4>1 DEF Told
      <4>3. i # 1
        BY <2>2, <3>2, <4>2 DEF Event
      <4>4. Told(events, held, key, 2) /\ 2 \in 2 .. Len(events) + 1 /\ 2 - 1 = 1
        BY <1>0, <4>2, <4>3 DEF Told
      <4> QED BY <2>3, <4>4
    <3> QED BY <3>1, <3>2
  <2>5. ASSUME NEW i \in 1 .. Len(events'), events'[i].key # TextEvent,
               events'[i].down # (events'[i].key \in held')
        PROVE  Told(events', held', events'[i].key, i + 1)
    <3>1. events'[i] = events[i + 1] /\ i + 1 \in 1 .. Len(events)
      BY <1>0, <2>2
    <3>2. Told(events, held, events[i + 1].key, (i + 1) + 1)
      BY <2>1, <2>5, <3>1 DEF EventsSettle
    <3>3. (i + 1) + 1 \in 2 .. Len(events) + 1 /\ ((i + 1) + 1) - 1 = i + 1
      BY <1>0, <3>1
    <3> QED BY <2>3, <3>1, <3>2, <3>3
  <2> QED BY <2>1, <2>4, <2>5 DEF EventsSettle
<1>4. CASE EndPolling
  BY <1>1, <1>4 DEF EndPolling, inputVars
<1>5. CASE RunTimeSlice
  BY <1>1, <1>5 DEF RunTimeSlice, inputVars
<1>6. ASSUME NEW key \in Keys, Handle(key) PROVE EventsSettle'
  BY <1>1, <1>6, Handling
<1> QED BY <1>2, <1>3, <1>4, <1>5, <1>6, Steps

\* The cells that CellsFollow is about, and what it says of one.
Watched(cell) == /\ cell \in {Items[pro_key][key] : key \in inUse \ (Shifts \cup Ctrls)} \ {NoCell}
                 /\ KeysOf(cell) \cap astray = {}
Follows(cell) == /\ cell \in keypadmatrix => KeysOf(cell) \cap (down \cup walk) # {}
                 /\ \A key \in inUse : KeysOf(cell) = {key} /\ key \in down /\ key \notin walk
                                         => cell \in keypadmatrix

LEMMA CellByCell == /\ CellsFollow <=> \A cell : Watched(cell) => Follows(cell)
                    /\ CellsFollow' <=> \A cell : Watched(cell)' => Follows(cell)'
BY DEF CellsFollow, Watched, Follows

LEMMA CellsStep == KeysTypeOK /\ MapIsLast /\ CellsFollow /\ [Next]_vars => CellsFollow'
<1> SUFFICES ASSUME KeysTypeOK, MapIsLast, CellsFollow, [Next]_vars,
                    NEW cell, Watched(cell)'
             PROVE  Follows(cell)'
  BY CellByCell
<1>1. ASSUME UNCHANGED <<inUse, pro_key, astray, keypadmatrix, down, walk>> PROVE Follows(cell)'
  BY <1>1, CellByCell DEF Watched, Follows, KeysOf
<1>2. CASE UserStep
  BY <1>1, <1>2 DEF UserStep, loopVars, keyVars
<1>3. CASE TakeKey
  <2>1. /\ UNCHANGED <<inUse, pro_key, astray, keypadmatrix>> /\ walk = {} /\ last'.key \in walk'
        /\ \A key : key # last'.key => (key \in down' <=> key \in down)
    BY <1>3 DEF TakeKey, Taking, keyVars
  <2>2. KeysOf(cell)' = KeysOf(cell) /\ Watched(cell)
    BY <2>1 DEF KeysOf, Watched
  <2>3. Follows(cell)
    BY <2>2, CellByCell
  <2> QED BY <2>1, <2>2, <2>3 DEF Follows
<1>4. CASE TakeText
  BY <1>1, <1>4 DEF TakeText, Taking, keyVars
<1>5. CASE EndPolling
  BY <1>1, <1>5 DEF EndPolling, inputVars, keyVars
<1>6. CASE RunTimeSlice
  BY <1>1, <1>6 DEF RunTimeSlice, inputVars
<1>7. ASSUME NEW key \in Keys, Handle(key) PROVE Follows(cell)'
  <2>1. /\ key \in inUse /\ mp[key] = (key \in down) /\ walk' = walk \ {key}
        /\ UNCHANGED <<inUse, down>>
    BY <1>7, Handling DEF KeysTypeOK, MapIsLast
  <2>2. ASSUME key \notin KeysOf(cell), pro_key' = pro_key, astray \subseteq astray' \cup {key},
               cell \in keypadmatrix' <=> cell \in keypadmatrix
        PROVE  Follows(cell)'
    <3>1. KeysOf(cell)' = KeysOf(cell)
      BY <2>1, <2>2 DEF KeysOf
    <3>2. Watched(cell)
      BY <2>1, <2>2, <3>1 DEF Watched
    <3>3. Follows(cell)
      BY <3>2, CellByCell
    <3> QED BY <2>1, <2>2, <3>1, <3>3 DEF Follows
  <2>3. CASE HandleModifier(key)
    BY <2>2, <2>3 DEF HandleModifier, keyVars, KeysOf
  <2>4. CASE ConsoleTakes(key) \/ ResetButton(key)
    <3>1. astray' = astray \cup {key} /\ UNCHANGED <<pro_key, keypadmatrix>>
      BY <2>4 DEF ConsoleTakes, ResetButton
    <3>2. key \notin KeysOf(cell)
      BY <2>1, <3>1 DEF Watched, KeysOf
    <3> QED BY <2>2, <3>1, <3>2
  <2>5. CASE GuestKey(key)
    <3>1. astray' = IF pro_key' = pro_key THEN astray \ {key} ELSE inUse
      BY <2>5 DEF GuestKey
    <3>2. key \notin Shifts \cup Ctrls
      BY <2>5 DEF GuestKey, GuestTurn
    <3>3. pro_key' = pro_key
      BY <2>1, <3>1 DEF Watched, KeysOf
    <3>4. cell # NoCell
      BY DEF Watched
    <3>5. CASE Items[pro_key][key] # cell
      <4>1. cell \in keypadmatrix' <=> cell \in keypadmatrix
        BY <2>5, <3>5 DEF GuestKey, SetKeyWayback
      <4>2. key \notin KeysOf(cell)
        BY <3>5 DEF KeysOf
      <4> QED BY <2>2, <3>1, <3>3, <4>1, <4>2
    <3>6. CASE Items[pro_key][key] = cell
      <4>1. cell \in keypadmatrix' <=> key \in down
        BY <2>1, <2>5, <3>4, <3>6 DEF GuestKey, SetKeyWayback
      <4>2. key \in KeysOf(cell)'
        BY <2>1, <3>2, <3>3, <3>6 DEF KeysOf
      <4> QED BY <2>1, <4>1, <4>2 DEF Follows
    <3> QED BY <3>5, <3>6
  <2> QED BY <1>7, <2>3, <2>4, <2>5 DEF Handle
<1> QED BY <1>2, <1>3, <1>4, <1>5, <1>6, <1>7, Steps

LEMMA SdlStep == SdlInv /\ [Next]_vars => SdlInv'
BY KeysTypeStep, SettleStep, MapStep, ModifiersStep, CellsStep DEF SdlInv

\* With the queue empty no event can be missing, and with the map handled no
\* key: what CellsFollow says of the keys that are down is what the matrix
\* shows of the keys that are held.
LEMMA SdlInvSuffices == SdlInv => MatrixFollowsKeys
<1> SUFFICES ASSUME SdlInv, Drained PROVE
               \A cell \in {Items[pro_key][key] : key \in inUse \ (Shifts \cup Ctrls)} \ {NoCell} :
                 KeysOf(cell) \cap astray = {} =>
                   /\ cell \in keypadmatrix => KeysOf(cell) \cap held # {}
                   /\ KeysOf(cell) \subseteq held /\ (\E key \in inUse : KeysOf(cell) = {key})
                        => cell \in keypadmatrix
  BY DEF MatrixFollowsKeys
<1>1. \A key \in inUse : key \in down <=> key \in held
  <2>1. Len(events) = 0
    BY EmptySeq DEF Drained
  <2>2. \A key : ~Told(events, held, key, 1)
    BY <2>1 DEF Told
  <2> QED BY <2>2 DEF SdlInv, EventsSettle
<1>2. walk = {}
  BY DEF Drained
<1> QED BY <1>1, <1>2 DEF SdlInv, CellsFollow, KeysOf

\* The matrix follows the keys: the events of a key are taken one after the
\* other, each is handled before the next is taken, and the map holds the last.
THEOREM MatrixAlwaysFollowsKeys == Spec => []MatrixFollowsKeys
<1>1. SdlInv /\ [Next]_vars => SdlInv'
  BY SdlStep
<1> QED BY <1>1, SdlInitially, SdlInvSuffices, PTL DEF Spec

\* Whoever presses the reset button holds F12, and a Shift and a Ctrl up to the
\* event that is being handled.
THEOREM ResetAlwaysNeedsChord == Spec => ResetNeedsChord
<1>1. ASSUME SdlInv, NEW key \in Keys, ResetButton(key), mp[key]
      PROVE  /\ F12 \in down
             /\ Shifts \cap (down \cup {last.key}) # {}
             /\ Ctrls \cap (down \cup {last.key}) # {}
  <2>1. key = F12 /\ shift_down /\ ctrl_down /\ key \in DOMAIN mp
    BY <1>1 DEF ResetButton, Chord, GuestTurn, Turn, SdlInv, KeysTypeOK
  <2> QED BY <1>1, <2>1 DEF SdlInv, MapIsLast, ModifiersKnown
<1>2. SdlInv => [\A key \in Keys : ResetButton(key) /\ mp[key] =>
                   /\ F12 \in down
                   /\ Shifts \cap (down \cup {last.key}) # {}
                   /\ Ctrls \cap (down \cup {last.key}) # {}]_vars
  BY <1>1
<1>3. SdlInv /\ [Next]_vars => SdlInv'
  BY SdlStep
<1> QED BY <1>2, <1>3, SdlInitially, PTL DEF Spec, ResetNeedsChord
=============================================================================
