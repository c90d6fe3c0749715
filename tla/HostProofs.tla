------------------------------ MODULE HostProofs ------------------------------
(***************************************************************************)
(* Proofs about Pacing, for every backlog, every limit and every way in    *)
(* which time passes: the guest's bursts are bounded, and its clock is set *)
(* before a second slice runs on a wrong one.  And about Display: its      *)
(* address and the CPU's speed are what the registers say.                 *)
(***************************************************************************)
EXTENDS Pacing, Display, TLAPS

(* The main loop *)

\* Least() of integers is the smaller of them.
LEMMA LeastIs ==
    ASSUME NEW a \in Int, NEW b \in Int
    PROVE  /\ Least(a, b) \in {a, b}
           /\ Least(a, b) <= a /\ Least(a, b) <= b
  BY DEF Least

\* What time that passes does to the variables it touches.
LEMMA PassesDoes ==
    ASSUME PacingTypeOK, NEW d \in Nat, Passes(d)
    PROVE  /\ idle' \in Nat
           /\ burst' \in Nat /\ burst' <= burst
           /\ burst' + d <= burst \/ burst' = 0
           /\ moved' \in Int
           /\ moved' = moved \/ (moved >= 0 /\ moved <= JumpAbove /\ moved' = moved + d)
  <1>1. idle + d \in Nat /\ IdleAbove + 1 \in Nat
    BY PacingAssumption DEF PacingTypeOK
  <1>2. idle' \in Nat
    BY <1>1, LeastIs DEF Passes
  <1>3. QED
    BY <1>2, PacingAssumption DEF PacingTypeOK, Passes

\* The types hold initially and in every step.
LEMMA PacingInitInv == PacingInit => PacingInv
  <1> SUFFICES ASSUME PacingInit PROVE PacingInv
    OBVIOUS
  <1>0. Backlog \in Nat
    BY PacingAssumption
  <1> USE <1>0 DEF PacingInit
  <1>1. PacingTypeOK
    <2>1. /\ build \in {"sdl", "fb"} /\ phase \in {"check", "work", "events", "turn"}
          /\ lag \in Nat /\ idle \in Nat /\ moved \in Int /\ burst \in Nat /\ unsynced \in Nat
      OBVIOUS
    <2>2. /\ read \in BOOLEAN /\ power_save \in BOOLEAN /\ fast_forward \in BOOLEAN
          /\ keys \in BOOLEAN /\ jumped \in BOOLEAN
      BY Zenon
    <2>3. QED
      BY <2>1, <2>2 DEF PacingTypeOK
  <1>2. BurstAndLag
    BY DEF BurstAndLag, Covered
  <1>3. JumpKnown
    BY DEF JumpKnown, MovedMost
  <1>4. UnsyncedKnown
    BY DEF UnsyncedKnown
  <1>5. QED
    BY <1>1, <1>2, <1>3, <1>4 DEF PacingInv

\* The end of an iteration: the delay that is left, and the time slept.
LEMMA TurnDoes ==
    ASSUME PacingTypeOK, Turn
    PROVE  \/ /\ lag' \in Nat /\ lag' <= Backlog /\ (lag' <= lag - 1 \/ burst' = 0)
              /\ burst' = burst \/ burst' = 0
              /\ UNCHANGED <<idle, moved>>
           \/ \E d \in 0 .. MaxPass - 1 : lag = 0 /\ Passes(1 + d) /\ lag' = d
  <1> USE PacingAssumption DEF PacingTypeOK
  <1> DEFINE late == IF build = "sdl" /\ fast_forward THEN 0 ELSE Behind(lag - 1)
  <1>1. Behind(lag - 1) \in Int /\ Behind(lag - 1) <= lag - 1 /\ Behind(lag - 1) <= Backlog
        /\ Behind(lag - 1) \in {lag - 1, Backlog}
    BY LeastIs DEF Behind
  <1>2. CASE late >= 0
    <2>1. lag' = late /\ UNCHANGED <<idle, moved>>
          /\ burst' = IF build = "sdl" /\ fast_forward THEN 0 ELSE burst
      BY <1>2 DEF Turn
    <2>2. QED
      BY <1>1, <1>2, <2>1
  <1>3. CASE ~(late >= 0)
    <2>1. lag = 0 /\ late = -1
      BY <1>1, <1>3
    <2>2. Least(- late, Backlog) = 1
      BY <2>1 DEF Least
    <2>3. PICK d \in 0 .. MaxPass - 1 : /\ Passes(Least(- late, Backlog) + d)
                                        /\ lag' = late + Least(- late, Backlog) + d
      BY <1>3 DEF Turn
    <2>4. Passes(1 + d) /\ lag' = d
      BY <2>1, <2>2, <2>3
    <2>5. QED
      BY <2>1, <2>4
  <1>4. QED
    BY <1>2, <1>3

-----------------------------------------------------------------------------
(* The types *)

\* The types hold in every step.
LEMMA PacingTypes ==
    ASSUME PacingTypeOK, [PacingNext]_paceVars
    PROVE  PacingTypeOK'
  <1> USE DEF mode, clocks
  <1>0. Backlog \in Nat /\ Nap \in Nat /\ MaxPass \in Nat \ {0} /\ Jumps \subseteq Int
    BY PacingAssumption
  <1>1. CASE TimePasses
    <2>1. PICK d \in 1 .. MaxPass : Passes(d) /\ lag' = lag + d
      BY <1>1 DEF TimePasses
    <2>2. UNCHANGED <<phase, mode, read, keys, jumped, unsynced>>
      BY <1>1 DEF TimePasses
    <2>3. d \in Nat
      BY <1>0
    <2>4. idle' \in Nat /\ burst' \in Nat /\ moved' \in Int
      BY <2>1, <2>3, PassesDoes
    <2>5. lag' \in Nat
      BY <2>1, <2>3 DEF PacingTypeOK
    <2>6. QED
      BY <2>2, <2>4, <2>5 DEF PacingTypeOK
  <1>2. CASE WallClockJumps
    <2>1. PICK j \in Jumps : /\ moved' = moved + j /\ jumped' = TRUE
                             /\ unsynced' = IF unsynced = 0 THEN 1 ELSE unsynced
      BY <1>2 DEF WallClockJumps
    <2>2. UNCHANGED <<phase, mode, lag, idle, read, keys, burst>>
      BY <1>2 DEF WallClockJumps
    <2>3. moved' \in Int /\ unsynced' \in Nat
      BY <1>0, <2>1 DEF PacingTypeOK
    <2>4. jumped' \in BOOLEAN
      BY <2>1
    <2>5. QED
      BY <2>2, <2>3, <2>4 DEF PacingTypeOK
  <1>3. CASE KeyArrives
    BY <1>3 DEF KeyArrives, PacingTypeOK
  <1>4. CASE CheckWallClock
    <2>1. /\ phase' = "work" /\ unsynced' \in {0, unsynced} /\ moved' = 0
          /\ read' = TRUE /\ jumped' = FALSE
          /\ UNCHANGED <<mode, lag, idle, keys, burst>>
      BY <1>4 DEF CheckWallClock, Sync
    <2>2. read' \in BOOLEAN /\ jumped' \in BOOLEAN
      BY <2>1
    <2>3. QED
      BY <2>1, <2>2 DEF PacingTypeOK
  <1>5. CASE RunTimeSlice
    <2>1. /\ phase' \in {"events", "turn"} /\ burst' = burst + 1
          /\ unsynced' = IF unsynced = 0 THEN 0 ELSE Least(unsynced + 1, 3)
          /\ UNCHANGED <<mode, clocks, keys>>
      BY <1>5 DEF RunTimeSlice, AfterWork
    <2>2. burst' \in Nat
      BY <2>1 DEF PacingTypeOK
    <2>3. unsynced' \in Nat
      BY <2>1 DEF PacingTypeOK, Least
    <2>4. QED
      BY <2>1, <2>2, <2>3 DEF PacingTypeOK
  <1>6. CASE NapInstead
    <2>1. /\ phase' \in {"events", "turn"} /\ Passes(Nap) /\ lag' = lag + Nap
          /\ unsynced' = IF unsynced = 0 THEN 1 ELSE unsynced
          /\ UNCHANGED <<mode, read, keys, jumped>>
      BY <1>6 DEF NapInstead, AfterWork
    <2>2. idle' \in Nat /\ burst' \in Nat /\ moved' \in Int
      BY <1>0, <2>1, PassesDoes
    <2>3. lag' \in Nat /\ unsynced' \in Nat
      BY <1>0, <2>1 DEF PacingTypeOK
    <2>4. QED
      BY <2>1, <2>2, <2>3 DEF PacingTypeOK
  <1>7. CASE HandleEvents
    <2>1. /\ phase' = "turn" /\ idle' \in {0, idle} /\ unsynced' \in {0, unsynced}
          /\ UNCHANGED <<build, lag, moved, read, jumped, burst>>
      BY <1>7 DEF HandleEvents, Sync
    <2>2. keys' \in BOOLEAN /\ power_save' \in BOOLEAN
      <3>1. keys' = FALSE /\ power_save' = (idle' > IdleAbove)
        BY <1>7 DEF HandleEvents
      <3>2. (idle' > IdleAbove) \in BOOLEAN
        OBVIOUS
      <3>3. QED
        BY <3>1, <3>2
    <2>3. fast_forward' \in BOOLEAN
      BY <1>7 DEF HandleEvents, PacingTypeOK
    <2>4. QED
      BY <2>1, <2>2, <2>3 DEF PacingTypeOK
  <1>8. CASE Turn
    <2>1. phase' \in {"check", "work"} /\ UNCHANGED <<mode, read, keys, unsynced>>
      BY <1>8 DEF Turn
    <2>2. UNCHANGED jumped
      BY <1>8 DEF Turn
    <2>3. lag' \in Nat /\ idle' \in Nat /\ moved' \in Int /\ burst' \in Nat
      <3>1. CASE lag' \in Nat /\ burst' \in {burst, 0} /\ UNCHANGED <<idle, moved>>
        BY <3>1 DEF PacingTypeOK
      <3>2. CASE \E d \in 0 .. MaxPass - 1 : Passes(1 + d) /\ lag' = d
        <4>1. PICK d \in 0 .. MaxPass - 1 : Passes(1 + d) /\ lag' = d
          BY <3>2
        <4>2. 1 + d \in Nat /\ d \in Nat
          BY <1>0
        <4>3. QED
          BY <4>1, <4>2, PassesDoes
      <3>3. QED
        BY <1>8, <3>1, <3>2, TurnDoes
    <2>4. QED
      BY <2>1, <2>2, <2>3 DEF PacingTypeOK
  <1>9. CASE UNCHANGED paceVars
    BY <1>9 DEF paceVars, PacingTypeOK
  <1>10. QED
    BY <1>1, <1>2, <1>3, <1>4, <1>5, <1>6, <1>7, <1>8, <1>9 DEF PacingNext, Iterate

-----------------------------------------------------------------------------
(* BurstBounded *)

\* Time that passes moves slices from the burst to the delay.
LEMMA CoveredStays ==
    ASSUME NEW b \in Nat, NEW next \in Nat, NEW l \in Nat, NEW d \in Nat, NEW more \in 0 .. 1,
           next + d <= b \/ next = 0,
           Covered(b, l, more)
    PROVE  Covered(next, l + d, more)
  BY PacingAssumption DEF Covered

\* A slice lengthens the burst.
LEMMA CoveredAhead ==
    ASSUME NEW b \in Nat, NEW l \in Nat, Covered(b, l, 0)
    PROVE  Covered(b, l, 1) /\ Covered(b + 1, l, 1)
  BY PacingAssumption DEF Covered

\* The end of the turn takes it out of the delay.
LEMMA CoveredTurn ==
    ASSUME NEW b \in Nat, NEW next \in Nat, NEW l \in Nat, NEW left \in Nat,
           next = b \/ next = 0,
           left <= Backlog, left <= l - 1 \/ next = 0,
           Covered(b, l, 1)
    PROVE  Covered(next, left, 0)
  BY PacingAssumption DEF Covered

\* So does sleeping, for a guest that is not behind.
LEMMA CoveredSleep ==
    ASSUME NEW b \in Nat, NEW next \in Nat, NEW d \in Nat,
           next + (1 + d) <= b \/ next = 0,
           Covered(b, 0, 1)
    PROVE  Covered(next, d, 0)
  BY PacingAssumption DEF Covered

\* No step breaks the bound on the burst and the delay.
LEMMA BurstStep ==
    ASSUME PacingTypeOK, BurstAndLag, [PacingNext]_paceVars
    PROVE  BurstAndLag'
  <1> USE DEF mode, clocks
  <1> DEFINE more == IF Ahead THEN 1 ELSE 0
  <1>0. Backlog \in Nat /\ Nap \in Nat /\ MaxPass \in Nat \ {0}
    BY PacingAssumption
  <1>a. lag \in Nat /\ burst \in Nat /\ lag' \in Nat /\ burst' \in Nat
    BY PacingTypes DEF PacingTypeOK
  <1>b. Covered(burst, lag, more) /\ more \in 0 .. 1
    BY DEF BurstAndLag
  <1>1. CASE TimePasses
    <2>1. PICK d \in 1 .. MaxPass : Passes(d) /\ lag' = lag + d
      BY <1>1 DEF TimePasses
    <2>2. more' = more
      BY <1>1 DEF TimePasses, Ahead
    <2>3. d \in Nat
      BY <1>0
    <2>4. burst' + d <= burst \/ burst' = 0
      BY <2>1, <2>3, PassesDoes
    <2>5. Covered(burst', lag + d, more)
      BY <1>a, <1>b, <2>3, <2>4, CoveredStays
    <2>6. lag' = lag + d
      BY <2>1
    <2>7. QED
      BY <2>2, <2>5, <2>6 DEF BurstAndLag
  <1>2. CASE WallClockJumps \/ KeyArrives \/ CheckWallClock \/ HandleEvents \/ UNCHANGED paceVars
    <2>1. UNCHANGED <<burst, lag>> /\ Ahead' = Ahead
      BY <1>2 DEF WallClockJumps, KeyArrives, CheckWallClock, HandleEvents, paceVars, Ahead
    <2>2. QED
      BY <2>1 DEF BurstAndLag
  <1>3. CASE RunTimeSlice
    <2>1. ~Ahead /\ Ahead' /\ burst' = burst + 1 /\ lag' = lag
      BY <1>3 DEF RunTimeSlice, AfterWork, Ahead
    <2>2. Covered(burst, lag, 0)
      BY <1>b, <2>1
    <2>3. Covered(burst + 1, lag, 1)
      BY <1>a, <2>2, CoveredAhead
    <2>4. QED
      BY <2>1, <2>3 DEF BurstAndLag
  <1>4. CASE NapInstead
    <2>1. ~Ahead /\ Ahead' /\ Passes(Nap) /\ lag' = lag + Nap
      BY <1>4 DEF NapInstead, AfterWork, Ahead
    <2>2. burst' + Nap <= burst \/ burst' = 0
      BY <1>0, <2>1, PassesDoes
    <2>3. Covered(burst, lag, 0)
      BY <1>b, <2>1
    <2>4. Covered(burst', lag + Nap, 0)
      <3>1. Nap \in Nat /\ 0 \in 0 .. 1
        BY <1>0
      <3>2. QED
        BY <1>a, <2>2, <2>3, <3>1, CoveredStays
    <2>5. lag + Nap \in Nat
      BY <1>0, <1>a
    <2>6. Covered(burst', lag + Nap, 1)
      BY <1>a, <2>4, <2>5, CoveredAhead
    <2>7. lag' = lag + Nap /\ Ahead'
      BY <2>1
    <2>8. QED
      BY <2>6, <2>7 DEF BurstAndLag
  <1>5. CASE Turn
    <2>1. Ahead /\ ~Ahead'
      BY <1>5 DEF Turn, Ahead
    <2>2. Covered(burst, lag, 1)
      BY <1>b, <2>1
    <2>3. Covered(burst', lag', 0)
      <3>1. CASE /\ lag' \in Nat /\ lag' <= Backlog /\ (lag' <= lag - 1 \/ burst' = 0)
                 /\ burst' = burst \/ burst' = 0
        BY <1>a, <2>2, <3>1, CoveredTurn
      <3>2. CASE \E d \in 0 .. MaxPass - 1 : lag = 0 /\ Passes(1 + d) /\ lag' = d
        <4>1. PICK d \in 0 .. MaxPass - 1 : lag = 0 /\ Passes(1 + d) /\ lag' = d
          BY <3>2
        <4>2. 1 + d \in Nat /\ d \in Nat
          BY <1>0
        <4>3. burst' + (1 + d) <= burst \/ burst' = 0
          BY <4>1, <4>2, PassesDoes
        <4>4. Covered(burst, 0, 1)
          BY <2>2, <4>1
        <4>5. Covered(burst', d, 0)
          BY <1>a, <4>2, <4>3, <4>4, CoveredSleep
        <4>6. QED
          BY <4>1, <4>5
      <3>3. QED
        BY <1>5, <3>1, <3>2, TurnDoes
    <2>4. QED
      BY <2>1, <2>3 DEF BurstAndLag
  <1>6. QED
    BY <1>1, <1>2, <1>3, <1>4, <1>5 DEF PacingNext, Iterate
-----------------------------------------------------------------------------
(* ResumeSyncs *)

\* A jump of the wall clock takes it out of the range in which the loop's own
\* steps keep it, and nothing but the look at it brings it back.
LEMMA JumpStep ==
    ASSUME PacingTypeOK, JumpKnown, [PacingNext]_paceVars
    PROVE  JumpKnown'
  <1> USE DEF mode, clocks, MovedMost
  <1>0. /\ Backlog \in Nat /\ Nap \in Nat /\ MaxPass \in Nat \ {0} /\ JumpAbove \in Nat
        /\ Jumps \subseteq Int
        /\ \A j \in Jumps : j < - (5 * MaxPass + 2 * Nap) \/ j > JumpAbove
    BY PacingAssumption
  <1>a. moved \in Int
    BY DEF PacingTypeOK
  <1>1. CASE TimePasses
    <2>1. PICK d \in 1 .. MaxPass : /\ Passes(d)
                                    /\ moved + d <= 4 * MaxPass + Nap \/ moved > JumpAbove \/ moved < 0
      BY <1>1 DEF TimePasses
    <2>2. UNCHANGED <<phase, build, read, jumped>>
      BY <1>1 DEF TimePasses
    <2>3. d \in Nat
      BY <1>0
    <2>4. moved' \in Int /\ (moved' = moved
             \/ (moved >= 0 /\ moved <= JumpAbove /\ moved' = moved + d))
      BY <2>1, <2>3, PassesDoes
    <2>5. QED
      BY <1>0, <1>a, <2>1, <2>2, <2>3, <2>4 DEF JumpKnown
  <1>2. CASE WallClockJumps
    <2>1. PICK j \in Jumps : moved' = moved + j
      BY <1>2 DEF WallClockJumps
    <2>2. build = "sdl" /\ read /\ ~jumped /\ jumped' = TRUE /\ UNCHANGED <<phase, build, read>>
      BY <1>2 DEF WallClockJumps
    <2>3. 0 <= moved /\ moved <= 5 * MaxPass + 2 * Nap
      BY <1>0, <1>a, <2>2 DEF JumpKnown
    <2>4. moved' < 0 \/ moved' > JumpAbove
      BY <1>0, <1>a, <2>1, <2>3
    <2>5. QED
      BY <2>2, <2>4 DEF JumpKnown
  <1>3. CASE KeyArrives \/ UNCHANGED paceVars
    BY <1>3 DEF KeyArrives, paceVars, JumpKnown
  <1>4. CASE CheckWallClock
    BY <1>0, <1>4 DEF CheckWallClock, JumpKnown
  <1>5. CASE RunTimeSlice
    BY <1>0, <1>a, <1>5 DEF RunTimeSlice, AfterWork, JumpKnown
  <1>6. CASE NapInstead
    <2>1. phase = "work" /\ AfterWork /\ Passes(Nap) /\ UNCHANGED <<build, read, jumped>>
      BY <1>6 DEF NapInstead
    <2>2. moved' \in Int /\ (moved' = moved
             \/ (moved >= 0 /\ moved <= JumpAbove /\ moved' = moved + Nap))
      BY <1>0, <2>1, PassesDoes
    <2>3. QED
      BY <1>0, <1>a, <2>1, <2>2 DEF JumpKnown, AfterWork
  <1>7. CASE HandleEvents
    BY <1>0, <1>a, <1>7 DEF HandleEvents, JumpKnown
  <1>8. CASE Turn
    <2>1. /\ phase = "turn" /\ phase' = IF build = "sdl" THEN "check" ELSE "work"
          /\ UNCHANGED <<build, read, jumped>>
      BY <1>8 DEF Turn
    <2>2. moved' = moved \/ (moved >= 0 /\ moved <= JumpAbove
                             /\ \E d \in 0 .. MaxPass - 1 : moved' = moved + 1 + d)
      <3>1. CASE moved' = moved
        BY <3>1
      <3>2. CASE \E d \in 0 .. MaxPass - 1 : Passes(1 + d)
        <4>1. PICK d \in 0 .. MaxPass - 1 : Passes(1 + d)
          BY <3>2
        <4>2. 1 + d \in Nat
          BY <1>0
        <4>3. QED
          BY <1>a, <4>1, <4>2, PassesDoes
      <3>3. QED
        BY <1>8, <3>1, <3>2, TurnDoes
    <2>3. CASE build = "fb"
      <3>1. ~read /\ phase' = "work"
        BY <2>1, <2>3 DEF JumpKnown
      <3>2. ~jumped => moved' >= 0
        BY <1>0, <1>a, <2>2 DEF JumpKnown
      <3>3. ~jumped
        BY <3>1 DEF JumpKnown
      <3>4. QED
        BY <2>1, <3>1, <3>2, <3>3 DEF JumpKnown
    <2>4. CASE build = "sdl"
      <3>1. phase' = "check"
        BY <2>1, <2>4
      <3>2. jumped => read /\ (moved' < 0 \/ moved' > JumpAbove)
        BY <1>0, <1>a, <2>2 DEF JumpKnown
      <3>3. ~jumped => moved' >= 0
        BY <1>0, <1>a, <2>2 DEF JumpKnown
      <3>4. read /\ ~jumped => moved <= 4 * MaxPass + 2 * Nap
        BY <1>0, <1>a, <2>1 DEF JumpKnown
      <3>5. read /\ ~jumped => moved' <= 5 * MaxPass + 2 * Nap
        BY <1>0, <1>a, <2>2, <3>4
      <3>6. QED
        BY <1>0, <2>1, <2>4, <3>1, <3>2, <3>3, <3>5 DEF JumpKnown
    <2>5. QED
      BY <2>3, <2>4 DEF PacingTypeOK
  <1>9. QED
    BY <1>1, <1>2, <1>3, <1>4, <1>5, <1>6, <1>7, <1>8 DEF PacingNext, Iterate

\* The guest's clock is wrong only while a jump is pending or the guest stands
\* still.
LEMMA UnsyncedStep ==
    ASSUME PacingTypeOK, JumpKnown, UnsyncedKnown, [PacingNext]_paceVars
    PROVE  UnsyncedKnown'
  <1> USE DEF mode, clocks
  <1>a. unsynced \in Nat
    BY DEF PacingTypeOK
  <1>1. CASE TimePasses \/ KeyArrives \/ UNCHANGED paceVars
    BY <1>1 DEF TimePasses, KeyArrives, paceVars, UnsyncedKnown
  <1>2. CASE WallClockJumps
    BY <1>a, <1>2 DEF WallClockJumps, UnsyncedKnown
  <1>3. CASE CheckWallClock
    <2>1. jumped => unsynced' = 0
      BY <1>3 DEF CheckWallClock, Sync, Jumped, JumpKnown
    <2>2. unsynced' \in {0, unsynced} /\ phase' = "work" /\ UNCHANGED mode
      BY <1>3 DEF CheckWallClock, Sync
    <2>3. QED
      BY <1>a, <2>1, <2>2 DEF UnsyncedKnown
  <1>4. CASE RunTimeSlice
    <2>1. /\ phase = "work" /\ ~power_save /\ phase' \in {"events", "turn"}
          /\ unsynced' = IF unsynced = 0 THEN 0 ELSE Least(unsynced + 1, 3)
          /\ UNCHANGED <<mode, clocks>>
      BY <1>4 DEF RunTimeSlice, AfterWork
    <2>2. CASE unsynced = 0
      BY <2>1, <2>2 DEF UnsyncedKnown
    <2>3. CASE unsynced # 0
      <3>1. unsynced = 1 /\ jumped
        BY <1>a, <2>1, <2>3 DEF UnsyncedKnown
      <3>2. unsynced' = 2
        BY <2>1, <3>1 DEF Least
      <3>3. QED
        BY <2>1, <3>1, <3>2 DEF UnsyncedKnown
    <2>4. QED
      BY <2>2, <2>3
  <1>5. CASE NapInstead
    <2>1. /\ phase = "work" /\ power_save /\ phase' \in {"events", "turn"}
          /\ unsynced' = IF unsynced = 0 THEN 1 ELSE unsynced
          /\ UNCHANGED <<mode, jumped>>
      BY <1>5 DEF NapInstead, AfterWork
    <2>2. QED
      BY <1>a, <2>1 DEF UnsyncedKnown
  <1>6. CASE HandleEvents
    <2>1. /\ phase' = "turn" /\ jumped' = jumped
          /\ unsynced' = IF power_save /\ ~power_save' THEN 0 ELSE unsynced
      BY <1>6 DEF HandleEvents, Sync
    <2>2. phase = "events" /\ unsynced <= 2
      BY <1>6 DEF HandleEvents, UnsyncedKnown
    <2>3. unsynced' > 0 => jumped \/ power_save'
      BY <1>a, <2>1 DEF UnsyncedKnown
    <2>4. unsynced' > 1 => jumped
      BY <1>a, <2>1 DEF UnsyncedKnown
    <2>5. unsynced' <= 2
      BY <2>1, <2>2
    <2>6. QED
      BY <2>1, <2>3, <2>4, <2>5 DEF UnsyncedKnown
  <1>7. CASE Turn
    <2>1. /\ phase = "turn" /\ phase' = (IF build = "sdl" THEN "check" ELSE "work")
          /\ UNCHANGED <<mode, read, unsynced, jumped>>
      BY <1>7 DEF Turn
    <2>2. CASE build = "fb"
      <3>1. ~jumped
        BY <2>2 DEF JumpKnown
      <3>2. QED
        BY <1>a, <2>1, <3>1 DEF UnsyncedKnown
    <2>3. CASE build # "fb"
      BY <1>a, <2>1, <2>3 DEF UnsyncedKnown, PacingTypeOK
    <2>4. QED
      BY <2>2, <2>3
  <1>8. QED
    BY <1>1, <1>2, <1>3, <1>4, <1>5, <1>6, <1>7 DEF PacingNext, Iterate
-----------------------------------------------------------------------------
(* The theorems *)

\* The inductive invariant: types, the burst with the delay, the jump that is
\* pending and the guest's wrong clock.
LEMMA PacingInvariant == PacingSpec => []PacingInv
  <1>1. PacingInv /\ [PacingNext]_paceVars => PacingInv'
    BY PacingTypes, BurstStep, JumpStep, UnsyncedStep DEF PacingInv
  <1>2. QED
    BY PacingInitInv, <1>1, PTL DEF PacingSpec

\* However the host stalls, the guest is never given more than Backlog + 2
\* slices beyond the time that has passed (main_loop()'s 300 ms).
THEOREM BurstIsBounded == PacingSpec => []BurstBounded
  <1>1. PacingInv => BurstBounded
    <2> SUFFICES ASSUME PacingInv PROVE BurstBounded
      OBVIOUS
    <2>1. lag \in Nat /\ burst \in Nat /\ Backlog \in Nat
      BY PacingAssumption DEF PacingInv, PacingTypeOK
    <2>2. Covered(burst, lag, IF Ahead THEN 1 ELSE 0)
      BY DEF PacingInv, BurstAndLag
    <2>3. QED
      BY <2>1, <2>2 DEF Covered, BurstBounded
  <1>2. QED
    BY PacingInvariant, <1>1, PTL

\* After a jump of the wall clock or a nap at most one slice runs before the
\* guest's clock is set (sync_on_resume).
THEOREM ResumeAlwaysSyncs == PacingSpec => []ResumeSyncs
  <1>1. PacingInv => ResumeSyncs
    BY DEF PacingInv, PacingTypeOK, UnsyncedKnown, ResumeSyncs
  <1>2. QED
    BY PacingInvariant, <1>1, PTL
-----------------------------------------------------------------------------
(* The LCD's registers *)

\* The two parts of the address are found again, and replaced one by one.
LEMMA AddressParts ==
    ASSUME NEW mid \in 0 .. 255, NEW high \in 0 .. 3, NEW address, address = high * 4096 + mid * 16
    PROVE  (address \div 16) % 256 = mid /\ (address \div 4096) % 4 = high
  <1>1. address \div 16 = high * 256 + mid
    OBVIOUS
  <1>2. address \div 4096 = high
    OBVIOUS
  <1>3. QED
    BY <1>1, <1>2

LEMMA Masks == ASSUME NEW bits \in 0 .. 3
               PROVE  16383 \div Power2[bits + 1] + 1 = 16384 \div Power2[bits + 1]
  <1>1. Power2[1] = 1 /\ Power2[2] = 2 /\ Power2[3] = 4 /\ Power2[4] = 8
    BY DEF Power2
  <1>2. bits + 1 \in {1, 2, 3, 4}
    OBVIOUS
  <1>3. /\ 16383 \div 1 + 1 = 16384 \div 1 /\ 16383 \div 2 + 1 = 16384 \div 2
        /\ 16383 \div 4 + 1 = 16384 \div 4 /\ 16383 \div 8 + 1 = 16384 \div 8
    OBVIOUS
  <1>4. QED
    BY <1>1, <1>2, <1>3

LEMMA RegistersInvariant == DisplaySpec => []RegistersInv
  <1>1. DisplayInit => RegistersInv
    <2> SUFFICES ASSUME DisplayInit PROVE RegistersInv
      OBVIOUS
    <2>1. RegistersTypeOK /\ MaskMade /\ SpeedHonest
      BY DEF DisplayInit, RegistersTypeOK, MaskMade, SpeedHonest
    <2>2. AddressMade
      <3>1. lcdbuffaddr = 0 * 4096 + 156 * 16 /\ written = {}
        BY DEF DisplayInit
      <3>2. 156 \in 0 .. 255 /\ 0 \in 0 .. 3
        OBVIOUS
      <3>3. QED
        BY <3>1, <3>2 DEF AddressMade
    <2>3. QED
      BY <2>1, <2>2 DEF RegistersInv
  <1>2. RegistersInv /\ [DisplayNext]_displayVars => RegistersInv'
    <2> SUFFICES ASSUME RegistersInv, [DisplayNext]_displayVars PROVE RegistersInv'
      OBVIOUS
    <2> USE DEF RegistersTypeOK, MaskMade, SpeedHonest
    <2>0. RegistersTypeOK /\ AddressMade /\ MaskMade /\ SpeedHonest
      BY DEF RegistersInv
    <2>1. ASSUME NEW select \in Clocks, NEW on \in {0, 1}, Write05ClockCtrl(select, on)
          PROVE  RegistersInv'
      <3>1. select \in 0 .. 7
        BY DisplayAssumption
      <3>2. /\ cks' = select /\ written' = written
            /\ speed_scaledown' = IF select # cks THEN ScaledownOf[select] ELSE speed_scaledown
            /\ UNCHANGED <<io06, io0C, io0B, lcdbuffaddr, lcdbuffaddrmask>>
        BY <2>1 DEF Write05ClockCtrl, Writes
      <3>3. speed_scaledown' \in {1, ScaledownOf[cks']}
        BY <2>0, <3>2
      <3>4. AddressMade'
        BY <2>0, <3>2 DEF AddressMade
      <3>5. QED
        BY <2>0, <3>1, <3>2, <3>3, <3>4 DEF RegistersInv
    <2>2. ASSUME NEW value \in Bytes06, Write06LCDStartAddr(value) PROVE RegistersInv'
      <3>1. value \in 0 .. 255
        BY DisplayAssumption
      <3>2. /\ written' = written \cup {"06"} /\ io06' = value
            /\ lcdbuffaddr' = lcdbuffaddr - ((lcdbuffaddr \div 16) % 256) * 16 + value * 16
            /\ UNCHANGED <<cks, speed_scaledown, io0C, io0B, lcdbuffaddrmask>>
        BY <2>2 DEF Write06LCDStartAddr, Writes
      <3>3. AddressMade'
        <4>1. PICK mid \in 0 .. 255, high \in 0 .. 3 :
                 /\ lcdbuffaddr = high * 4096 + mid * 16
                 /\ "0c" \in written => high = io0C
          BY <2>0 DEF AddressMade
        <4>2. (lcdbuffaddr \div 16) % 256 = mid
          BY <4>1, AddressParts
        <4>3. lcdbuffaddr' = high * 4096 + value * 16
          BY <3>1, <3>2, <4>1, <4>2
        <4>4. "0c" \in written' => high = io0C'
          BY <3>2, <4>1
        <4>5. QED
          BY <3>1, <3>2, <4>3, <4>4 DEF AddressMade
      <3>4. QED
        BY <2>0, <3>1, <3>2, <3>3 DEF RegistersInv
    <2>3. ASSUME NEW low \in Bytes0C, Write0CTimer01Control(low) PROVE RegistersInv'
      <3>1. low \in 0 .. 3
        BY DisplayAssumption
      <3>2. /\ written' = written \cup {"0c"} /\ io0C' = low
            /\ lcdbuffaddr' = lcdbuffaddr - ((lcdbuffaddr \div 4096) % 4) * 4096 + low * 4096
            /\ UNCHANGED <<cks, speed_scaledown, io06, io0B, lcdbuffaddrmask>>
        BY <2>3 DEF Write0CTimer01Control, Writes
      <3>3. AddressMade'
        <4>1. PICK mid \in 0 .. 255, high \in 0 .. 3 :
                 /\ lcdbuffaddr = high * 4096 + mid * 16
                 /\ "06" \in written => mid = io06
          BY <2>0 DEF AddressMade
        <4>2. (lcdbuffaddr \div 4096) % 4 = high
          BY <4>1, AddressParts
        <4>3. lcdbuffaddr' = low * 4096 + mid * 16
          BY <3>1, <3>2, <4>1, <4>2
        <4>4. "06" \in written' => mid = io06'
          BY <3>2, <4>1
        <4>5. QED
          BY <3>1, <3>2, <4>3, <4>4 DEF AddressMade
      <3>4. QED
        BY <2>0, <3>1, <3>2, <3>3 DEF RegistersInv
    <2>4. ASSUME NEW bits \in Bytes0B, NEW enable \in {0, 1}, Write0BPort3LCDStartAddr(bits, enable)
          PROVE  RegistersInv'
      <3>1. bits \in 0 .. 3
        BY DisplayAssumption
      <3>2. /\ written' = written \cup {"0b"} /\ io0B' = bits
            /\ lcdbuffaddrmask' = 16383 \div Power2[bits + 1]
            /\ UNCHANGED <<cks, speed_scaledown, io06, io0C, lcdbuffaddr>>
        BY <2>4 DEF Write0BPort3LCDStartAddr, Writes
      <3>3. AddressMade'
        BY <2>0, <3>2 DEF AddressMade
      <3>4. QED
        BY <2>0, <3>1, <3>2, <3>3 DEF RegistersInv
    <2>5. CASE FullSpeed \/ nc2k_state_warm_reset
      <3>1. /\ speed_scaledown' = 1 /\ cks' \in {cks, 0}
            /\ UNCHANGED <<written, io06, io0C, io0B, lcdbuffaddr, lcdbuffaddrmask>>
        BY <2>5 DEF FullSpeed, nc2k_state_warm_reset
      <3>2. AddressMade'
        BY <2>0, <3>1 DEF AddressMade
      <3>3. QED
        BY <2>0, <3>1, <3>2 DEF RegistersInv
    <2>6. CASE nc2k_state_cold_reset
      <3>1. /\ written' = {} /\ cks' = 0 /\ speed_scaledown' = 1
            /\ io06' = 0 /\ io0C' = 0 /\ io0B' = 0 /\ lcdbuffaddr' = 2496
        BY <2>6 DEF nc2k_state_cold_reset, ColdRegisters
      <3>2. AddressMade'
        <4>1. lcdbuffaddr' = 0 * 4096 + 156 * 16 /\ 156 \in 0 .. 255 /\ 0 \in 0 .. 3
          BY <3>1
        <4>2. QED
          BY <3>1, <4>1 DEF AddressMade
      <3>3. QED
        BY <3>1, <3>2 DEF RegistersInv
    <2>7. CASE UNCHANGED registers
      <3>1. AddressMade'
        BY <2>0, <2>7 DEF registers, AddressMade
      <3>2. QED
        BY <2>0, <2>7, <3>1 DEF registers, RegistersInv
    <2>8. CASE \/ \E buffer \in Buffers, p \in Pictures : Draw(buffer, p)
               \/ ToggleConsole \/ KeyPressed \/ EnterPowerSave \/ LeaveStill \/ RenderStep
               \/ UNCHANGED displayVars
      BY <2>7, <2>8 DEF Draw, ToggleConsole, KeyPressed, EnterPowerSave, LeaveStill, RenderStep,
                       displayVars
    <2>9. QED
      BY <2>1, <2>2, <2>3, <2>4, <2>5, <2>6, <2>8 DEF DisplayNext
  <1>3. QED
    BY <1>1, <1>2, PTL DEF DisplaySpec

\* Whatever the guest writes and whichever resets come in between, the LCD's
\* address and mask and the CPU's speed are what the registers say.
THEOREM RegistersAreObeyed == DisplaySpec => []RegistersObeyed
  <1>1. ASSUME RegistersInv PROVE RegistersObeyed
    <2>1. {"06", "0c"} \subseteq written => lcdbuffaddr = io06 * 16 + io0C * 4096
      <3>1. PICK mid \in 0 .. 255, high \in 0 .. 3 :
               /\ lcdbuffaddr = high * 4096 + mid * 16
               /\ "06" \in written => mid = io06
               /\ "0c" \in written => high = io0C
        BY <1>1 DEF RegistersInv, AddressMade
      <3>2. QED
        BY <3>1
    <2>2. "0b" \in written => lcdbuffaddrmask + 1 = 16384 \div Power2[io0B + 1]
      BY <1>1, Masks DEF RegistersInv, RegistersTypeOK, MaskMade
    <2>3. QED
      BY <1>1, <2>1, <2>2 DEF RegistersInv, RegistersObeyed, AddressAsWritten
  <1>2. QED
    BY <1>1, RegistersInvariant, PTL
=============================================================================
