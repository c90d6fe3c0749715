------------------------------- MODULE Keypad -------------------------------
(***************************************************************************)
(* The ports through which the guest scans its keyboard, on an nc2000 or   *)
(* nc1020: UpdateKeypadRegisters() of src/src/NekoDriverIO.cpp and the     *)
(* registers that lead to it.  Port 1 has a line for every row y of the    *)
(* matrix, port 0 one for every column x.  A line is an output, driven     *)
(* from its latch, or an input, which is low unless a pressed key brings   *)
(* it the level of an output of the other port, or, for the first four     *)
(* columns, unless it is pulled up.                                        *)
(***************************************************************************)
EXTENDS Integers, FiniteSets

CONSTANTS Rows, Columns,  \* lines with keys
          MaxPressed      \* bound: keys held at a time

ASSUME KeypadAssumption == /\ Rows \subseteq 0 .. 7 /\ Columns \subseteq 0 .. 7
                           /\ MaxPressed \in Nat

\* Lines of port 0 that share a direction bit of register 0x0f.
Group(x) == IF x < 2 THEN {x} ELSE IF x < 4 THEN {2, 3} ELSE 4 .. 7
Directions == {d \in SUBSET Columns : \A x \in d : Group(x) \cap Columns \subseteq d}
PullUps == {x \in Columns : x < 4}

VARIABLES pressed,                   \* cells <<y, x>> set in keypadmatrix
          port1_DIR107, port0_DIR,   \* lines that are outputs
          port1_OL, port0_OL,        \* output latches, as sets of high lines
          port1_ID, port0_ID,        \* input registers
          pulled,                    \* columns pulled up, ext_reg[0x24]
          PTYPE                      \* bits 4..6 of register 0x04

latches == <<port1_DIR107, port0_DIR, port1_OL, port0_OL, pulled, PTYPE>>
keypadVars == <<pressed, latches, port1_ID, port0_ID>>

KeypadInit == /\ pressed = {}
              /\ port1_DIR107 = {} /\ port0_DIR = {} /\ port1_OL = {} /\ port0_OL = {}
              /\ port1_ID = {} /\ port0_ID = {}
              /\ pulled = PullUps /\ PTYPE = 0
-----------------------------------------------------------------------------
(* UpdateKeypadRegisters(), for given directions, latches and matrix *)

\* Rows that are outputs and meet the input column x at a pressed key.
Meeting(matrix, dir1, x) == {y \in dir1 : <<y, x>> \in matrix}

\* An input column takes the level of the last row it meets, if it is pulled
\* up, and else that of any high one.
InputHigh(matrix, dir1, out1, up, x) ==
    LET rows == Meeting(matrix, dir1, x)
    IN  IF x \in up THEN rows = {} \/ \E y \in rows \cap out1 : \A other \in rows : other <= y
                    ELSE rows \cap out1 # {}

\* Mutant: what an output is driven to is not masked out of the input lines.
Port0Unmasked(matrix, dir1, out1, dir0, up, was) ==
    was \cup {x \in Columns \ dir0 : InputHigh(matrix, dir1, out1, up, x)}
        \cup (up \cap dir0)

\* A pull-up also makes an output read as high.
Port0(matrix, dir1, out1, dir0, up, was) ==
    (was \cap dir0) \cup {x \in Columns \ dir0 : InputHigh(matrix, dir1, out1, up, x)}
                    \cup (up \cap dir0)

\* An input row is high if it meets a high output column.
Port1(matrix, dir0, out0, dir1, was) ==
    (was \cap dir1) \cup {y \in Rows \ dir1 : \E x \in dir0 \cap out0 : <<y, x>> \in matrix}

\* The registers from what they held before and what else the handler changes.
Update(was1, was0) ==
    /\ port1_ID' = Port1(pressed', port0_DIR', port0_OL', port1_DIR107', was1)
    /\ port0_ID' = Port0(pressed', port1_DIR107', port1_OL', port0_DIR', pulled', was0)
-----------------------------------------------------------------------------
(* The registers *)

\* Reading either port updates both.
ReadPort == /\ UNCHANGED <<pressed, latches>>
            /\ Update(port1_ID, port0_ID)

\* Output lines are passed to the input register at once.
Write08Port0(value) ==
    /\ port0_OL' = value
    /\ UNCHANGED <<pressed, port1_DIR107, port0_DIR, port1_OL, pulled, PTYPE>>
    /\ Update(port1_ID, (port0_ID \ port0_DIR) \cup (value \cap port0_DIR))

\* For PTYPE 0 and 5; for 5 only the upper four lines.
Passed(value) == {y \in value : PTYPE = 0 \/ y > 3}
Write09Port1(value) ==
    /\ port1_OL' = value
    /\ UNCHANGED <<pressed, port1_DIR107, port0_DIR, port0_OL, pulled, PTYPE>>
    /\ LET mask == Passed(port1_DIR107)
       IN  Update(IF PTYPE \in {0, 5} THEN (port1_ID \ mask) \cup Passed(value) ELSE port1_ID, port0_ID)

Write15Dir1(value) == /\ port1_DIR107' = value
                      /\ UNCHANGED <<pressed, port0_DIR, port1_OL, port0_OL, pulled, PTYPE>>
                      /\ Update(port1_ID, port0_ID)

\* Registers 0x0f, 0x24 of the extended ones, and 0x04 update nothing.
Quietly == UNCHANGED <<pressed, port1_DIR107, port1_OL, port0_OL, port1_ID, port0_ID>>
Write0F(value) == port0_DIR' = value /\ UNCHANGED <<pulled, PTYPE>> /\ Quietly
WritePullUp(value) == pulled' = value /\ UNCHANGED <<port0_DIR, PTYPE>> /\ Quietly
Write04GeneralCtrl(value) == PTYPE' = value /\ UNCHANGED <<port0_DIR, pulled>> /\ Quietly

\* The matrix is set behind the ports' back.
PressCell(cell) == /\ cell \notin pressed /\ pressed' = pressed \cup {cell}
                   /\ Cardinality(pressed') <= MaxPressed
                   /\ UNCHANGED <<latches, port1_ID, port0_ID>>
ReleaseCell(cell) == /\ cell \in pressed /\ pressed' = pressed \ {cell}
                     /\ UNCHANGED <<latches, port1_ID, port0_ID>>
=============================================================================
