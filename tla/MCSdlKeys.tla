------------------------------ MODULE MCSdlKeys ------------------------------
(***************************************************************************)
(* Keyboards for TLC, with the cells key_new.cpp gives them on the nc2000, *)
(* without and with pro_key: two keys of one cell, which the pro layout    *)
(* moves, and the console and layout keys; the keys of the reset button,   *)
(* which are also the on/off key; the fast-forward switch and a letter.    *)
(***************************************************************************)
EXTENDS SdlKeys

KeyB == 98
Key1 == 49

MCTexts == {<<1>>}

CellOf(pro, key) ==
    CASE key = KeyB -> IF pro THEN <<4, 7>> ELSE <<4, 6>>
      [] key = Key1 -> IF pro THEN <<0, 4>> ELSE <<4, 6>>
      [] key = RETURN -> <<5, 3>>
      [] key = F12 -> <<0, 0>>
      [] OTHER -> NoCell
MCItems == [pro \in BOOLEAN |-> [key \in Keys |-> CellOf(pro, key)]]

\* Two keys of one cell and the console; keys that the layout moves; the reset
\* button, which is also on/off; the fast-forward switch.
MCKeyboards == {{KeyB, Key1, BACKQUOTE}, {KeyB, LSHIFT, BACKQUOTE},
                {F12, LSHIFT, RSHIFT, LCTRL}, {TAB, RETURN}}
=============================================================================
