---------------------------- MODULE MCDeviceKeys ----------------------------
(***************************************************************************)
(* The keyboard of the device, one half to a behaviour: the threads of     *)
(* nc2000_fb that write the matrix, and the guest that scans it.           *)
(*                                                                         *)
(* The threads have the keys on/off and F10, and a client that sends the   *)
(* id of F10's cell and of another one.  Tab has no id and is left out.    *)
(* The cells are in the first row, and on/off's is the one that a 0 of a   *)
(* table under construction stands for.  The ids and cells are those of    *)
(* input_fb.cpp.  The guest scans a corner of the matrix: two rows, a      *)
(* column that can be polled and is pulled up, and one that is not.        *)
(***************************************************************************)
EXTENDS FbKeys, KeypadScan

MCWqx(code) == CASE code = 68 -> 8      \* KEY_F10: 0x08
                 [] code = 190 -> 15    \* 0x0f
                 [] OTHER -> 255
MCEvdev == [code \in Codes |-> MCWqx(code)]
MCYx == [id \in 0 .. 63 |-> CASE id = 8 -> <<0, 1>>
                              [] id = 15 -> <<0, 0>>
                              [] id = 16 -> <<0, 2>>
                              [] OTHER -> NoCell]
MCRows == {0, 4}
MCColumns == {1, 5}

VARIABLE part
allVars == <<part, vars, portVars>>

KeysInit == part \in {"threads", "scan"} /\ Init /\ ScanInit
ThreadsPart == part = "threads" /\ Next /\ UNCHANGED <<part, portVars>>
ScanPart == part = "scan" /\ ScanNext /\ UNCHANGED <<part, vars>>
KeysSpec == KeysInit /\ [][ThreadsPart \/ ScanPart]_allVars
=============================================================================
