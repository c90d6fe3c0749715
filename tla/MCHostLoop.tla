----------------------------- MODULE MCHostLoop -----------------------------
(***************************************************************************)
(* The host's side, one part to a behaviour: the loop and its clocks, or   *)
(* the LCD that it renders.  The pixel has shades 0 to 3.  The wall clock  *)
(* jumps back or forward further than the loop's own steps take it.        *)
(***************************************************************************)
EXTENDS Display, Pacing

MCColorOf == [p \in Pictures \cup {Blank, ConsoleText} |->
                CASE p = "A" -> 2 [] p = "B" -> 0 [] p = Blank -> 3 [] OTHER -> 1]
MCPart == <<1, 2>>
MCJumps == {-100, 40}

VARIABLE part
vars == <<part, displayVars, paceVars>>

Init == /\ part \in {"loop", "display"}
        /\ DisplayInit /\ PacingInit
        /\ part = "loop" => port = "sdl"
        /\ part = "display" => build = "sdl"

LoopPart(A) == part = "loop" /\ A /\ UNCHANGED <<part, displayVars>>
DisplayPart(A) == part = "display" /\ A /\ UNCHANGED <<part, paceVars>>

Next == LoopPart(PacingNext) \/ DisplayPart(DisplayNext)

\* The fairness of DisplaySpec.
Spec == Init /\ [][Next]_vars /\ SF_vars(DisplayPart(~asleep /\ RenderStep))
=============================================================================
