------------------------------- MODULE MCBsp -------------------------------
(* Model-checking instances of Bsp: the command task, which shows blue and *)
(* switches off, and the button task, which toggles gold, with the         *)
(* priorities they are created with.                                       *)
EXTENDS Bsp

MCBlue == [c \in {"red", "green", "blue"} |-> IF c = "blue" THEN 16 ELSE 0]
MCGold == [c \in {"red", "green", "blue"} |->
             CASE c = "red" -> 16 [] c = "green" -> 8 [] c = "blue" -> 0]
MCTasks == {"cmd", "button"}
MCPrio == [t \in MCTasks |-> IF t = "cmd" THEN 3 ELSE 2]
MCSets == [t \in MCTasks |-> IF t = "cmd" THEN {MCBlue, Dark} ELSE {}]
MCToggles == [t \in MCTasks |-> IF t = "button" THEN {MCGold} ELSE {}]

=============================================================================
