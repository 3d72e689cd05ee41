--------------------------- MODULE MCPromptHub ---------------------------
(* Values for model checking PromptHub: two connections and the keys        *)
(* that tell its branches apart ("y" is a plain character except on a       *)
(* Confirm prompt).                                                         *)
EXTENDS PromptHub

CONSTANTS c1, c2

TwoClients  == {c1, c2}
MixedKeys   == [c \in Client |-> IF c = c1 THEN {"y", "enter"} ELSE {"enter", "back"}]
FewKeys     == [c \in Client |-> IF c = c1 THEN 2 ELSE 1]
===========================================================================
