--------------------------- MODULE MCAlertEngine ---------------------------
(* Instances of AlertEngine for TLC.                                        *)
EXTENDS AlertEngine, TLC

CONSTANTS d1, d2, c1, r1, r2

\* Kinds of the rules.
DownOnly == r1 :> "down"
DownAndLevel == r1 :> "down" @@ r2 :> "level"

Everywhere == [r \in Rules |-> Devices]

OneTick == [r \in Rules |-> 1]
=============================================================================
