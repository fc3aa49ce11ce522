---------------------------- MODULE MCAssistant ----------------------------
EXTENDS Assistant, TLC

\* Events 1 and 2 of rule 1; one device.
FiredBy == [e \in {1, 2} |-> 1]

\* Levels an administrator saves: nobody writes, the analyst does, a level of a
\* later release.
Saved == {[admin |-> "read", analyst |-> "write"], [admin |-> "other", analyst |-> "read"]}

\* The first event alone is larger than a result may be.
Bytes == [i \in 1 .. 2 |-> IF i = 2 THEN 3 ELSE 1]

Symmetric == Permutations(Requests)
=============================================================================
