-------------------------- MODULE MCPendingPipeline --------------------------
(* Instances of PendingPipeline for TLC.                                    *)
EXTENDS PendingPipeline, FiniteSets, TLC

CONSTANTS d1, d2, c1, c2, e1, e2

Changing == d1 :> c1 @@ d2 :> c2    \* the content changes with the list entry
ListOnly == d1 :> c1 @@ d2 :> c1    \* only a list column changes
OneItem == d1 :> c1

\* Bound: a crash or one row with a second attempt, and not while a parse job
\* is left.
OneTrouble ==
    crashes + parses + Cardinality({d \in Discoveries : tasks[d].attempts = 2}) <= 1

\* Exchanging the discoveries and their contents changes nothing.
Exchanges == {p \in Permutations({d1, d2, c1, c2}) :
                  \A d \in {d1, d2} : p[d] \in {d1, d2} /\ Changing[p[d]] = p[Changing[d]]}
=============================================================================
