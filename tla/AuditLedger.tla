---------------------------- MODULE AuditLedger ----------------------------
(***************************************************************************)
(* What an online audit promises to the migration and rebuild that wait for *)
(* it: the newest run gives every enrolled item a verdict before it closes,  *)
(* and a closed run changes none of its verdicts.  It is opened again only   *)
(* for items it does not know yet, or replaced by a run that starts over.   *)
(***************************************************************************)
EXTENDS Naturals

CONSTANT Items

VARIABLES
    run,      \* how many runs were started
    open,     \* the newest run has not been completed
    verdict   \* the newest run's verdicts, a function on its items

ledger == <<run, open, verdict>>

Verdicts == {"undecided", "safe", "unsafe"}

Undecided == {i \in DOMAIN verdict : verdict[i] = "undecided"}

Init ==
    /\ run = 0
    /\ open = FALSE
    /\ verdict \in [{} -> Verdicts]

\* A new run starts with every item undecided.
Start(S) ==
    /\ run' = run + 1
    /\ open' = TRUE
    /\ verdict' = [i \in S |-> "undecided"]

\* While the run is open its verdicts may be given and taken back, and its
\* items only grow.
Audit(S) ==
    /\ open
    /\ DOMAIN verdict \subseteq S
    /\ verdict' \in [S -> Verdicts]
    /\ UNCHANGED <<run, open>>

Close ==
    /\ open
    /\ Undecided = {}
    /\ open' = FALSE
    /\ UNCHANGED <<run, verdict>>

\* Items discovered later reopen the run; what it had decided stays decided.
Reopen(S) ==
    /\ ~open
    /\ run > 0
    /\ S # {}
    /\ S \cap DOMAIN verdict = {}
    /\ open' = TRUE
    /\ verdict' = [i \in DOMAIN verdict \cup S |->
                      IF i \in S THEN "undecided" ELSE verdict[i]]
    /\ UNCHANGED run

Next ==
    \/ \E S \in SUBSET Items : Start(S) \/ Audit(S) \/ Reopen(S)
    \/ Close

Spec == Init /\ [][Next]_ledger
=============================================================================
