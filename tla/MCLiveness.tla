----------------------------- MODULE MCLiveness -----------------------------
(***************************************************************************)
(* What the pending pipeline and the task queue owe under the fairness     *)
(* their modules state, in one run: every behaviour is one of the          *)
(* component `which` names.  The pipeline has its own variables, those of  *)
(* the queue are q1, q2, ..., in the order its module declares them.       *)
(***************************************************************************)
EXTENDS MCPendingPipeline

CONSTANTS p1, p2, p3

VARIABLES which, q1, q2, q3, q4, q5, q6, q7, q8, q9

queueVars == <<q1, q2, q3, q4, q5, q6, q7, q8, q9>>
all == <<which, vars, queueVars>>

\* A pending item at its last stage, and a row of the local worker.
Q == INSTANCE ProductionQueue WITH
    MaxAttempts <- 1, Pids <- {p1, p2, p3}, Tasks <- {1, 2}, NoTask <- 0,
    QueueOf <- <<"realtime_pending", "markdown_delivery">>,
    EntryStage <- <<"pending_cleanup", "index_publish">>,
    LocalTasks <- {2}, PidReuse <- FALSE, LeaseExpiry <- TRUE, MaxCrashes <- 1,
    rows <- q1, pid <- q2, pc <- q3, cur <- q4, seen <- q5, out <- q6, scan <- q7,
    passes <- q8, crashes <- q9

NoQueue ==
    /\ q1 = 0 /\ q2 = 0 /\ q3 = 0 /\ q4 = 0 /\ q5 = 0 /\ q6 = 0
    /\ q7 = 0 /\ q8 = 0 /\ q9 = 0

AllInit ==
    /\ Init
    /\ \/ which = "pending" /\ NoQueue
       \/ which = "queue" /\ Q!Init

\* A step of one component leaves the other alone.
OfPending(A) == which = "pending" /\ A /\ UNCHANGED <<which, queueVars>>
OfQueue(A) == which = "queue" /\ A /\ UNCHANGED <<which, vars>>

AllNext == OfPending(Next) \/ OfQueue(Q!Next)

\* One component runs, so the fairness of both can be said together: the worker
\* of the pending item, and the main worker.
Workers == OfPending(WorkerStep) \/ OfQueue(Q!MainStep)
Backoff(d, t) == OfPending(BackoffElapses(d)) \/ OfQueue(Q!BackoffElapses(t))

AllSpec ==
    /\ AllInit /\ [][AllNext]_all
    /\ WF_all(Workers) /\ WF_all(OfQueue(Q!LocalStep))
    /\ WF_all(Backoff(d1, 1)) /\ WF_all(OfQueue(Q!BackoffElapses(2)))
    /\ \A r \in Q!Roles : WF_all(OfQueue(Q!WorkerStep(r)))

-----------------------------------------------------------------------------
\* AbandonedWorkIsRecovered of ProductionQueue: a row left running by a process
\* that is gone does not stay so.
AbandonedWorkIsRecovered == \A t \in {1, 2} : []<>(which = "queue" => ~Q!Orphaned(t))
=============================================================================
