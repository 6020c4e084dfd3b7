------------------------------- MODULE MCJobs -------------------------------
(***************************************************************************)
(* The long jobs that must come to an end: the collection of done items,   *)
(* the backfill campaign and the retry of items of the manifest.  They     *)
(* share no state; every behaviour is one of the component `which` names.  *)
(* The retry has its own variables; those of the others are s1, s2, ...,   *)
(* in the order their modules declare them.                                *)
(***************************************************************************)
EXTENDS ManifestRetry, TLC

CONSTANTS
    i1, i2, i3, narrow, wide,
    Done, DoneJobs, DoneSessions, DoneFaults,            \* the collection
    Windows, ItemsOf, MaxTries, MaxRunner, ChunkSize, CampaignFaults    \* the campaign

SomeMatches == narrow :> {i1} @@ wide :> {i1, i2}
TwoWindows == [w \in 1..2 |-> IF w = 1 THEN {i1, i2} ELSE {i3}]

VARIABLES which, s1, s2, s3, s4, s5, s6, s7, s8, s9, s10, s11, s12, s13, s14

After12 == <<s13, s14>>
slots == <<s1, s2, s3, s4, s5, s6, s7, s8, s9, s10, s11, s12, After12>>
all == <<which, vars, slots>>

D == INSTANCE DoneCollection WITH
    Items <- Done, MaxJobs <- DoneJobs, MaxSessions <- DoneSessions, MaxFaults <- DoneFaults,
    jobs <- s1, item <- s2, browser <- s3, desktop <- s4, pc <- s5, host <- s6, cur <- s7,
    child <- s8, daily <- s9, day <- s10, newLogin <- s11, spent <- s12

B == INSTANCE BackfillCampaign WITH
    MaxFaults <- CampaignFaults,
    batch <- s1, skipped <- s2, honest <- s3, item <- s4, tries <- s5, excluded <- s6,
    job <- s7, pc <- s8, win <- s9, active <- s10, done <- s11, failures <- s12,
    spent <- s13, reopened <- s14

NoneAfter12 == s13 = 0 /\ s14 = 0
None == s1 = 0 /\ s2 = 0 /\ s3 = 0 /\ s4 = 0 /\ s5 = 0 /\ s6 = 0 /\ s7 = 0 /\ s8 = 0
            /\ s9 = 0 /\ s10 = 0 /\ s11 = 0 /\ s12 = 0 /\ NoneAfter12

NoRetry == st = [i \in Items |-> "pending_download"]

JobInit ==
    /\ Init
    /\ \/ which = "collection" /\ D!Init /\ NoneAfter12 /\ NoRetry
       \/ which = "backfill" /\ B!Init /\ NoRetry
       \/ which = "retry" /\ None

JobNext ==
    /\ UNCHANGED which
    /\ \/ which = "collection" /\ D!Next /\ UNCHANGED <<vars, After12>>
       \/ which = "backfill" /\ B!Next /\ UNCHANGED vars
       \/ which = "retry" /\ Next /\ UNCHANGED slots

\* What the fairness of the components says of their work.
CollectionWorks == which = "collection" /\ D!Work /\ UNCHANGED <<which, vars, After12>>
BrowserComesFree == which = "collection" /\ D!OtherReleases /\ UNCHANGED <<which, vars, After12>>
DailyTicks == which = "collection" /\ D!Tick /\ UNCHANGED <<which, vars, After12>>
BackfillWorks == which = "backfill" /\ B!Work /\ UNCHANGED <<which, vars>>
RetryWorks == which = "retry" /\ Work /\ UNCHANGED <<which, slots>>

JobSpec ==
    /\ JobInit /\ [][JobNext]_all
    /\ WF_all(CollectionWorks) /\ WF_all(BrowserComesFree) /\ WF_all(DailyTicks)
    /\ WF_all(BackfillWorks) /\ WF_all(RetryWorks)

-----------------------------------------------------------------------------
\* The properties of the collection and of the campaign, under the names of
\* their modules; the comments are there.
CollectionEnds == \A j \in 1..DoneJobs : []<>(which = "collection" => D!Rests(j))
CompletedMeansSettled == [][which = "collection" => D!CompletesSettled]_all
CampaignRests == []<>(which = "backfill" => B!AtRest)
CampaignCompleteMeansResolved == which = "backfill" => B!CampaignCompleteMeansResolved
=============================================================================
