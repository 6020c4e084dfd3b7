----------------------- MODULE VerifiedMigrationProofs -----------------------
(***************************************************************************)
(* MovedOrReviewed and PauseIsGivenBack for any items, audits, batches,    *)
(* crashes and orders of the operator.                                     *)
(*                                                                         *)
(* The last batch of a job only sees that no safe item below the old       *)
(* directory is left but the refused ones.  That this means what the       *)
(* property says rests on three facts: a path in the database is new only  *)
(* when the directory is (Places), which an interrupted rename keeps       *)
(* because the path follows the directory; what a batch refused has a      *)
(* review entry, in every batch of the job (Noted); and the batch belongs  *)
(* to a job (Work).                                                        *)
(*                                                                         *)
(* The switch is given back because the queue stands exactly while a job   *)
(* that has remembered the switch is open or has failed (PauseIsHeld), so  *)
(* that a job which begins never remembers the pause of another one, but   *)
(* that of a failed one (NoPauseRemembered), and then does not lift it     *)
(* (FailedPauseStays).  This needs that jobs do not overlap, that a batch  *)
(* is that of an open job (BatchesAreOpen), and that a job remembers       *)
(* nothing before it exists (Fresh).                                       *)
(***************************************************************************)
EXTENDS VerifiedMigration, TLAPS

Jobs == [status : {"none", "queued", "paused", "running", "completed", "failed"},
         saved : {"unset", "paused", "going"}, failed : SUBSET Files]

Work ==
    /\ job \in [1..MaxRuns -> Jobs]
    /\ pc \in {"idle", "ensured", "executing", "moving"}
    /\ pc \in {"executing", "moving"} => mine \in 1..MaxRuns

Places ==
    /\ path \in [Files -> {"legacy", "current"}]
    /\ dir \in [Files -> {"legacy", "current"}]
    /\ \A f \in Files : path[f] = "current" => dir[f] = "current"
    /\ \A f \in moving : f \in Files /\ path[f] = "legacy" /\ dir[f] = "current"

Noted ==
    /\ bad \subseteq reviewed /\ bad \subseteq Files
    /\ \A r \in 1..MaxRuns : job[r].failed \subseteq reviewed

MInv == Work /\ Places /\ Noted

MovesOrReviews ==
    \A r \in 1..MaxRuns :
        job'[r].status = "completed" /\ job[r].status # "completed" =>
            \A f \in Safe(r) : (path'[f] = "current" /\ dir'[f] = "current")
                                \/ f \in reviewed'

\* Nothing is refused, moved or executed at the start.
LEMMA InitMInv == Init => MInv
  <1> SUFFICES ASSUME Init PROVE MInv
    OBVIOUS
  <1>1. NoJob \in Jobs /\ NoJob.failed = {}
    BY DEF NoJob, Jobs
  <1>2. Work
    BY <1>1 DEF Init, Work
  <1>3. Places
    BY DEF Init, Places
  <1>4. Noted
    BY <1>1 DEF Init, Noted
  <1> QED
    BY <1>2, <1>3, <1>4 DEF MInv

-----------------------------------------------------------------------------
\* A step that gives a job another status and another memory of the switch, and
\* ends or leaves the work of the batch.
LEMMA JobStep ==
  ASSUME MInv,
         job' \in [1..MaxRuns -> Jobs],
         \A r \in 1..MaxRuns : job'[r].failed = job[r].failed,
         UNCHANGED <<path, dir, reviewed>>,
         bad' \subseteq bad, moving' \subseteq moving,
         pc' \in {"idle", "ensured", "executing", "moving"},
         pc' \in {"executing", "moving"} => mine' \in 1..MaxRuns
  PROVE  MInv'
  <1>1. Work'
    BY DEF Work
  <1>2. Places'
    BY DEF MInv, Places
  <1>3. Noted'
    BY DEF MInv, Noted
  <1> QED
    BY <1>1, <1>2, <1>3 DEF MInv

\* The batch moves one item, or gives it up.
LEMMA MoveStep ==
  ASSUME MInv,
         UNCHANGED <<job, pc, mine>>,
         Places', bad' \subseteq reviewed', bad' \subseteq Files, reviewed \subseteq reviewed'
  PROVE  MInv'
  <1>1. Work'
    BY DEF MInv, Work
  <1>2. Noted'
    BY DEF MInv, Noted
  <1> QED
    BY <1>1, <1>2 DEF MInv

LEMMA Inductive == MInv /\ [Next]_vars => MInv'
  <1> SUFFICES ASSUME MInv, [Next]_vars PROVE MInv'
    OBVIOUS
  <1>j. job \in [1..MaxRuns -> Jobs]
    BY DEF MInv, Work
  <1>s. ASSUME NEW r \in 1..MaxRuns,
               NEW status \in {"none", "queued", "paused", "running", "completed"},
               NEW saved \in {"unset", "paused", "going"}
        PROVE  /\ [job[r] EXCEPT !.status = status] \in Jobs
               /\ [job[r] EXCEPT !.status = status].failed = job[r].failed
               /\ [job[r] EXCEPT !.saved = saved, !.status = status] \in Jobs
               /\ [job[r] EXCEPT !.saved = saved, !.status = status].failed = job[r].failed
    BY <1>j DEF Jobs
  \* Steps that leave the jobs, the worker and the places alone.
  <1>u. ASSUME UNCHANGED <<job, path, dir, reviewed, moving, bad>>,
               pc' \in {"idle", "ensured", "executing", "moving"},
               pc' \in {"executing", "moving"} => mine' \in 1..MaxRuns
        PROVE  MInv'
    BY <1>u, <1>j, JobStep
  <1>w. ASSUME UNCHANGED <<job, path, dir, reviewed, workVars>>
        PROVE  MInv'
    BY <1>w, <1>u DEF workVars, MInv, Work
  <1>1. CASE StartAudit \/ Discover \/ SupplementDone \/ FullSync \/ LocalWorks \/ BootstrapHistory
    BY <1>1, <1>w DEF StartAudit, Discover, SupplementDone, FullSync, LocalWorks,
                      BootstrapHistory, diskVars
  <1>2. ASSUME NEW items, NEW safe, NEW supplementing, FinishAudit(items, safe, supplementing)
        PROVE  MInv'
    BY <1>2, <1>w DEF FinishAudit, diskVars
  <1>3. CASE Ensure
    <2>1. /\ job' \in [1..MaxRuns -> Jobs]
          /\ \A r \in 1..MaxRuns : job'[r].failed = job[r].failed
      BY <1>3, <1>j, <1>s DEF Ensure
    <2> QED
      BY <1>3, <2>1, JobStep DEF Ensure, diskVars
  <1>4. ASSUME NEW r \in 1..MaxRuns, ClaimJob(r) PROVE MInv'
    BY <1>4, <1>u DEF ClaimJob, diskVars
  <1>5. ASSUME NEW f \in Files, RunHistory(f) PROVE MInv'
    BY <1>5, <1>u DEF RunHistory, diskVars
  <1>6. CASE NothingToDo
    BY <1>6, <1>j, JobStep DEF NothingToDo, Idle, diskVars
  <1>7. CASE WaitForAudit
    <2>1. mine \in 1..MaxRuns
      BY <1>7 DEF WaitForAudit, MInv, Work
    <2>2. /\ job' \in [1..MaxRuns -> Jobs]
          /\ \A r \in 1..MaxRuns : job'[r].failed = job[r].failed
      BY <1>7, <2>1, <1>j, <1>s DEF WaitForAudit
    <2> QED
      BY <1>7, <2>2, JobStep DEF WaitForAudit, Idle, diskVars
  <1>8. CASE BeginBatch
    <2>1. mine \in 1..MaxRuns
      BY <1>8 DEF BeginBatch, MInv, Work
    <2>2. PICK saved \in {"unset", "paused", "going"}, status \in {"queued", "running"} :
             job' = [job EXCEPT ![mine].saved = saved, ![mine].status = status]
      <3>1. job[mine].saved \in {"unset", "paused", "going"}
        BY <2>1, <1>j DEF Jobs
      <3> QED
        BY <1>8, <3>1 DEF BeginBatch, Switch
    <2>3. job' = [job EXCEPT ![mine] = [job[mine] EXCEPT !.saved = saved, !.status = status]]
      BY <2>1, <2>2, <1>j
    <2>4. /\ job' \in [1..MaxRuns -> Jobs]
          /\ \A r \in 1..MaxRuns : job'[r].failed = job[r].failed
      BY <2>1, <2>3, <1>j, <1>s
    <2>5. /\ bad' \subseteq bad /\ moving' \subseteq moving
          /\ pc' = "idle" \/ (pc' = "moving" /\ mine' = mine)
          /\ UNCHANGED <<path, dir, reviewed>>
      BY <1>8 DEF BeginBatch, Idle, diskVars
    <2> QED
      BY <2>1, <2>4, <2>5, JobStep
  <1>9. ASSUME NEW f \in Files, Rename(f) PROVE MInv'
    <2>1. Places'
      BY <1>9 DEF Rename, MInv, Places
    <2> QED
      BY <1>9, <2>1, MoveStep DEF Rename, MInv, Noted
  <1>10. ASSUME NEW f \in Files, CommitPath(f) PROVE MInv'
    <2>1. Places'
      BY <1>10 DEF CommitPath, MInv, Places
    <2> QED
      BY <1>10, <2>1, MoveStep DEF CommitPath, MInv, Noted
  <1>11. ASSUME NEW f \in Files, UndoRename(f) PROVE MInv'
    <2>1. Places'
      BY <1>11 DEF UndoRename, MInv, Places
    <2> QED
      BY <1>11, <2>1, MoveStep DEF UndoRename, MInv, Noted
  <1>12. ASSUME NEW f \in Files, Refuse(f) PROVE MInv'
    <2>1. Places'
      BY <1>12 DEF Refuse, MInv, Places
    <2> QED
      BY <1>12, <2>1, MoveStep DEF Refuse, MInv, Noted
  <1>13. CASE EndBatch
    <2> DEFINE failed == job[mine].failed \cup bad
    <2>1. mine \in 1..MaxRuns
      BY <1>13 DEF EndBatch, MInv, Work
    <2>2. PICK status \in {"queued", "completed"} :
             job' = [job EXCEPT ![mine].failed = failed, ![mine].status = status]
      BY <1>13 DEF EndBatch
    <2>3. job' = [job EXCEPT ![mine] = [job[mine] EXCEPT !.failed = failed, !.status = status]]
      BY <2>1, <2>2, <1>j
    <2>4. failed \subseteq Files /\ failed \subseteq reviewed
      BY <2>1, <1>j DEF MInv, Noted, Jobs
    <2>5. /\ [job[mine] EXCEPT !.failed = failed, !.status = status] \in Jobs
          /\ [job[mine] EXCEPT !.failed = failed, !.status = status].failed = failed
      BY <2>1, <2>4, <1>j DEF Jobs
    <2>6. /\ job' \in [1..MaxRuns -> Jobs]
          /\ \A r \in 1..MaxRuns : job'[r].failed \in {job[r].failed, failed}
      BY <2>1, <2>3, <2>5, <1>j
    <2>7. pc' = "idle" /\ bad' = {} /\ moving' = {} /\ UNCHANGED <<path, dir, reviewed>>
      BY <1>13 DEF EndBatch, Idle, diskVars
    <2>8. Work'
      BY <2>6, <2>7 DEF Work
    <2>9. Places'
      BY <2>7 DEF MInv, Places
    <2>10. Noted'
      BY <2>4, <2>6, <2>7 DEF MInv, Noted
    <2> QED
      BY <2>8, <2>9, <2>10 DEF MInv
  <1>14. CASE CrashWorker
    <2>1. /\ job' \in [1..MaxRuns -> Jobs]
          /\ \A r \in 1..MaxRuns : job'[r].failed = job[r].failed
      BY <1>14, <1>j, <1>s DEF CrashWorker
    <2> QED
      BY <1>14, <2>1, JobStep DEF CrashWorker, Idle, diskVars
  <1>15. CASE Markdown
    BY <1>15, <1>w DEF Markdown
  <1>17. CASE FailJob
    <2>1. mine \in 1..MaxRuns
      BY <1>17 DEF FailJob, MInv, Work
    <2>2. job' = [job EXCEPT ![mine] = [job[mine] EXCEPT !.status = "failed"]]
      BY <1>17, <2>1, <1>j DEF FailJob
    <2>3. /\ [job[mine] EXCEPT !.status = "failed"] \in Jobs
          /\ [job[mine] EXCEPT !.status = "failed"].failed = job[mine].failed
      BY <2>1, <1>j DEF Jobs
    <2>4. /\ job' \in [1..MaxRuns -> Jobs]
          /\ \A r \in 1..MaxRuns : job'[r].failed = job[r].failed
      BY <2>1, <2>2, <2>3, <1>j
    <2>5. /\ pc' = "idle" /\ bad' = {} /\ moving' = {} /\ UNCHANGED <<path, reviewed>>
          /\ dir' = [f \in Files |-> IF f \in moving THEN "legacy" ELSE dir[f]]
      BY <1>17 DEF FailJob, Idle
    <2>6. Work'
      BY <2>4, <2>5 DEF Work
    <2>7. Places'
      BY <2>5 DEF MInv, Places
    <2>8. Noted'
      BY <2>4, <2>5 DEF MInv, Noted
    <2> QED
      BY <2>6, <2>7, <2>8 DEF MInv
  <1>16. CASE UNCHANGED vars
    BY <1>16, <1>w DEF vars, diskVars
  <1> QED
    BY <1>1, <1>2, <1>3, <1>4, <1>5, <1>6, <1>7, <1>8, <1>9, <1>10, <1>11, <1>12,
       <1>13, <1>14, <1>15, <1>16, <1>17 DEF Next, Migration, Worker

-----------------------------------------------------------------------------
\* Only the last batch completes a job.
LEMMA OnlyEndBatchCompletes ==
  ASSUME MInv, [Next]_vars, ~EndBatch,
         NEW r \in 1..MaxRuns, job'[r].status = "completed"
  PROVE  job[r].status = "completed"
  <1>j. job \in [1..MaxRuns -> Jobs]
    BY DEF MInv, Work
  <1>1. ASSUME job' = job PROVE job[r].status = "completed"
    BY <1>1
  <1>2. CASE Ensure
    BY <1>2, <1>j DEF Ensure, Jobs
  <1>3. CASE WaitForAudit
    BY <1>3, <1>j DEF WaitForAudit, Jobs
  <1>4. CASE BeginBatch
    <2>1. mine \in 1..MaxRuns
      BY <1>4 DEF BeginBatch, MInv, Work
    <2>2. job'[mine].status \in {"queued", "running"}
          /\ \A s \in 1..MaxRuns \ {mine} : job'[s] = job[s]
      BY <1>4, <2>1, <1>j DEF BeginBatch, Jobs
    <2> QED
      BY <2>2
  <1>5. CASE CrashWorker
    BY <1>5, <1>j DEF CrashWorker, Jobs
  <1>12. CASE FailJob
    <2>1. mine \in 1..MaxRuns
      BY <1>12 DEF FailJob, MInv, Work
    <2>2. job'[mine].status = "failed" /\ \A s \in 1..MaxRuns \ {mine} : job'[s] = job[s]
      BY <1>12, <2>1, <1>j DEF FailJob, Jobs
    <2> QED
      BY <2>2
  <1>6. CASE Markdown
    BY <1>6, <1>1 DEF Markdown
  <1>7. CASE UNCHANGED vars
    BY <1>7, <1>1 DEF vars
  <1>8. ASSUME NEW f \in Files,
               RunHistory(f) \/ Rename(f) \/ CommitPath(f) \/ Refuse(f) \/ UndoRename(f)
        PROVE  job[r].status = "completed"
    BY <1>8, <1>1 DEF RunHistory, Rename, CommitPath, Refuse, UndoRename
  <1>9. ASSUME NEW items, NEW safe, NEW supplementing, FinishAudit(items, safe, supplementing)
        PROVE  job[r].status = "completed"
    BY <1>9, <1>1 DEF FinishAudit
  <1>10. ASSUME NEW s \in 1..MaxRuns, ClaimJob(s) PROVE job[r].status = "completed"
    BY <1>10, <1>1 DEF ClaimJob
  <1>11. CASE StartAudit \/ Discover \/ SupplementDone \/ FullSync \/ LocalWorks
              \/ BootstrapHistory \/ NothingToDo
    BY <1>11, <1>1 DEF StartAudit, Discover, SupplementDone, FullSync, LocalWorks,
                       BootstrapHistory, NothingToDo
  <1> QED
    BY <1>2, <1>3, <1>4, <1>5, <1>6, <1>7, <1>8, <1>9, <1>10, <1>11, <1>12
       DEF Next, Migration, Worker

\* What the last batch leaves behind.
LEMMA StepMovesOrReviews == MInv /\ [Next]_vars => [MovesOrReviews]_vars
  <1> SUFFICES ASSUME MInv, [Next]_vars,
                      NEW r \in 1..MaxRuns,
                      job'[r].status = "completed", job[r].status # "completed",
                      NEW f \in Safe(r)
               PROVE  (path'[f] = "current" /\ dir'[f] = "current") \/ f \in reviewed'
    BY DEF MovesOrReviews
  <1>1. EndBatch
    BY OnlyEndBatchCompletes
  <1>2. mine \in 1..MaxRuns /\ job \in [1..MaxRuns -> Jobs]
    BY <1>1 DEF EndBatch, MInv, Work
  <1>3. r = mine /\ Eligible(mine) \ (job[mine].failed \cup bad) = {}
    BY <1>1, <1>2 DEF EndBatch, Jobs
  <1>4. UNCHANGED <<path, dir, reviewed>> /\ f \in Files
    BY <1>1 DEF EndBatch, diskVars, Safe
  <1>5. CASE path[f] = "legacy"
    <2>1. f \in job[mine].failed \cup bad
      BY <1>3, <1>5 DEF Eligible
    <2> QED
      BY <2>1, <1>2, <1>4 DEF MInv, Noted
  <1>6. CASE path[f] = "current"
    BY <1>4, <1>6 DEF MInv, Places
  <1> QED
    BY <1>4, <1>5, <1>6 DEF MInv, Places

\* When the migration job of a run completes, every item the run found safe is
\* at its new place in the database and on disk, or has a review entry, whatever
\* batches, crashes, undone renames and overlapping jobs came before
\* (web/worker.py, _execute_verified_archive_migration).
THEOREM MigrationMovesOrReviews == Spec => MovedOrReviewed
  <1> QED
    BY InitMInv, Inductive, StepMovesOrReviews, PTL DEF Spec, MovedOrReviewed, MovesOrReviews

-----------------------------------------------------------------------------
Switches == control \in [paused : BOOLEAN, pdfPaused : BOOLEAN]

\* What the worker executes is queued until its batch begins, and runs until it
\* ends; a batch has remembered the switch.
BatchesAreOpen ==
    /\ pc = "executing" => job[mine].status = "queued"
    /\ pc = "moving" => job[mine].status = "running" /\ job[mine].saved # "unset"

OneAtATime == \A r, s \in Unfinished : r = s

Fresh == \A r \in 1..MaxRuns : job[r].status = "none" => job[r].saved = "unset"

\* The jobs on whose account the queue stands: open ones, and failed ones.
Holders == {r \in 1..MaxRuns : job[r].status \notin {"none", "completed"}
                                 /\ job[r].saved # "unset"}
PauseIsHeld == control.paused <=> Holders # {}

NoPauseRemembered == Abandoned = {} => \A r \in 1..MaxRuns : job[r].saved # "paused"

FailedPauseStays == Abandoned # {} => \A r \in Unfinished : job[r].saved # "going"

PInv ==
    /\ Work /\ Switches /\ BatchesAreOpen /\ Fresh
    /\ ~touched => OneAtATime /\ NoPauseRemembered /\ FailedPauseStays /\ PauseIsHeld

LEMMA InitPInv == Init => PInv
  <1> SUFFICES ASSUME Init PROVE PInv
    OBVIOUS
  <1>1. NoJob.status = "none" /\ NoJob.saved = "unset" /\ Work
    BY InitMInv DEF NoJob, MInv
  <1>2. Switches /\ ~control.paused
    BY DEF Init, MdInit, Switches
  <1>3. \A r \in 1..MaxRuns : job[r] = NoJob
    BY DEF Init
  <1>4. OneAtATime /\ NoPauseRemembered /\ FailedPauseStays /\ Fresh
    BY <1>1, <1>3 DEF OneAtATime, NoPauseRemembered, FailedPauseStays, Fresh, Unfinished
  <1>5. BatchesAreOpen
    BY DEF Init, BatchesAreOpen
  <1>6. PauseIsHeld
    BY <1>1, <1>2, <1>3 DEF PauseIsHeld, Holders
  <1> QED
    BY <1>1, <1>2, <1>4, <1>5, <1>6 DEF PInv

\* A step that keeps the switch and what jobs remember of it, and ends no job.
Steady(r) ==
    /\ job'[r].saved = job[r].saved
    /\ \/ job'[r].status = job[r].status
       \/ /\ job[r].status \in {"none", "queued", "paused", "running"}
          /\ job'[r].status \in {"queued", "paused", "running"}

LEMMA KeepsSwitch ==
  ASSUME PInv, Work', Switches', BatchesAreOpen',
         touched => touched',
         \A r \in 1..MaxRuns : Steady(r),
         ~touched' => OneAtATime' /\ control'.paused = control.paused
  PROVE  PInv'
  <1>1. Fresh'
    BY DEF PInv, Fresh, Steady
  <1>2. Abandoned' = Abandoned
    BY DEF Abandoned, Steady
  <1>3. Holders' = Holders
    BY DEF PInv, Fresh, Holders, Steady
  <1>4. \A r \in Unfinished' : r \in Unfinished \/ job'[r].saved = "unset"
    BY DEF PInv, Fresh, Unfinished, Steady
  <1>5. ASSUME ~touched' PROVE NoPauseRemembered' /\ FailedPauseStays' /\ PauseIsHeld'
    <2>1. NoPauseRemembered'
      BY <1>2, <1>5 DEF PInv, NoPauseRemembered, Steady
    <2>2. FailedPauseStays'
      BY <1>2, <1>4, <1>5 DEF PInv, FailedPauseStays, Unfinished, Steady
    <2>3. PauseIsHeld'
      BY <1>3, <1>5 DEF PInv, PauseIsHeld
    <2> QED
      BY <2>1, <2>2, <2>3
  <1> QED
    BY <1>1, <1>5 DEF PInv

\* The queue stands on account of the job that is executed, or of a failed one.
LEMMA HeldByMine ==
  ASSUME PInv, pc \in {"executing", "moving"}, ~touched
  PROVE  control.paused <=> Abandoned # {} \/ job[mine].saved # "unset"
  <1>1. mine \in 1..MaxRuns /\ mine \in Unfinished
    BY DEF PInv, Work, BatchesAreOpen, Unfinished
  <1>2. \A r \in Holders : r \in Abandoned \/ r = mine
    BY <1>1 DEF PInv, OneAtATime, Holders, Abandoned, Unfinished
  <1>3. Abandoned \subseteq Holders /\ (job[mine].saved # "unset" => mine \in Holders)
    BY <1>1 DEF Holders, Abandoned, Unfinished
  <1> QED
    BY <1>2, <1>3 DEF PInv, PauseIsHeld, Holders

\* A step of the worker on the job it executes.
LEMMA MineStep ==
  ASSUME PInv, pc \in {"executing", "moving"}, UNCHANGED touched,
         NEW one \in Jobs, one.status # "none",
         job' = [job EXCEPT ![mine] = one],
         pc' \in {"idle", "moving"}, pc' = "moving" => mine' = mine
                /\ one.status = "running" /\ one.saved # "unset",
         Switches',
         ~touched /\ Abandoned = {} => one.saved # "paused",
         ~touched /\ Abandoned # {} => one.saved # "going",
         ~touched => (control'.paused <=>
             Abandoned # {} \/ (one.status # "completed" /\ one.saved # "unset"))
  PROVE  PInv'
  <1>1. mine \in 1..MaxRuns /\ mine \in Unfinished /\ job \in [1..MaxRuns -> Jobs]
    BY DEF PInv, Work, BatchesAreOpen, Unfinished
  <1>2. /\ job' \in [1..MaxRuns -> Jobs] /\ job'[mine] = one
        /\ \A r \in 1..MaxRuns \ {mine} : job'[r] = job[r]
    BY <1>1
  <1>3. Work' /\ BatchesAreOpen' /\ Fresh'
    BY <1>1, <1>2 DEF PInv, Work, BatchesAreOpen, Fresh
  <1>4. mine \notin Abandoned /\ Abandoned \subseteq Abandoned'
    BY <1>1, <1>2 DEF Unfinished, Abandoned
  <1>5. ASSUME ~touched'
        PROVE  OneAtATime' /\ NoPauseRemembered' /\ FailedPauseStays' /\ PauseIsHeld'
    <2>1. \A r \in Unfinished' : r = mine
      BY <1>1, <1>2, <1>5 DEF PInv, OneAtATime, Unfinished
    <2>2. OneAtATime' /\ NoPauseRemembered'
      BY <2>1, <1>2, <1>4, <1>5 DEF PInv, OneAtATime, NoPauseRemembered
    <2>3. FailedPauseStays'
      <3> SUFFICES ASSUME Abandoned' # {}, mine \in Unfinished' PROVE one.saved # "going"
        BY <2>1, <1>2 DEF FailedPauseStays
      <3>1. Abandoned' \subseteq Abandoned
        BY <1>1, <1>2 DEF Abandoned, Unfinished
      <3> QED
        BY <3>1, <1>5
    <2>4. PauseIsHeld'
      <3>1. \A r \in Holders' : r \in Abandoned \/ r = mine
        BY <1>1, <1>2, <1>5 DEF PInv, OneAtATime, Holders, Abandoned, Unfinished
      <3>2. Abandoned \subseteq Holders'
        BY <1>2, <1>4 DEF Holders, Abandoned
      <3>3. mine \in Holders' <=> one.status # "completed" /\ one.saved # "unset"
        BY <1>1, <1>2 DEF Holders
      <3> QED
        BY <3>1, <3>2, <3>3, <1>5 DEF PauseIsHeld
    <2> QED
      BY <2>2, <2>3, <2>4
  <1> QED
    BY <1>3, <1>5 DEF PInv

LEMMA PauseInductive == MInv /\ PInv /\ [Next]_vars => PInv'
  <1> SUFFICES ASSUME MInv, PInv, [Next]_vars PROVE PInv'
    OBVIOUS
  <1>j. job \in [1..MaxRuns -> Jobs]
    BY DEF PInv, Work
  \* Steps that leave the jobs and the switch alone.
  <1>u. ASSUME UNCHANGED <<job, control>>, touched => touched',
               \/ UNCHANGED <<pc, mine>>
               \/ pc' \in {"idle", "ensured"}
               \/ pc' = "executing" /\ mine' \in 1..MaxRuns /\ job[mine'].status = "queued"
        PROVE  PInv'
    <2>1. Work' /\ Switches' /\ BatchesAreOpen'
      BY <1>u DEF PInv, Work, Switches, BatchesAreOpen
    <2>2. /\ ~touched' => OneAtATime'
          /\ \A r \in 1..MaxRuns : Steady(r)
      BY <1>u DEF PInv, OneAtATime, Unfinished, Steady
    <2> QED
      BY <1>u, <2>1, <2>2, KeepsSwitch
  <1>1. CASE StartAudit \/ Discover \/ SupplementDone \/ FullSync \/ LocalWorks \/ BootstrapHistory
    BY <1>1, <1>u DEF StartAudit, Discover, SupplementDone, FullSync, LocalWorks,
                      BootstrapHistory, mdVars, workVars
  <1>2. ASSUME NEW items, NEW safe, NEW supplementing, FinishAudit(items, safe, supplementing)
        PROVE  PInv'
    BY <1>2, <1>u DEF FinishAudit, mdVars, workVars
  <1>3. CASE Ensure
    <2>1. /\ job' \in [1..MaxRuns -> Jobs]
          /\ \A r \in 1..MaxRuns :
                /\ job'[r].saved = job[r].saved
                /\ \/ job'[r].status = job[r].status
                   \/ job[r].status \in {"none", "paused"} /\ job'[r].status = "queued"
      BY <1>3, <1>j DEF Ensure, Jobs
    <2>2. pc' = "ensured" /\ control' = control /\ mine' = mine
      BY <1>3 DEF Ensure, mdVars
    <2>3. Work' /\ Switches' /\ BatchesAreOpen'
      BY <2>1, <2>2 DEF PInv, Work, Switches, BatchesAreOpen
    <2>4. \A r \in 1..MaxRuns : Steady(r)
      BY <2>1 DEF Steady
    <2>5. /\ touched => touched'
          /\ ~touched' => OneAtATime'
      <3>1. touched' = (touched \/ \E r, s \in 1..MaxRuns : r # s /\ {r, s} \subseteq Unfinished')
        BY <1>3 DEF Ensure
      <3>2. Unfinished' \subseteq 1..MaxRuns
        BY DEF Unfinished
      <3> QED
        BY <3>1, <3>2 DEF OneAtATime
    <2> QED
      BY <2>1, <2>2, <2>3, <2>4, <2>5, KeepsSwitch
  <1>4. ASSUME NEW r \in 1..MaxRuns, ClaimJob(r) PROVE PInv'
    BY <1>4, <1>u DEF ClaimJob, mdVars
  <1>5. ASSUME NEW f \in Files, RunHistory(f) PROVE PInv'
    BY <1>5, <1>u DEF RunHistory, mdVars
  <1>6. CASE NothingToDo
    BY <1>6, <1>u DEF NothingToDo, Idle, mdVars
  <1>7. CASE WaitForAudit
    <2> DEFINE one == [job[mine] EXCEPT !.status = "paused"]
    <2>1. mine \in 1..MaxRuns /\ pc = "executing"
      BY <1>7 DEF WaitForAudit, PInv, Work
    <2>2. one \in Jobs /\ one.status = "paused" /\ one.saved = job[mine].saved
      BY <2>1, <1>j DEF Jobs
    <2>3. /\ job' = [job EXCEPT ![mine] = one] /\ UNCHANGED <<control, touched>> /\ pc' = "idle"
      BY <1>7, <2>1, <1>j DEF WaitForAudit, Idle, mdVars
    <2>4. mine \in Unfinished /\ Switches'
      BY <2>1, <2>3 DEF PInv, BatchesAreOpen, Unfinished, Switches
    <2>5. /\ ~touched /\ Abandoned = {} => one.saved # "paused"
          /\ ~touched /\ Abandoned # {} => one.saved # "going"
      BY <2>1, <2>2, <2>4 DEF PInv, NoPauseRemembered, FailedPauseStays
    <2>6. ~touched => (control'.paused <=> Abandoned # {} \/ one.saved # "unset")
      BY <2>1, <2>2, <2>3, HeldByMine
    <2> HIDE DEF one
    <2> QED
      BY <2>1, <2>2, <2>3, <2>4, <2>5, <2>6, MineStep
  <1>8. CASE BeginBatch
    <2> DEFINE saved == IF job[mine].saved = "unset" THEN Switch ELSE job[mine].saved
    <2>1. mine \in 1..MaxRuns /\ pc = "executing"
      BY <1>8 DEF BeginBatch, PInv, Work
    <2>2. PICK status \in {"queued", "running"} :
             /\ job' = [job EXCEPT ![mine].saved = saved, ![mine].status = status]
             /\ pc' = "idle" \/ (pc' = "moving" /\ mine' = mine /\ status = "running")
      BY <1>8 DEF BeginBatch, Idle
    <2> DEFINE one == [job[mine] EXCEPT !.saved = saved, !.status = status]
    <2>3. job' = [job EXCEPT ![mine] = one]
      BY <2>1, <2>2, <1>j
    <2>4. saved \in {"paused", "going"}
      BY <2>1, <1>j DEF Switch, Jobs
    <2>5. one \in Jobs /\ one.status = status /\ one.saved = saved
      BY <2>1, <2>4, <1>j DEF Jobs
    <2>6. UNCHANGED touched /\ Switches'
      BY <1>8 DEF BeginBatch, PInv, Switches
    <2>7. mine \in Unfinished
      BY <2>1 DEF PInv, BatchesAreOpen, Unfinished
    <2>8. /\ ~touched /\ Abandoned = {} => saved # "paused"
          /\ ~touched /\ Abandoned # {} => saved # "going"
      <3> SUFFICES ASSUME ~touched
                   PROVE  /\ Abandoned = {} => saved # "paused"
                          /\ Abandoned # {} => saved # "going"
        OBVIOUS
      <3>1. CASE job[mine].saved = "unset"
        BY <2>1, <3>1, HeldByMine DEF Switch
      <3>2. CASE job[mine].saved # "unset"
        BY <2>1, <2>7, <3>2 DEF PInv, NoPauseRemembered, FailedPauseStays
      <3> QED
        BY <3>1, <3>2
    <2>9. control'.paused = TRUE
      BY <1>8 DEF BeginBatch, PInv, Switches
    <2> HIDE DEF one, saved
    <2> QED
      BY <2>1, <2>2, <2>3, <2>4, <2>5, <2>6, <2>8, <2>9, MineStep
  <1>9. ASSUME NEW f \in Files,
               Rename(f) \/ CommitPath(f) \/ UndoRename(f) \/ Refuse(f)
        PROVE  PInv'
    BY <1>9, <1>u DEF Rename, CommitPath, UndoRename, Refuse, mdVars
  <1>10. CASE EndBatch
    <2> DEFINE failed == job[mine].failed \cup bad
    <2>1. mine \in 1..MaxRuns /\ pc = "moving" /\ pc' = "idle" /\ UNCHANGED touched
      BY <1>10 DEF EndBatch, PInv, Work, Idle
    <2>2. PICK status \in {"queued", "completed"} :
             /\ job' = [job EXCEPT ![mine].failed = failed, ![mine].status = status]
             /\ IF status = "queued" THEN control' = control
                ELSE control' = [control EXCEPT !.paused = job[mine].saved = "paused"]
      BY <1>10 DEF EndBatch
    <2> DEFINE one == [job[mine] EXCEPT !.failed = failed, !.status = status]
    <2>3. job' = [job EXCEPT ![mine] = one]
      BY <2>1, <2>2, <1>j
    <2>4. /\ job[mine].saved \in {"paused", "going"} /\ mine \in Unfinished
          /\ ~touched /\ Abandoned = {} => job[mine].saved # "paused"
          /\ ~touched /\ Abandoned # {} => job[mine].saved # "going"
      BY <2>1, <1>j DEF PInv, BatchesAreOpen, NoPauseRemembered, FailedPauseStays, Unfinished, Jobs
    <2>5. one \in Jobs /\ one.status = status /\ one.saved = job[mine].saved
      BY <2>1, <1>j DEF Jobs, MInv, Noted
    <2>6. Switches'
      BY <2>2 DEF PInv, Switches
    <2>7. ~touched => (control'.paused <=> Abandoned # {} \/ status # "completed")
      <3>1. CASE status = "queued"
        BY <2>1, <2>2, <2>4, <3>1, HeldByMine
      <3>2. CASE status = "completed"
        BY <2>2, <2>4, <3>2 DEF PInv, Switches
      <3> QED
        BY <3>1, <3>2
    <2> HIDE DEF one
    <2> QED
      BY <2>1, <2>2, <2>3, <2>4, <2>5, <2>6, <2>7, MineStep
  <1>11. CASE CrashWorker
    <2>1. /\ job' \in [1..MaxRuns -> Jobs]
          /\ \A r \in 1..MaxRuns :
                /\ job'[r].saved = job[r].saved
                /\ job'[r].status = job[r].status
                   \/ (job[r].status = "running" /\ job'[r].status = "queued")
      BY <1>11, <1>j DEF CrashWorker, Jobs
    <2>2. pc' = "idle" /\ UNCHANGED <<control, touched>>
      BY <1>11 DEF CrashWorker, Idle, mdVars
    <2>3. Work' /\ Switches' /\ BatchesAreOpen'
      BY <2>1, <2>2 DEF PInv, Work, Switches, BatchesAreOpen
    <2>4. Unfinished' = Unfinished /\ \A r \in 1..MaxRuns : Steady(r)
      BY <2>1 DEF Unfinished, Steady
    <2>5. ~touched' => OneAtATime'
      BY <2>2, <2>4 DEF PInv, OneAtATime
    <2> QED
      BY <2>2, <2>3, <2>4, <2>5, KeepsSwitch
  <1>14. CASE FailJob
    <2> DEFINE one == [job[mine] EXCEPT !.status = "failed"]
    <2>1. mine \in 1..MaxRuns /\ pc \in {"executing", "moving"}
      BY <1>14 DEF FailJob, PInv, Work
    <2>2. one \in Jobs /\ one.status = "failed" /\ one.saved = job[mine].saved
      BY <2>1, <1>j DEF Jobs
    <2>3. /\ job' = [job EXCEPT ![mine] = one] /\ UNCHANGED <<control, touched>> /\ pc' = "idle"
      BY <1>14, <2>1, <1>j DEF FailJob, Idle
    <2>4. mine \in Unfinished /\ Switches'
      BY <2>1, <2>3 DEF PInv, BatchesAreOpen, Unfinished, Switches
    <2>5. /\ ~touched /\ Abandoned = {} => one.saved # "paused"
          /\ ~touched /\ Abandoned # {} => one.saved # "going"
      BY <2>1, <2>2, <2>4 DEF PInv, NoPauseRemembered, FailedPauseStays
    <2>6. ~touched => (control'.paused <=> Abandoned # {} \/ one.saved # "unset")
      BY <2>1, <2>2, <2>3, HeldByMine
    <2> HIDE DEF one
    <2> QED
      BY <2>1, <2>2, <2>3, <2>4, <2>5, <2>6, MineStep
  <1>12. CASE Markdown
    <2>1. /\ UNCHANGED <<job, pc, mine>>
          /\ touched => touched'
          /\ ~touched' => control'.paused = control.paused
      BY <1>12 DEF Markdown, workVars
    <2>2. Switches'
      <3>1. CASE \E paused \in BOOLEAN : SetPdfPaused(paused) \/ SetPaused(paused)
        BY <3>1 DEF SetPdfPaused, SetPaused, PInv, Switches
      <3>2. CASE StartCampaign
        BY <3>2 DEF StartCampaign, PInv, Switches
      <3>3. CASE \E campaignOnly \in BOOLEAN : RetryFailed(campaignOnly)
        BY <3>3 DEF RetryFailed, PInv, Switches
      <3>4. CASE EnqueueMissing \/ MdWork \/ MdCrash
        BY <3>4 DEF EnqueueMissing, MdWork, MdClaim, Convert, MdCrash, PInv, Switches
      <3> QED
        BY <1>12, <3>1, <3>2, <3>3, <3>4 DEF Markdown, MdNext, Operator
    <2>3. /\ Work' /\ BatchesAreOpen' /\ Unfinished' = Unfinished
          /\ \A r \in 1..MaxRuns : Steady(r)
      BY <2>1 DEF PInv, Work, BatchesAreOpen, Unfinished, Steady
    <2>4. ~touched' => OneAtATime'
      BY <2>1, <2>3 DEF PInv, OneAtATime
    <2> QED
      BY <2>1, <2>2, <2>3, <2>4, KeepsSwitch
  <1>13. CASE UNCHANGED vars
    BY <1>13, <1>u DEF vars, mdVars, workVars
  <1> QED
    BY <1>1, <1>2, <1>3, <1>4, <1>5, <1>6, <1>7, <1>8, <1>9, <1>10, <1>11, <1>12, <1>13,
       <1>14 DEF Next, Migration, Worker

\* When no migration is open the Markdown queue stands if and only if a job has
\* failed after it paused it, whatever batches, waits and crashes came between,
\* as long as the operator left the switch alone and no two jobs were open at
\* once (web/worker.py, _execute_verified_archive_migration and run_once).
THEOREM MigrationGivesPauseBack == Spec => []PauseIsGivenBack
  <1>1. PInv => PauseIsGivenBack
    <2> SUFFICES ASSUME PInv, ~touched, Unfinished = {}
                 PROVE  control.paused <=> Abandoned # {}
      BY DEF PauseIsGivenBack
    <2>1. Holders = Abandoned
      BY DEF Holders, Abandoned, Unfinished
    <2> QED
      BY <2>1 DEF PInv, PauseIsHeld
  <1> QED
    BY InitMInv, Inductive, InitPInv, PauseInductive, <1>1, PTL DEF Spec
=============================================================================
