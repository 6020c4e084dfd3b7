-------------------------- MODULE OnlineAuditProofs --------------------------
(***************************************************************************)
(* What an online audit promises, for any items, captures, pauses, faults  *)
(* and number of runs: types, and that a completed run has looked at       *)
(* everything it enrolled.                                                 *)
(***************************************************************************)
EXTENDS OnlineAudit, SequenceTheorems, WellFoundedInduction, TLAPS

\* The worker has opened a browser for the run and not yet given its job back.
Busy == {"login", "failing", "batch", "inspect", "closing", "finalize"}

Open == {"pending", "running"}

\* A run that is over has no open item, and its job is over too.
RunOK(run) ==
    run.status = "completed" => run.job = "completed" /\ WithStatus(run, Open) = {}
RunsOK == \A r \in DOMAIN runs : RunOK(runs[r])

\* What the worker does with the run it executes: only this worker has an item
\* of it running, and at the end of a batch that leaves nothing pending none is.
Executing ==
    /\ pc = "claimed" => runs[work].status # "completed"
    /\ pc \in Busy => runs[work].job = "running"
    /\ pc \in {"batch", "closing", "finalize"} => WithStatus(runs[work], {"running"}) = {}
    /\ pc = "inspect" => WithStatus(runs[work], {"running"}) \subseteq {item}
    /\ pc = "finalize" => WithStatus(runs[work], {"pending"}) = {}

IInv == TypeOK /\ RunsOK /\ Executing

-----------------------------------------------------------------------------
\* One run of the sequence is replaced by another that is in order.
LEMMA OneRun ==
    ASSUME runs \in Seq(Run), RunsOK, NEW r \in DOMAIN runs, NEW run \in Run, RunOK(run),
           runs' = [runs EXCEPT ![r] = run]
    PROVE  /\ runs' \in Seq(Run) /\ DOMAIN runs' = DOMAIN runs /\ Len(runs') = Len(runs)
           /\ RunsOK'
           /\ \A s \in DOMAIN runs : runs'[s] = IF s = r THEN run ELSE runs[s]
  <1>1. DOMAIN runs = 1..Len(runs)
    OBVIOUS
  <1>2. /\ runs' \in Seq(Run) /\ Len(runs') = Len(runs)
        /\ \A s \in 1..Len(runs) : runs'[s] = IF s = r THEN run ELSE runs[s]
    BY <1>1, ExceptSeq
  <1>3. DOMAIN runs' = 1..Len(runs')
    BY <1>2
  <1>4. QED
    BY <1>1, <1>2, <1>3 DEF RunsOK, RunOK, WithStatus

LEMMA FreshRow == Fresh \in ItemRow /\ Absent \in ItemRow /\ Absent.status = "absent"
                  /\ Fresh.status = "pending"
  BY DEF Fresh, Absent, ItemRow, ItemStatuses

\* Enrolment keeps what is in the run, adds pending items, and reopens a run
\* only when it adds one (enroll_new_manifest_items).
LEMMA Enrolment ==
    ASSUME manifest \subseteq Items, NEW run \in Run
    PROVE  LET e == enroll_new_manifest_items(run) IN
           /\ e \in Run
           /\ e.status = "completed" => e = run
           /\ run.status # "completed" => e.status = run.status /\ e.job = run.job
           /\ WithStatus(e, {"running"}) = WithStatus(run, {"running"})
           /\ WithStatus(e, {"pending"}) = {} => e = run
  <1> DEFINE e == enroll_new_manifest_items(run)
             items == [i \in Items |-> IF i \in manifest /\ run.items[i].status = "absent"
                                       THEN Fresh ELSE run.items[i]]
             added == [run EXCEPT !.items = items]
  <1>1. CASE manifest \subseteq Enrolled(run)
    <2>1. e = run
      BY <1>1 DEF enroll_new_manifest_items
    <2>2. QED
      BY <2>1
  <1>2. CASE ~(manifest \subseteq Enrolled(run))
    <2>1. added = [run EXCEPT !.items =
                          [i \in Items |-> IF i \in manifest /\ @[i].status = "absent"
                                           THEN Fresh ELSE @[i]]]
      OBVIOUS
    <2>2. e = IF run.status = "completed" THEN Requeued(added) ELSE added
      BY <1>2 DEF enroll_new_manifest_items, Requeued
    <2>3. items \in [Items -> ItemRow]
      BY FreshRow DEF Run
    <2>4. added \in Run /\ added.items = items /\ added.status = run.status
          /\ added.job = run.job
      BY <2>3 DEF Run
    <2>5. e \in Run /\ e.items = items /\ e.status # "completed"
          /\ (run.status # "completed" => e.status = run.status /\ e.job = run.job)
      BY <2>2, <2>4 DEF Requeued, Run, RunStatuses, ACTIVE, JobStatuses
    <2>6. WithStatus(e, {"running"}) = WithStatus(run, {"running"})
      BY <2>5, FreshRow DEF WithStatus
    <2>7. WithStatus(e, {"pending"}) # {}
      <3>1. PICK i \in manifest : i \notin Enrolled(run)
        BY <1>2
      <3>2. i \in Items /\ run.items[i].status = "absent"
        BY <3>1 DEF Enrolled
      <3>3. e.items[i].status = "pending"
        BY <2>5, <3>1, <3>2, FreshRow
      <3>4. QED
        BY <3>2, <3>3 DEF WithStatus
    <2>8. QED
      BY <2>5, <2>6, <2>7
  <1>3. QED
    BY <1>1, <1>2

\* The comparison of an item ends with one of the statuses of an item.
LEMMA StatusFinal ==
    ASSUME NEW online_, NEW local_, NEW archived \in BOOLEAN, NEW depth \in BOOLEAN
    PROVE  /\ ComparedStatus(online_, local_, archived, depth) \in FINAL_ITEM_STATUSES
           /\ RepairedStatus(online_, local_, depth) \in FINAL_ITEM_STATUSES
  BY DEF ComparedStatus, RecomputedStatus, RepairedStatus, Classified, classify_evidence,
         FINAL_ITEM_STATUSES, MISMATCH_ITEM_STATUSES

\* A nonempty set of runs has a newest one.
LEMMA NewestOf ==
    ASSUME NEW n \in Nat, NEW S \in SUBSET (1..n), S # {}
    PROVE  \E r \in S : \A s \in S : s <= r
  <1> DEFINE T == {n - r : r \in S}
  <1>1. T \subseteq Nat /\ T # {}
    <2>1. PICK s \in S : TRUE
      OBVIOUS
    <2>2. n - s \in T
      BY <2>1
    <2>3. \A r \in 1..n : n - r \in Nat
      OBVIOUS
    <2>4. QED
      BY <2>2, <2>3
  <1>2. PICK x \in T : \A y \in T : ~(<<y, x>> \in OpToRel(<, Nat))
    BY <1>1, NatLessThanWellFounded, WFMin
  <1>3. \A y \in T : ~(y < x)
    BY <1>1, <1>2 DEF OpToRel
  <1>4. PICK r \in S : x = n - r
    OBVIOUS
  <1>5. \A s \in S : s <= r
    <2> TAKE s \in S
    <2>1. ~(n - s < n - r)
      BY <1>3, <1>4
    <2>2. QED
      BY <2>1
  <1>6. QED
    BY <1>5

-----------------------------------------------------------------------------
LEMMA InitIInv == Init => IInv
  <1> SUFFICES ASSUME Init PROVE IInv
    OBVIOUS
  <1>1. Captures \subseteq SUBSET Rows
    BY CapturesAssumption
  <1>2. runs \in Seq(Run) /\ DOMAIN runs = {}
    BY EmptySeq DEF Init
  <1>3. TypeOK
    BY <1>1, <1>2 DEF Init, TypeOK, Pcs
  <1>4. RunsOK /\ Executing
    BY <1>2 DEF Init, RunsOK, Executing, Busy
  <1>5. QED
    BY <1>3, <1>4 DEF IInv

\* Steps that leave the runs alone.
LEMMA QuietStep ==
    ASSUME IInv,
           \/ \E i \in Items : Discover(i) \/ OaChanges(i) \/ Recapture(i)
           \/ \E task \in downloads : Supplement(task)
           \/ Crash \/ Idle \/ NothingPending \/ UNCHANGED vars
    PROVE  IInv'
  <1> USE DEF IInv, TypeOK
  <1>1. runs' = runs
    BY DEF Discover, OaChanges, Recapture, Supplement, Crash, Idle, NothingPending, vars
  <1>2. RunsOK'
    BY <1>1 DEF RunsOK, RunOK, WithStatus
  <1>3. ASSUME NEW i \in Items PROVE Captured(i) \subseteq Rows
    <2>1. online[i] \subseteq Rows
      BY CapturesAssumption
    <2>2. QED
      BY <2>1 DEF Captured
  <1>4. CASE \E i \in Items : Discover(i) \/ OaChanges(i)
    BY <1>1, <1>2, <1>4 DEF Discover, OaChanges, tasks, worker, Executing, Busy, WithStatus
  <1>5. CASE \E i \in Items : Recapture(i)
    BY <1>1, <1>2, <1>3, <1>5 DEF Recapture, tasks, bounds, Pcs, Executing, Busy
  <1>6. CASE \E task \in downloads : Supplement(task)
    <2>1. PICK task \in downloads : Supplement(task)
      BY <1>6
    <2>2. task[2] \in Items
      BY <2>1
    <2>3. local' \in [Items -> SUBSET Rows]
      BY <1>3, <2>1, <2>2 DEF Supplement
    <2>4. QED
      BY <1>1, <1>2, <2>1, <2>3 DEF Supplement, bounds, Pcs, Executing, Busy
  <1>7. CASE Crash \/ Idle
    BY <1>1, <1>2, <1>7 DEF Crash, Idle, world, tasks, bounds, Pcs, Executing, Busy
  <1>8. CASE NothingPending
    BY <1>1, <1>2, <1>8 DEF NothingPending, world, tasks, bounds, Pcs, Executing, Busy, WithStatus
  <1>9. CASE UNCHANGED vars
    BY <1>1, <1>2, <1>9 DEF vars, world, tasks, worker, Executing, WithStatus
  <1>10. QED
    BY <1>4, <1>5, <1>6, <1>7, <1>8, <1>9

\* The console: a run that is closed, paused or resumed is one no worker executes.
LEMMA ConsoleStep ==
    ASSUME IInv, Console
    PROVE  IInv'
  <1> USE DEF IInv, TypeOK
  <1>1. UNCHANGED <<world, tasks, worker>>
    BY DEF Console, StartAudit, PauseAudit, ResumeAudit, bounds
  <1>2. ASSUME NEW r \in DOMAIN runs, NEW run \in Run, runs' = [runs EXCEPT ![r] = run],
               run.status # "completed", run.items = runs[r].items,
               runs[r].job = "running" => run.job = "running"
        PROVE  IInv'
    <2>1. RunOK(run)
      BY <1>2 DEF RunOK
    <2>2. /\ runs' \in Seq(Run) /\ DOMAIN runs' = DOMAIN runs
          /\ RunsOK'
          /\ \A s \in DOMAIN runs : runs'[s] = IF s = r THEN run ELSE runs[s]
      BY <1>2, <2>1, OneRun
    <2>3. TypeOK'
      BY <1>1, <2>2 DEF world, tasks, worker
    <2>4. Executing'
      BY <1>1, <1>2, <2>2 DEF Executing, Busy, worker, WithStatus
    <2>5. QED
      BY <2>2, <2>3, <2>4
  <1>3. ASSUME NEW r \in DOMAIN runs PROVE runs[r] \in Run
    <2>1. DOMAIN runs = 1..Len(runs)
      OBVIOUS
    <2>2. QED
      BY <2>1, ElementOfSeq
  <1>4. ASSUME NEW r \in DOMAIN runs, PauseAudit(r) PROVE IInv'
    <2> DEFINE run == IF runs[r].job = "queued"
                      THEN [runs[r] EXCEPT !.status = "paused", !.pause = TRUE, !.job = "paused"]
                      ELSE [runs[r] EXCEPT !.status = "pause_requested", !.pause = TRUE]
    <2>1. runs' = [runs EXCEPT ![r] = run]
      BY <1>4 DEF PauseAudit
    <2>2. run \in Run /\ run.status # "completed" /\ run.items = runs[r].items
          /\ (runs[r].job = "running" => run.job = "running")
      BY <1>3 DEF Run, RunStatuses, ACTIVE, JobStatuses
    <2>3. QED
      BY <1>2, <2>1, <2>2
  <1>5. ASSUME NEW r \in DOMAIN runs, ResumeAudit(r) PROVE IInv'
    <2> DEFINE run == Resumed(runs[r])
    <2>1. runs' = [runs EXCEPT ![r] = run] /\ runs[r].job # "running"
      BY <1>5 DEF ResumeAudit
    <2>2. run \in Run /\ run.status # "completed" /\ run.items = runs[r].items
      BY <1>3 DEF Run, RunStatuses, ACTIVE, JobStatuses, Resumed, Requeued
    <2>3. QED
      BY <1>2, <2>1, <2>2
  <1>6. CASE StartAudit
    <2> DEFINE active == {r \in DOMAIN runs : runs[r].status \in ACTIVE}
               last == CHOOSE r \in active : \A s \in active : s <= r
               closed == IF active = {} THEN runs ELSE [runs EXCEPT ![last].status = "failed"]
    <2>1. runs' = Append(closed, NewRun)
      BY <1>6 DEF StartAudit
    <2>2. NewRun \in Run /\ RunOK(NewRun)
      BY FreshRow DEF NewRun, Run, RunStatuses, ACTIVE, JobStatuses, RunOK
    <2>3. /\ closed \in Seq(Run) /\ Len(closed) = Len(runs)
          /\ \A s \in DOMAIN runs :
                closed[s] = runs[s] \/ closed[s] = [runs[s] EXCEPT !.status = "failed"]
      <3>1. CASE active # {} /\ last \in DOMAIN runs
        <4>1. [runs[last] EXCEPT !.status = "failed"] \in Run
          BY <1>3, <3>1 DEF Run, RunStatuses
        <4>2. closed = [runs EXCEPT ![last] = [runs[last] EXCEPT !.status = "failed"]]
          BY <3>1
        <4>3. DOMAIN runs = 1..Len(runs)
          OBVIOUS
        <4> HIDE DEF last, closed
        <4>4. QED
          BY <3>1, <4>1, <4>2, <4>3, ExceptSeq
      <3>2. CASE active = {} \/ last \notin DOMAIN runs
        <4>1. runs = [s \in DOMAIN runs |-> runs[s]]
          OBVIOUS
        <4>2. closed = runs
          BY <3>2, <4>1
        <4>3. QED
          BY <4>2
      <3>3. QED
        BY <3>1, <3>2
    <2> HIDE DEF closed
    <2>4. /\ runs' \in Seq(Run) /\ Len(runs') = Len(runs) + 1
          /\ \A s \in 1..Len(runs) : runs'[s] = closed[s]
          /\ runs'[Len(runs) + 1] = NewRun
      BY <2>1, <2>2, <2>3, AppendProperties
    <2>5. DOMAIN runs = 1..Len(runs) /\ DOMAIN runs' = 1..(Len(runs) + 1)
      BY <2>4
    <2>6. ASSUME NEW s \in DOMAIN runs
          PROVE  /\ runs'[s].items = runs[s].items /\ runs'[s].job = runs[s].job
                 /\ runs'[s].status = runs[s].status \/ runs'[s].status = "failed"
      <3>1. runs'[s] = runs[s] \/ runs'[s] = [runs[s] EXCEPT !.status = "failed"]
        BY <2>3, <2>4, <2>5
      <3>2. runs[s] \in Run
        BY <1>3
      <3>3. QED
        BY <3>1, <3>2 DEF Run
    <2>7. DOMAIN runs \subseteq DOMAIN runs' /\ DOMAIN runs' = DOMAIN runs \union {Len(runs) + 1}
      BY <2>5
    <2>8. RunsOK'
      <3> SUFFICES ASSUME NEW s \in DOMAIN runs' PROVE RunOK(runs'[s])
        BY DEF RunsOK, RunOK, WithStatus
      <3>1. CASE s \in DOMAIN runs
        BY <2>6, <3>1 DEF RunsOK, RunOK, WithStatus
      <3>2. CASE s = Len(runs) + 1
        BY <2>2, <2>4, <3>2
      <3>3. QED
        BY <2>7, <3>1, <3>2
    <2>9. TypeOK'
      BY <1>1, <2>4, <2>7 DEF world, tasks, worker
    <2>10. Executing'
      BY <1>1, <2>6 DEF Executing, Busy, Pcs, worker, WithStatus
    <2>11. QED
      BY <2>8, <2>9, <2>10
  <1>7. QED
    BY <1>4, <1>5, <1>6 DEF Console

-----------------------------------------------------------------------------
\* The worker gives the run it executes, and no other, a new state.
LEMMA WorkOn ==
    ASSUME IInv, work \in DOMAIN runs, work' = work, manifest' = manifest,
           online' = online, local' = local, supplements' \subseteq (DOMAIN runs) \X Items,
           downloads' \subseteq supplements', pc' \in Pcs, pc' = "inspect" => item' \in Items,
           NEW run \in Run, RunOK(run), runs' = [runs EXCEPT ![work] = run],
           pc' = "claimed" => run.status # "completed",
           pc' \in Busy => run.job = "running",
           pc' \in {"batch", "closing", "finalize"} => WithStatus(run, {"running"}) = {},
           pc' = "inspect" => WithStatus(run, {"running"}) \subseteq {item'},
           pc' = "finalize" => WithStatus(run, {"pending"}) = {}
    PROVE  IInv'
  <1>1. /\ runs' \in Seq(Run) /\ DOMAIN runs' = DOMAIN runs
        /\ RunsOK'
        /\ runs'[work] = run
    BY OneRun DEF IInv, TypeOK
  <1>2. TypeOK'
    BY <1>1 DEF IInv, TypeOK
  <1>3. Executing'
    BY <1>1 DEF Executing, WithStatus
  <1>4. QED
    BY <1>1, <1>2, <1>3 DEF IInv

\* The run the worker executes, outside a batch.
LEMMA LoopStep ==
    ASSUME IInv,
           \/ StartWorker \/ Ensure \/ Claim \/ LeaseBusy \/ OpenBrowser
           \/ FailAudit \/ FinishFailed \/ PauseNow \/ Begin
    PROVE  IInv'
  <1> USE DEF IInv, TypeOK
  <1>1. ASSUME NEW r \in DOMAIN runs PROVE runs[r] \in Run
    <2>1. DOMAIN runs = 1..Len(runs)
      OBVIOUS
    <2>2. QED
      BY <2>1, ElementOfSeq
  <1>2. CASE StartWorker
    <2> DEFINE new(r) == IF runs[r].job = "running" THEN [runs[r] EXCEPT !.job = "queued"]
                         ELSE runs[r]
    <2>1. runs' = [r \in DOMAIN runs |-> new(r)]
      BY <1>2 DEF StartWorker
    <2>2. ASSUME NEW r \in DOMAIN runs PROVE new(r) \in Run /\ RunOK(new(r))
      BY <1>1 DEF Run, JobStatuses, RunsOK, RunOK, WithStatus
    <2> HIDE DEF new
    <2>3. DOMAIN runs = 1..Len(runs) /\ Len(runs) \in Nat
      OBVIOUS
    <2>4. runs' \in Seq(Run) /\ DOMAIN runs' = DOMAIN runs
      BY <2>1, <2>2, <2>3, IsASeq
    <2>5. RunsOK'
      BY <2>1, <2>2, <2>4 DEF RunsOK, RunOK, WithStatus
    <2>6. QED
      BY <1>2, <2>4, <2>5 DEF StartWorker, world, tasks, bounds, Pcs, Executing, Busy
  <1>3. CASE Ensure
    <2> DEFINE due == runs # <<>> /\ runs[Newest].status = "completed"
               run == enroll_new_manifest_items(runs[Newest])
    <2>1. CASE due
      <3>1. Newest \in DOMAIN runs
        BY <2>1, EmptySeq DEF Newest
      <3>2. run \in Run /\ (run.status = "completed" => run = runs[Newest])
        BY <1>1, <3>1, Enrolment
      <3>3. RunOK(run)
        BY <3>1, <3>2 DEF RunsOK, RunOK
      <3>4. runs' = [runs EXCEPT ![Newest] = run]
        BY <1>3, <2>1 DEF Ensure
      <3>5. runs' \in Seq(Run) /\ DOMAIN runs' = DOMAIN runs /\ RunsOK'
        BY <3>1, <3>2, <3>3, <3>4, OneRun
      <3>6. QED
        BY <1>3, <3>5 DEF Ensure, world, tasks, bounds, Pcs, Executing, Busy
    <2>2. CASE ~due
      <3>1. runs' = runs
        BY <1>3, <2>2 DEF Ensure
      <3>2. QED
        BY <1>3, <3>1 DEF Ensure, world, tasks, bounds, Pcs, Executing, Busy, RunsOK, RunOK,
                          WithStatus
    <2>3. QED
      BY <2>1, <2>2
  <1>4. CASE Claim
    <2>1. DOMAIN runs = 1..Len(runs) /\ Len(runs) \in Nat /\ Queued \subseteq DOMAIN runs
      BY DEF Queued
    <2>2. \E r \in Queued : \A s \in Queued : s <= r
      BY <1>4, <2>1, NewestOf DEF Claim
    <2>3. work' \in Queued
      BY <1>4, <2>2 DEF Claim
    <2>4. runs' = runs /\ work' \in DOMAIN runs /\ runs[work'].status # "completed"
      BY <1>4, <2>3 DEF Claim, Queued, RunsOK, RunOK
    <2>5. QED
      BY <1>4, <2>4 DEF Claim, world, tasks, bounds, Pcs, Executing, Busy, RunsOK, RunOK,
                        WithStatus
  <1>5. CASE LeaseBusy
    <2> DEFINE run == [runs[work] EXCEPT !.job = "queued"]
    <2>1. work \in DOMAIN runs /\ runs[work].status # "completed"
      BY <1>5 DEF LeaseBusy, Executing
    <2>2. run \in Run /\ RunOK(run)
      BY <1>1, <2>1 DEF Run, JobStatuses, RunOK
    <2>3. runs' = [runs EXCEPT ![work] = run]
      BY <1>5 DEF LeaseBusy
    <2>4. QED
      BY <1>5, <2>1, <2>2, <2>3, WorkOn DEF LeaseBusy, world, tasks, Pcs, Busy
  <1>6. CASE OpenBrowser
    <2> DEFINE run == [runs[work] EXCEPT !.job = "running"]
    <2>1. work \in DOMAIN runs /\ runs[work].status # "completed"
      BY <1>6 DEF OpenBrowser, Executing
    <2>2. run \in Run /\ RunOK(run) /\ run.job = "running"
      BY <1>1, <2>1 DEF Run, JobStatuses, RunOK
    <2>3. runs' = [runs EXCEPT ![work] = run]
      BY <1>6 DEF OpenBrowser
    <2>4. QED
      BY <1>6, <2>1, <2>2, <2>3, WorkOn DEF OpenBrowser, world, tasks, Pcs, Busy
  <1>7. CASE FailAudit
    <2> DEFINE run == [runs[work] EXCEPT !.status = "failed"]
    <2>1. work \in DOMAIN runs /\ runs[work].job = "running"
      BY <1>7 DEF FailAudit, Executing, Busy
    <2>2. run \in Run /\ RunOK(run) /\ run.job = "running"
      BY <1>1, <2>1 DEF Run, RunStatuses, RunOK
    <2>3. runs' = [runs EXCEPT ![work] = run]
      BY <1>7 DEF FailAudit
    <2>4. QED
      BY <1>7, <2>1, <2>2, <2>3, WorkOn DEF FailAudit, world, tasks, Pcs, Busy
  <1>8. CASE FinishFailed
    <2> DEFINE run == [runs[work] EXCEPT !.job = "failed"]
    <2>1. work \in DOMAIN runs /\ runs[work].status # "completed"
      BY <1>8 DEF FinishFailed, Executing, Busy, RunsOK, RunOK
    <2>2. run \in Run /\ RunOK(run)
      BY <1>1, <2>1 DEF Run, JobStatuses, RunOK
    <2>3. runs' = [runs EXCEPT ![work] = run]
      BY <1>8 DEF FinishFailed
    <2>4. QED
      BY <1>8, <2>1, <2>2, <2>3, WorkOn DEF FinishFailed, world, tasks, Pcs, Busy
  <1>9. CASE PauseNow
    <2> DEFINE run == [runs[work] EXCEPT !.status = "paused", !.job = "paused"]
    <2>1. work \in DOMAIN runs
      BY <1>9 DEF PauseNow
    <2>2. run \in Run /\ RunOK(run)
      BY <1>1, <2>1 DEF Run, RunStatuses, ACTIVE, JobStatuses, RunOK
    <2>3. runs' = [runs EXCEPT ![work] = run]
      BY <1>9, <2>1 DEF PauseNow
    <2>4. QED
      BY <1>9, <2>1, <2>2, <2>3, WorkOn DEF PauseNow, world, tasks, Pcs, Busy
  <1>10. CASE Begin
    <2> DEFINE e == enroll_new_manifest_items(runs[work])
               row(i) == Repaired(Recovered(e.items[i]))
               run == [e EXCEPT !.status = "running", !.job = "running",
                                !.items = [i \in Items |-> row(i)]]
    <2>1. work \in DOMAIN runs
      BY <1>10 DEF Begin
    <2>2. e \in Run
      BY <1>1, <2>1, Enrolment
    <2>3. ASSUME NEW i \in Items PROVE row(i) \in ItemRow /\ row(i).status # "running"
      <3>1. e.items[i] \in ItemRow
        BY <2>2 DEF Run
      <3> DEFINE kept == Recovered(e.items[i])
      <3>2. kept \in ItemRow /\ kept.status # "running"
        BY <3>1 DEF Recovered, ItemRow, ItemStatuses
      <3>3. RepairedStatus(kept.online, kept.local, FALSE) \in FINAL_ITEM_STATUSES
        BY StatusFinal
      <3> HIDE DEF kept
      <3>4. Repaired(kept) \in ItemRow /\ Repaired(kept).status # "running"
        BY <3>2, <3>3 DEF Repaired, ItemRow, ItemStatuses, FINAL_ITEM_STATUSES,
                          MISMATCH_ITEM_STATUSES
      <3>5. QED
        BY <3>4 DEF kept
    <2> HIDE DEF row, e
    <2>4. run \in Run /\ RunOK(run) /\ run.job = "running" /\ WithStatus(run, {"running"}) = {}
      BY <2>2, <2>3 DEF Run, RunStatuses, ACTIVE, JobStatuses, RunOK, WithStatus
    <2>5. runs' = [runs EXCEPT ![work] = run]
      BY <1>10, <2>1 DEF Begin, e, row
    <2>6. QED
      BY <1>10, <2>1, <2>4, <2>5, WorkOn DEF Begin, world, tasks, Pcs, Busy
  <1>11. QED
    BY <1>2, <1>3, <1>4, <1>5, <1>6, <1>7, <1>8, <1>9, <1>10

-----------------------------------------------------------------------------
\* An item of the run gets another row.
LEMMA ItemRowSet ==
    ASSUME NEW run \in Run, NEW i \in Items, NEW row \in ItemRow
    PROVE  LET new == [run EXCEPT !.items[i] = row] IN
           /\ new \in Run /\ new.status = run.status /\ new.job = run.job
           /\ \A k \in Items : new.items[k] = IF k = i THEN row ELSE run.items[k]
  <1> DEFINE new == [run EXCEPT !.items[i] = row]
             items == [run.items EXCEPT ![i] = row]
  <1>1. new = [run EXCEPT !.items = items]
    OBVIOUS
  <1>2. items \in [Items -> ItemRow] /\ \A k \in Items : items[k] = IF k = i THEN row ELSE run.items[k]
    BY DEF Run
  <1> HIDE DEF items
  <1>3. QED
    BY <1>1, <1>2 DEF Run

LEMMA RowStatus ==
    ASSUME NEW run \in Run, NEW i \in Items, NEW status \in ItemStatuses
    PROVE  LET row == [run.items[i] EXCEPT !.status = status] IN
           row \in ItemRow /\ row.status = status
  <1>1. run.items \in [Items -> ItemRow]
    BY DEF Run
  <1>2. run.items[i] \in ItemRow
    BY <1>1
  <1>3. QED
    BY <1>2 DEF ItemRow

\* Steps inside execute_audit.
LEMMA BatchStep ==
    ASSUME IInv,
           \/ \E i \in Items : StartItem(i)
           \/ Record \/ AccessFails \/ CloseBatch \/ RetryAccess \/ Complete
    PROVE  IInv'
  <1> USE DEF IInv, TypeOK
  <1>1. /\ work \in DOMAIN runs /\ runs[work] \in Run /\ runs[work].job = "running"
        /\ runs[work].status # "completed"
    <2>1. pc \in {"batch", "inspect", "closing", "finalize"}
      BY DEF StartItem, Record, AccessFails, CloseBatch, RetryAccess, Complete
    <2>2. work \in DOMAIN runs /\ runs[work].job = "running"
      BY <2>1 DEF Executing, Busy
    <2>3. DOMAIN runs = 1..Len(runs)
      OBVIOUS
    <2>4. QED
      BY <2>2, <2>3, ElementOfSeq DEF RunsOK, RunOK
  <1>2. ASSUME NEW i \in Items, StartItem(i) PROVE IInv'
    <2> DEFINE row == [runs[work].items[i] EXCEPT !.status = "running"]
               run == [runs[work] EXCEPT !.items[i] = row]
    <2>1. row \in ItemRow
      BY <1>1, RowStatus DEF ItemStatuses
    <2>2. /\ run \in Run /\ run.status # "completed" /\ run.job = "running"
          /\ \A k \in Items : run.items[k] = IF k = i THEN row ELSE runs[work].items[k]
      BY <1>1, <2>1, ItemRowSet
    <2>3. runs' = [runs EXCEPT ![work] = run]
      BY <1>1, <1>2 DEF StartItem
    <2>4. WithStatus(runs[work], {"running"}) = {}
      BY <1>2 DEF StartItem, Executing
    <2> HIDE DEF run
    <2>5. WithStatus(run, {"running"}) \subseteq {i}
      BY <2>2, <2>4 DEF WithStatus
    <2>6. QED
      BY <1>1, <1>2, <2>2, <2>3, <2>5, WorkOn DEF StartItem, world, tasks, Pcs, Busy, RunOK
  <1>3. ASSUME NEW row \in ItemRow, row.status # "running",
               runs' = [runs EXCEPT ![work].items[item] = row],
               pc = "inspect", pc' \in {"batch", "closing"}, UNCHANGED <<world, work, item>>,
               supplements' \subseteq (DOMAIN runs) \X Items, downloads' \subseteq supplements'
        PROVE  IInv'
    <2> DEFINE run == [runs[work] EXCEPT !.items[item] = row]
    <2>1. item \in Items
      BY <1>3
    <2>2. /\ run \in Run /\ run.status # "completed" /\ run.job = "running"
          /\ \A k \in Items : run.items[k] = IF k = item THEN row ELSE runs[work].items[k]
      BY <1>1, <1>3, <2>1, ItemRowSet
    <2>3. runs' = [runs EXCEPT ![work] = run]
      BY <1>1, <1>3
    <2>4. WithStatus(runs[work], {"running"}) \subseteq {item}
      BY <1>3 DEF Executing
    <2> HIDE DEF run
    <2>5. WithStatus(run, {"running"}) = {}
      BY <1>3, <2>2, <2>4 DEF WithStatus
    <2>6. QED
      BY <1>1, <1>3, <2>2, <2>3, <2>5, WorkOn DEF world, Pcs, Busy, RunOK
  <1>4. CASE Record
    <2> DEFINE found == [status |-> Verdict(item), online |-> online[item], local |-> local[item]]
               wanted == IF found.status = "missing_download" THEN {<<work, item>>} ELSE {}
    <2>1. item \in Items
      BY <1>4 DEF Record
    <2>2. Verdict(item) \in FINAL_ITEM_STATUSES
      BY StatusFinal DEF Verdict
    <2>3. found \in ItemRow /\ found.status # "running"
      BY <2>1, <2>2, CapturesAssumption DEF ItemRow, ItemStatuses, FINAL_ITEM_STATUSES,
                                            MISMATCH_ITEM_STATUSES
    <2>4. wanted \subseteq (DOMAIN runs) \X Items
      BY <1>1, <2>1
    <2>5. /\ runs' = [runs EXCEPT ![work].items[item] = found]
          /\ supplements' = supplements \union wanted
          /\ downloads' = downloads \union (wanted \ supplements)
          /\ pc = "inspect" /\ pc' \in {"batch", "closing"} /\ UNCHANGED <<world, work, item>>
      BY <1>4 DEF Record
    <2> HIDE DEF found, wanted
    <2>6. supplements' \subseteq (DOMAIN runs) \X Items /\ downloads' \subseteq supplements'
      BY <2>4, <2>5
    <2>7. QED
      BY <1>3, <2>3, <2>5, <2>6
  <1>5. CASE AccessFails
    <2> DEFINE row == [runs[work].items[item] EXCEPT !.status = "access_failed"]
    <2>1. item \in Items
      BY <1>5 DEF AccessFails
    <2>2. row \in ItemRow /\ row.status # "running"
      BY <1>1, <2>1, RowStatus DEF ItemStatuses, FINAL_ITEM_STATUSES
    <2>3. runs' = [runs EXCEPT ![work].items[item] = row]
      BY <1>1, <1>5 DEF AccessFails
    <2> HIDE DEF row
    <2>4. QED
      BY <1>3, <1>5, <2>2, <2>3 DEF AccessFails, tasks
  <1>6. CASE CloseBatch
    <2> DEFINE e == enroll_new_manifest_items(runs[work])
    <2>1. /\ e \in Run /\ e.status # "completed" /\ e.job = "running"
          /\ WithStatus(e, {"running"}) = WithStatus(runs[work], {"running"})
          /\ WithStatus(e, {"pending"}) = {} => e = runs[work]
      BY <1>1, Enrolment
    <2> HIDE DEF e
    <2>2. CASE WithStatus(e, {"pending"}) # {}
      <3> DEFINE run == Requeued(e)
      <3>1. runs' = [runs EXCEPT ![work] = run] /\ pc' = "ready"
        BY <1>6, <2>2 DEF CloseBatch, e
      <3>2. run \in Run /\ run.status # "completed"
        BY <2>1 DEF Requeued, Run, RunStatuses, ACTIVE, JobStatuses
      <3> HIDE DEF run
      <3>3. QED
        BY <1>1, <1>6, <3>1, <3>2, WorkOn DEF CloseBatch, world, tasks, Pcs, Busy, RunOK
    <2>3. CASE WithStatus(e, {"pending"}) = {}
      <3>1. runs' = runs /\ pc' = "finalize" /\ pc = "closing"
        BY <1>6, <2>3 DEF CloseBatch, e
      <3>2. WithStatus(runs[work], {"pending"}) = {}
        BY <2>1, <2>3
      <3>3. QED
        BY <1>1, <1>6, <3>1, <3>2 DEF CloseBatch, world, tasks, Pcs, Busy, RunsOK, RunOK,
                                      Executing, WithStatus
    <2>4. QED
      BY <2>2, <2>3
  <1>7. CASE RetryAccess
    <2> DEFINE failed == WithStatus(runs[work], {"access_failed"})
               items == [i \in Items |-> IF i \in failed
                            THEN [runs[work].items[i] EXCEPT !.status = "pending"]
                            ELSE runs[work].items[i]]
               run == [Requeued(runs[work]) EXCEPT !.retried = TRUE, !.items = items]
    <2>1. items \in [Items -> ItemRow]
      <3>1. runs[work].items \in [Items -> ItemRow] /\ "pending" \in ItemStatuses
        BY <1>1 DEF Run, ItemStatuses
      <3>2. QED
        BY <1>1, <3>1, RowStatus
    <2>2. runs' = [runs EXCEPT ![work] = run] /\ pc' = "ready"
      <3>1. Requeued(runs[work]).items = runs[work].items
        BY <1>1 DEF Requeued, Run
      <3>2. QED
        BY <1>7, <3>1 DEF RetryAccess
    <2> HIDE DEF items
    <2>3. run \in Run /\ run.status # "completed"
      BY <1>1, <2>1 DEF Requeued, Run, RunStatuses, ACTIVE, JobStatuses
    <2> HIDE DEF run
    <2>4. QED
      BY <1>1, <1>7, <2>2, <2>3, WorkOn DEF RetryAccess, world, tasks, Pcs, Busy, RunOK
  <1>8. CASE Complete
    <2> DEFINE run == [runs[work] EXCEPT !.status = "completed", !.job = "completed"]
    <2>1. runs' = [runs EXCEPT ![work] = run] /\ pc = "finalize" /\ pc' = "ready"
      BY <1>1, <1>8 DEF Complete
    <2>2. run \in Run /\ run.job = "completed" /\ run.items = runs[work].items
      BY <1>1 DEF Run, RunStatuses, JobStatuses
    <2>3. WithStatus(runs[work], Open) = {}
      BY <2>1 DEF Executing, WithStatus, Open
    <2>4. RunOK(run)
      BY <2>2, <2>3 DEF RunOK, WithStatus
    <2> HIDE DEF run
    <2>5. QED
      BY <1>1, <1>8, <2>1, <2>2, <2>4, WorkOn DEF Complete, world, tasks, Pcs, Busy
  <1>9. QED
    BY <1>2, <1>4, <1>5, <1>6, <1>7, <1>8

LEMMA NextIInv == IInv /\ [Next]_vars => IInv'
  <1> SUFFICES ASSUME IInv, [Next]_vars PROVE IInv'
    OBVIOUS
  <1>1. QED
    BY QuietStep, ConsoleStep, LoopStep, BatchStep DEF Next, Work

-----------------------------------------------------------------------------
\* The columns of runs and items, and what the worker remembers, keep their
\* types; a supplement belongs to a run and an item (online_audit.py).
THEOREM AuditTypes == Spec => []TypeOK
  <1>1. IInv => TypeOK
    BY DEF IInv
  <1>2. QED
    BY InitIInv, NextIInv, <1>1, PTL DEF Spec

\* A completed run has looked at every item it enrolled, for any number of
\* items, runs, pauses, crashes and failures: only the last batch of the worker
\* that executes the run completes it, and nothing of it was pending then, nor
\* running, since a new worker puts back what its predecessor left
\* (online_audit.py, execute_audit).
THEOREM AuditCompletedMeansAudited == Spec => []CompletedMeansAudited
  <1>1. IInv => CompletedMeansAudited
    BY DEF IInv, RunsOK, RunOK, CompletedMeansAudited, Open
  <1>2. QED
    BY InitIInv, NextIInv, <1>1, PTL DEF Spec

-----------------------------------------------------------------------------
(* The audit implements the ledger: its newest run is the ledger's.        *)

LedgerOpen == runs # <<>> /\ runs[Newest].status # "completed"
LedgerVerdicts ==
    IF runs = <<>> THEN [i \in {} |-> "undecided"]
    ELSE [i \in Enrolled(runs[Newest]) |-> LedgerVerdict(runs[Newest], i)]

\* Enrolment touches no row that is there, and a closed run is changed only by
\* an item it does not know.
LEMMA EnrolmentRows ==
    ASSUME manifest \subseteq Items, NEW run \in Run
    PROVE  LET e == enroll_new_manifest_items(run) IN
           /\ \A i \in Items : e.items[i] = IF i \in manifest /\ run.items[i].status = "absent"
                                            THEN Fresh ELSE run.items[i]
           /\ e # run => \E i \in manifest : run.items[i].status = "absent"
  <1> DEFINE e == enroll_new_manifest_items(run)
             items == [i \in Items |-> IF i \in manifest /\ run.items[i].status = "absent"
                                       THEN Fresh ELSE run.items[i]]
             added == [run EXCEPT !.items = items]
  <1>1. CASE manifest \subseteq Enrolled(run)
    <2>1. e = run
      BY <1>1 DEF enroll_new_manifest_items
    <2>2. QED
      BY <1>1, <2>1 DEF Enrolled
  <1>2. CASE ~(manifest \subseteq Enrolled(run))
    <2>1. added = [run EXCEPT !.items =
                          [i \in Items |-> IF i \in manifest /\ @[i].status = "absent"
                                           THEN Fresh ELSE @[i]]]
      OBVIOUS
    <2>2. e = IF run.status = "completed" THEN Requeued(added) ELSE added
      BY <1>2 DEF enroll_new_manifest_items, Requeued
    <2>3. items \in [Items -> ItemRow]
      BY FreshRow DEF Run
    <2>4. added \in Run /\ added.items = items
      BY <2>3 DEF Run
    <2>5. e.items = items
      BY <2>2, <2>4 DEF Requeued, Run
    <2>6. \E i \in manifest : run.items[i].status = "absent"
      BY <1>2 DEF Enrolled
    <2>7. QED
      BY <2>5, <2>6
  <1>3. QED
    BY <1>1, <1>2

\* A run that is open before and after a step, and loses no item in it.
Goes(old, new) ==
    /\ old.status # "completed" /\ new.status # "completed"
    /\ Enrolled(old) \subseteq Enrolled(new)

\* The steps an audit can take, as far as the ledger is concerned.
Moves ==
    \/ UNCHANGED runs
    \/ StartAudit \/ StartWorker \/ Ensure \/ Complete
    \/ \E r \in DOMAIN runs : /\ Goes(runs[r], runs'[r])
                              /\ \A s \in DOMAIN runs \ {r} : runs'[s] = runs[s]
                              /\ Len(runs') = Len(runs)

LEMMA StepMoves == ASSUME IInv, IInv', [Next]_vars PROVE Moves
  <1> USE DEF IInv, TypeOK
  <1>1. ASSUME NEW r \in DOMAIN runs, NEW run, runs' = [runs EXCEPT ![r] = run],
               Goes(runs[r], run)
        PROVE  Moves
    BY <1>1 DEF Moves
  <1>2. ASSUME NEW r \in DOMAIN runs PROVE runs[r] \in Run
    <2>1. DOMAIN runs = 1..Len(runs)
      OBVIOUS
    <2>2. QED
      BY <2>1, ElementOfSeq
  <1>3. ASSUME pc \in Busy
        PROVE  work \in DOMAIN runs /\ runs[work].status # "completed"
    BY <1>3 DEF Executing, Busy, RunsOK, RunOK
  <1>4. CASE \/ \E i \in Items : Discover(i) \/ OaChanges(i) \/ Recapture(i)
             \/ \E task \in downloads : Supplement(task)
             \/ Crash \/ Idle \/ NothingPending \/ Claim \/ UNCHANGED vars
    BY <1>4 DEF Moves, Discover, OaChanges, Recapture, Supplement, Crash, Idle, NothingPending,
                Claim, vars
  <1>5. ASSUME NEW r \in DOMAIN runs, PauseAudit(r) \/ ResumeAudit(r) PROVE Moves
    <2> DEFINE paused == IF runs[r].job = "queued"
                         THEN [runs[r] EXCEPT !.status = "paused", !.pause = TRUE, !.job = "paused"]
                         ELSE [runs[r] EXCEPT !.status = "pause_requested", !.pause = TRUE]
               resumed == Resumed(runs[r])
    <2>1. runs' = [runs EXCEPT ![r] = paused] \/ runs' = [runs EXCEPT ![r] = resumed]
      BY <1>5 DEF PauseAudit, ResumeAudit
    <2>2. runs[r].status # "completed"
      BY <1>5 DEF PauseAudit, ResumeAudit
    <2>3. Goes(runs[r], paused) /\ Goes(runs[r], resumed)
      BY <1>2, <2>2 DEF Goes, Enrolled, Resumed, Requeued, Run
    <2> HIDE DEF paused, resumed
    <2>4. QED
      BY <1>1, <2>1, <2>3
  <1>6. CASE LeaseBusy \/ OpenBrowser
    <2> DEFINE busy == [runs[work] EXCEPT !.job = "queued"]
               opened == [runs[work] EXCEPT !.job = "running"]
    <2>1. work \in DOMAIN runs /\ runs[work].status # "completed"
      BY <1>6 DEF LeaseBusy, OpenBrowser, Executing
    <2>2. runs' = [runs EXCEPT ![work] = busy] \/ runs' = [runs EXCEPT ![work] = opened]
      BY <1>6, <2>1 DEF LeaseBusy, OpenBrowser
    <2>3. Goes(runs[work], busy) /\ Goes(runs[work], opened)
      BY <1>2, <2>1 DEF Goes, Enrolled, Run
    <2> HIDE DEF busy, opened
    <2>4. QED
      BY <1>1, <2>1, <2>2, <2>3
  <1>7. CASE FailAudit \/ FinishFailed \/ PauseNow
    <2> DEFINE stopped == [runs[work] EXCEPT !.status = "failed"]
               finished == [runs[work] EXCEPT !.job = "failed"]
               paused == [runs[work] EXCEPT !.status = "paused", !.job = "paused"]
    <2>1. work \in DOMAIN runs /\ runs[work].status # "completed"
      BY <1>3, <1>7 DEF FailAudit, FinishFailed, PauseNow, Busy
    <2>2. \/ runs' = [runs EXCEPT ![work] = stopped] \/ runs' = [runs EXCEPT ![work] = finished]
          \/ runs' = [runs EXCEPT ![work] = paused]
      BY <1>7, <2>1 DEF FailAudit, FinishFailed, PauseNow
    <2>3. Goes(runs[work], stopped) /\ Goes(runs[work], finished) /\ Goes(runs[work], paused)
      BY <1>2, <2>1 DEF Goes, Enrolled, Run
    <2> HIDE DEF stopped, finished, paused
    <2>4. QED
      BY <1>1, <2>1, <2>2, <2>3
  <1>8. CASE Begin
    <2> DEFINE e == enroll_new_manifest_items(runs[work])
               row(i) == Repaired(Recovered(e.items[i]))
               run == [e EXCEPT !.status = "running", !.job = "running",
                                !.items = [i \in Items |-> row(i)]]
    <2>1. work \in DOMAIN runs /\ runs[work].status # "completed"
      BY <1>3, <1>8 DEF Begin, Busy
    <2>2. e \in Run /\ Enrolled(runs[work]) \subseteq Enrolled(e)
      BY <1>2, <2>1, Enrolment, EnrolmentRows, FreshRow DEF Enrolled
    <2>3. ASSUME NEW i \in Enrolled(e) PROVE row(i).status # "absent"
      <3>1. e.items[i] \in ItemRow /\ e.items[i].status # "absent"
        BY <2>2 DEF Enrolled, Run
      <3> DEFINE kept == Recovered(e.items[i])
      <3>2. kept \in ItemRow /\ kept.status # "absent"
        BY <3>1 DEF Recovered, ItemRow, ItemStatuses
      <3>3. RepairedStatus(kept.online, kept.local, FALSE) \in FINAL_ITEM_STATUSES
        BY StatusFinal
      <3> HIDE DEF kept
      <3>4. Repaired(kept).status # "absent"
        BY <3>2, <3>3 DEF Repaired, ItemRow, FINAL_ITEM_STATUSES, MISMATCH_ITEM_STATUSES
      <3>5. QED
        BY <3>4 DEF kept
    <2> HIDE DEF row, e
    <2>4. Goes(runs[work], run)
      BY <2>1, <2>2, <2>3 DEF Goes, Enrolled, Run
    <2>5. runs' = [runs EXCEPT ![work] = run]
      BY <1>8, <2>1 DEF Begin, e, row
    <2>6. QED
      BY <1>1, <2>1, <2>4, <2>5
  <1>9. ASSUME NEW i \in Items, NEW row, row.status # "absent", pc \in Busy,
               runs' = [runs EXCEPT ![work].items[i] = row]
        PROVE  Moves
    <2> DEFINE items == [runs[work].items EXCEPT ![i] = row]
               run == [runs[work] EXCEPT !.items = items]
    <2>1. runs' = [runs EXCEPT ![work] = run]
      BY <1>3, <1>9
    <2>2. \A k \in Items : items[k] = IF k = i THEN row ELSE runs[work].items[k]
      BY <1>2, <1>3, <1>9 DEF Run
    <2> HIDE DEF items
    <2>3. Goes(runs[work], run)
      BY <1>2, <1>3, <1>9, <2>2 DEF Goes, Enrolled, Run
    <2> HIDE DEF run
    <2>4. QED
      BY <1>1, <1>3, <1>9, <2>1, <2>3
  <1>10. ASSUME NEW i \in Items, StartItem(i) PROVE Moves
    <2> DEFINE row == [runs[work].items[i] EXCEPT !.status = "running"]
    <2>1. pc \in Busy
      BY <1>10 DEF StartItem, Busy
    <2>2. row.status = "running"
      BY <1>2, <1>3, <2>1, RowStatus DEF ItemStatuses
    <2>3. runs' = [runs EXCEPT ![work].items[i] = row]
      BY <1>3, <1>10, <2>1 DEF StartItem
    <2> HIDE DEF row
    <2>4. QED
      BY <1>9, <2>1, <2>2, <2>3
  <1>11. CASE Record
    <2> DEFINE found == [status |-> Verdict(item), online |-> online[item], local |-> local[item]]
    <2>1. pc \in Busy /\ item \in Items /\ runs' = [runs EXCEPT ![work].items[item] = found]
      BY <1>11 DEF Record, Busy
    <2>2. Verdict(item) \in FINAL_ITEM_STATUSES
      BY StatusFinal DEF Verdict
    <2>3. found.status # "absent"
      BY <2>2 DEF FINAL_ITEM_STATUSES, MISMATCH_ITEM_STATUSES
    <2> HIDE DEF found
    <2>4. QED
      BY <1>9, <2>1, <2>3
  <1>12. CASE AccessFails
    <2> DEFINE row == [runs[work].items[item] EXCEPT !.status = "access_failed"]
    <2>1. pc \in Busy /\ item \in Items
      BY <1>12 DEF AccessFails, Busy
    <2>2. row.status = "access_failed"
      BY <1>2, <1>3, <2>1, RowStatus DEF ItemStatuses, FINAL_ITEM_STATUSES
    <2>3. runs' = [runs EXCEPT ![work].items[item] = row]
      BY <1>3, <1>12, <2>1 DEF AccessFails
    <2> HIDE DEF row
    <2>4. QED
      BY <1>9, <2>1, <2>2, <2>3
  <1>13. CASE CloseBatch
    <2> DEFINE e == enroll_new_manifest_items(runs[work])
               run == Requeued(e)
    <2>1. work \in DOMAIN runs /\ runs[work].status # "completed"
      BY <1>3, <1>13 DEF CloseBatch, Busy
    <2>2. e \in Run /\ Enrolled(runs[work]) \subseteq Enrolled(e)
      BY <1>2, <2>1, Enrolment, EnrolmentRows, FreshRow DEF Enrolled
    <2> HIDE DEF e
    <2>3. Goes(runs[work], run)
      BY <2>1, <2>2 DEF Goes, Enrolled, Requeued, Run
    <2>4. runs' = [runs EXCEPT ![work] = run] \/ runs' = runs
      BY <1>13 DEF CloseBatch, e
    <2> HIDE DEF run
    <2>5. QED
      BY <1>1, <2>1, <2>3, <2>4 DEF Moves
  <1>14. CASE RetryAccess
    <2> DEFINE failed == WithStatus(runs[work], {"access_failed"})
               items == [i \in Items |-> IF i \in failed
                            THEN [runs[work].items[i] EXCEPT !.status = "pending"]
                            ELSE runs[work].items[i]]
               run == [Requeued(runs[work]) EXCEPT !.retried = TRUE, !.items = items]
    <2>1. work \in DOMAIN runs /\ runs[work].status # "completed" /\ runs[work] \in Run
      BY <1>2, <1>3, <1>14 DEF RetryAccess, Busy
    <2>2. runs' = [runs EXCEPT ![work] = run]
      <3>1. Requeued(runs[work]).items = runs[work].items
        BY <2>1 DEF Requeued, Run
      <3>2. QED
        BY <1>14, <3>1 DEF RetryAccess
    <2>3. ASSUME NEW i \in Enrolled(runs[work]) PROVE items[i].status # "absent"
      BY <2>1, RowStatus DEF Enrolled, ItemStatuses
    <2> HIDE DEF items
    <2>4. Goes(runs[work], run)
      BY <2>1, <2>3 DEF Goes, Enrolled, Requeued, Run
    <2> HIDE DEF run
    <2>5. QED
      BY <1>1, <2>1, <2>2, <2>4
  <1>15. QED
    BY <1>4, <1>5, <1>6, <1>7, <1>8, <1>10, <1>11, <1>12, <1>13, <1>14
       DEF Next, Work, Console, Moves

-----------------------------------------------------------------------------
LEMMA LedgerInit == Init => Ledger!Init
  <1> SUFFICES ASSUME Init PROVE Ledger!Init
    OBVIOUS
  <1>1. runs = <<>> /\ Len(runs) = 0
    BY EmptySeq DEF Init
  <1>2. [i \in {} |-> "undecided"] \in [{} -> Ledger!Verdicts]
    OBVIOUS
  <1>3. QED
    BY <1>1, <1>2 DEF Ledger!Init

\* Every move of the audit is a move of the ledger or none.
LEMMA LedgerStep ==
    ASSUME IInv, IInv', Moves
    PROVE  [Ledger!Next]_(Ledger!ledger)
  <1> USE DEF IInv, TypeOK
  <1> DEFINE same == /\ Len(runs') = Len(runs) /\ LedgerOpen' = LedgerOpen
                     /\ LedgerVerdicts' = LedgerVerdicts
  <1>1. ASSUME same PROVE [Ledger!Next]_(Ledger!ledger)
    BY <1>1 DEF Ledger!ledger, LedgerOpen, LedgerVerdicts
  <1>2. DOMAIN runs = 1..Len(runs) /\ DOMAIN runs' = 1..Len(runs') /\ Len(runs) \in Nat
        /\ Len(runs') \in Nat
    OBVIOUS
  <1>3. (runs = <<>> <=> Len(runs) = 0) /\ (runs' = <<>> <=> Len(runs') = 0)
    BY EmptySeq
  <1>4. ASSUME Len(runs') = Len(runs),
               runs # <<>> => /\ (runs'[Newest].status = "completed"
                                    <=> runs[Newest].status = "completed")
                              /\ runs'[Newest].items = runs[Newest].items
        PROVE  [Ledger!Next]_(Ledger!ledger)
    <2>1. runs = <<>> <=> runs' = <<>>
      BY <1>3, <1>4
    <2>2. same
      BY <1>4, <2>1 DEF LedgerOpen, LedgerVerdicts, Newest, Enrolled, LedgerVerdict, SafeItem
    <2>3. QED
      BY <1>1, <2>2
  <1>5. \A run, i : LedgerVerdict(run, i) \in {"undecided", "safe", "unsafe"}
    BY DEF LedgerVerdict
  <1>6. CASE UNCHANGED runs
    BY <1>4, <1>6
  <1>7. CASE StartWorker
    <2>1. runs' = [r \in DOMAIN runs |->
                     IF runs[r].job = "running" THEN [runs[r] EXCEPT !.job = "queued"]
                     ELSE runs[r]]
      BY <1>7 DEF StartWorker
    <2>2. Len(runs') = Len(runs)
      BY <1>2, <2>1
    <2>3. ASSUME runs # <<>> PROVE Newest \in DOMAIN runs /\ runs[Newest] \in Run
      BY <1>2, <1>3, <2>3, ElementOfSeq DEF Newest
    <2>4. QED
      BY <1>4, <2>1, <2>2, <2>3 DEF Run
  <1>8. CASE \E r \in DOMAIN runs : /\ Goes(runs[r], runs'[r])
                                    /\ \A s \in DOMAIN runs \ {r} : runs'[s] = runs[s]
                                    /\ Len(runs') = Len(runs)
    <2>1. PICK r \in DOMAIN runs : /\ Goes(runs[r], runs'[r])
                                   /\ \A s \in DOMAIN runs \ {r} : runs'[s] = runs[s]
                                   /\ Len(runs') = Len(runs)
      BY <1>8
    <2>2. Newest \in DOMAIN runs /\ runs # <<>> /\ runs' # <<>> /\ Newest' = Newest
      BY <1>2, <1>3, <2>1 DEF Newest
    <2>3. CASE r = Newest
      <3> DEFINE S == Enrolled(runs'[Newest])
      <3>1. LedgerOpen /\ LedgerOpen'
        BY <2>1, <2>2, <2>3 DEF LedgerOpen, Goes
      <3>2. LedgerVerdicts' \in [S -> {"undecided", "safe", "unsafe"}]
        BY <1>5, <2>2 DEF LedgerVerdicts, Enrolled, LedgerVerdict, SafeItem
      <3>3. DOMAIN LedgerVerdicts \subseteq S /\ S \in SUBSET Items
        BY <2>1, <2>2, <2>3 DEF LedgerVerdicts, Goes, Enrolled
      <3>4. Ledger!Audit(S)
        BY <2>1, <3>1, <3>2, <3>3
           DEF Ledger!Audit, Ledger!Verdicts, LedgerOpen, LedgerVerdicts
      <3>5. QED
        BY <3>3, <3>4 DEF Ledger!Next
    <2>4. CASE r # Newest
      BY <1>4, <2>1, <2>2, <2>4
    <2>5. QED
      BY <2>3, <2>4
  <1>9. CASE StartAudit
    <2> DEFINE S == manifest
    <2>1. Len(runs') = Len(runs) + 1 /\ runs'[Len(runs')] = NewRun
      <3>1. \E closed : /\ runs' = Append(closed, NewRun)
                        /\ closed = runs \/ \E r, new : closed = [runs EXCEPT ![r] = new]
        BY <1>9 DEF StartAudit
      <3>2. PICK closed : /\ runs' = Append(closed, NewRun)
                          /\ closed = runs \/ \E r, new : closed = [runs EXCEPT ![r] = new]
        BY <3>1
      <3>3. DOMAIN closed = 1..Len(runs) /\ closed = [k \in 1..Len(runs) |-> closed[k]]
        BY <1>2, <3>2
      <3>4. closed \in Seq({closed[k] : k \in 1..Len(runs)} \union {NewRun})
            /\ Len(closed) = Len(runs)
        BY <1>2, <3>3, IsASeq
      <3>5. QED
        BY <3>2, <3>4, AppendProperties
    <2>2. runs' # <<>> /\ Newest' = Len(runs')
      BY <1>2, <1>3, <2>1 DEF Newest
    <2>3. LedgerOpen'
      BY <2>1, <2>2 DEF LedgerOpen, NewRun
    <2>4. manifest' = manifest
      BY <1>9 DEF StartAudit, world
    <2>5. /\ Enrolled(NewRun) = S
          /\ \A i \in S : NewRun.items[i].status = "pending"
      BY FreshRow DEF Enrolled, NewRun
    <2>6. LedgerVerdicts' = [i \in S |-> "undecided"]
      <3>1. LedgerVerdicts' = [i \in Enrolled(NewRun) |-> LedgerVerdict(NewRun, i)]
        BY <2>1, <2>2 DEF LedgerVerdicts, Enrolled, LedgerVerdict, SafeItem
      <3>2. \A i \in S : LedgerVerdict(NewRun, i) = "undecided"
        BY <2>5 DEF LedgerVerdict
      <3>3. QED
        BY <2>5, <3>1, <3>2
    <2>7. Ledger!Start(S)
      BY <2>1, <2>3, <2>6 DEF Ledger!Start, LedgerOpen, LedgerVerdicts
    <2>8. QED
      BY <2>7 DEF Ledger!Next
  <1>10. CASE Complete
    <2> DEFINE run == [runs[work] EXCEPT !.status = "completed", !.job = "completed"]
    <2>1. /\ work \in DOMAIN runs /\ runs[work].status # "completed"
          /\ WithStatus(runs[work], Open) = {} /\ runs[work] \in Run
      BY <1>2, <1>10, ElementOfSeq DEF Complete, Executing, Busy, RunsOK, RunOK, WithStatus, Open
    <2>2. runs' = [runs EXCEPT ![work] = run]
      BY <1>10, <2>1 DEF Complete
    <2>3. run.status = "completed" /\ run.items = runs[work].items
      BY <2>1 DEF Run
    <2> HIDE DEF run
    <2>4. Len(runs') = Len(runs) /\ runs # <<>> /\ runs' # <<>> /\ Newest' = Newest
          /\ Newest \in DOMAIN runs
      BY <1>2, <1>3, <2>1, <2>2 DEF Newest
    <2>5. CASE work = Newest
      <3>1. LedgerOpen /\ ~LedgerOpen'
        BY <2>1, <2>2, <2>3, <2>4, <2>5 DEF LedgerOpen
      <3>2. LedgerVerdicts' = LedgerVerdicts
        BY <2>2, <2>3, <2>4, <2>5 DEF LedgerVerdicts, Enrolled, LedgerVerdict, SafeItem
      <3>3. \A i \in DOMAIN LedgerVerdicts : LedgerVerdicts[i] # "undecided"
        BY <2>1, <2>4, <2>5 DEF LedgerVerdicts, LedgerVerdict, Enrolled, WithStatus, Open
      <3>4. Ledger!Close
        BY <2>4, <3>1, <3>2, <3>3
           DEF Ledger!Close, Ledger!Undecided, LedgerOpen, LedgerVerdicts
      <3>5. QED
        BY <3>4 DEF Ledger!Next
    <2>6. CASE work # Newest
      BY <1>4, <2>2, <2>4, <2>6
    <2>7. QED
      BY <2>5, <2>6
  <1>11. CASE Ensure
    <2> DEFINE due == runs # <<>> /\ runs[Newest].status = "completed"
               e == enroll_new_manifest_items(runs[Newest])
    <2>1. CASE ~due
      BY <1>4, <1>11, <2>1 DEF Ensure
    <2>2. CASE due
      <3>1. Newest \in DOMAIN runs /\ runs[Newest] \in Run
        BY <1>2, <1>3, <2>2, ElementOfSeq DEF Newest
      <3>2. runs' = [runs EXCEPT ![Newest] = e]
        BY <1>11, <2>2 DEF Ensure
      <3>3. /\ e.status = "completed" => e = runs[Newest]
            /\ \A i \in Items : e.items[i] =
                  IF i \in manifest /\ runs[Newest].items[i].status = "absent"
                  THEN Fresh ELSE runs[Newest].items[i]
            /\ e # runs[Newest] => \E i \in manifest : runs[Newest].items[i].status = "absent"
        BY <3>1, Enrolment, EnrolmentRows
      <3> HIDE DEF e
      <3>4. Len(runs') = Len(runs) /\ runs' # <<>> /\ Newest' = Newest
        BY <1>2, <1>3, <2>2, <3>1, <3>2 DEF Newest
      <3>5. CASE e = runs[Newest]
        BY <1>4, <3>1, <3>2, <3>4, <3>5
      <3>6. CASE e # runs[Newest]
        <4> DEFINE S == Enrolled(e) \ Enrolled(runs[Newest])
        <4>1. ~LedgerOpen /\ LedgerOpen'
          BY <2>2, <3>1, <3>2, <3>3, <3>4, <3>6 DEF LedgerOpen
        <4>2. S # {} /\ S \in SUBSET Items
          BY <3>3, <3>6, FreshRow DEF Enrolled
        <4>3. /\ Enrolled(e) = Enrolled(runs[Newest]) \union S
              /\ \A i \in S : e.items[i].status = "pending"
              /\ \A i \in Enrolled(runs[Newest]) : e.items[i] = runs[Newest].items[i]
          BY <3>3, FreshRow DEF Enrolled
        <4>4. LedgerVerdicts = [i \in Enrolled(runs[Newest]) |-> LedgerVerdict(runs[Newest], i)]
          BY <2>2 DEF LedgerVerdicts
        <4>5. LedgerVerdicts' = [i \in Enrolled(e) |-> LedgerVerdict(e, i)]
          BY <3>1, <3>2, <3>4 DEF LedgerVerdicts, Enrolled, LedgerVerdict, SafeItem
        <4>6. /\ \A i \in S : LedgerVerdict(e, i) = "undecided"
              /\ \A i \in Enrolled(runs[Newest]) :
                    LedgerVerdict(e, i) = LedgerVerdict(runs[Newest], i)
          BY <4>3 DEF LedgerVerdict, SafeItem
        <4> HIDE DEF S
        <4>7. LedgerVerdicts' = [i \in DOMAIN LedgerVerdicts \union S |->
                                    IF i \in S THEN "undecided" ELSE LedgerVerdicts[i]]
          BY <4>3, <4>4, <4>5, <4>6
        <4>8. S \cap DOMAIN LedgerVerdicts = {}
          BY <4>4 DEF S
        <4>9. Ledger!Reopen(S)
          <5>1. Len(runs) > 0 /\ Len(runs') = Len(runs)
            BY <1>2, <1>3, <2>2, <3>4
          <5>2. LedgerOpen' = TRUE
            BY <4>1 DEF LedgerOpen
          <5>3. S # {}
            BY <4>2
          <5>4. QED
            BY <4>1, <4>7, <4>8, <5>1, <5>2, <5>3, Zenon
               DEF Ledger!Reopen, LedgerOpen, LedgerVerdicts
        <4>10. QED
          BY <4>2, <4>9 DEF Ledger!Next
      <3>7. QED
        BY <3>5, <3>6
    <2>3. QED
      BY <2>1, <2>2
  <1>12. QED
    BY <1>6, <1>7, <1>8, <1>9, <1>10, <1>11 DEF Moves

\* The audit implements AuditLedger, for any items, captures, runs, pauses and
\* faults: the newest run closes only with all its verdicts given, a closed run
\* changes none of them, and it reopens only for items it did not know
\* (start_audit, enroll_new_manifest_items, execute_audit).
THEOREM AuditImplementsLedger == Spec => ImplementsLedger
  <1>1. IInv /\ IInv' /\ [Next]_vars => [Ledger!Next]_(Ledger!ledger)
    BY StepMoves, LedgerStep
  <1>2. QED
    BY InitIInv, NextIInv, LedgerInit, <1>1, PTL DEF Spec, ImplementsLedger, Ledger!Spec
=============================================================================
