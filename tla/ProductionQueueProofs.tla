----------------------- MODULE ProductionQueueProofs -----------------------
(***************************************************************************)
(* Safety of the task queue for any number of rows, any pids, with pid     *)
(* reuse, lease expiry and crashes at any point.                           *)
(***************************************************************************)
EXTENDS ProductionQueue, TLAPS

-----------------------------------------------------------------------------
(* What the column updates of PipelineTask do to a row.                     *)

\* Every column update of the queue keeps a row well typed.
LEMMA RowUpdatesTyped ==
    ASSUME NEW row \in Row
    PROVE  /\ \A p \in Pids : ClaimRow(row, p) \in Row
           /\ RecoverRow(row) \in Row
           /\ RetireRow(row) \in Row
           /\ RetryRow(row) \in Row
           /\ CompleteRow(row) \in Row
           /\ \A s \in Stages, l \in BOOLEAN : AdvanceRow(row, s, l) \in Row
           /\ \A s \in Stages, l \in BOOLEAN : EnqueueRow(s, l) \in Row
           /\ \A s \in Stages : AbsentRow(s) \in Row
  <1>1. \A n \in 0..MaxAttempts : Bump(n) \in 0..MaxAttempts
    BY MaxAttemptsAssumption DEF Bump, MaxAttemptsAssumption
  <1>2. 0 \in 0..MaxAttempts
    BY MaxAttemptsAssumption DEF MaxAttemptsAssumption
  <1>3. \A p \in Pids : ClaimRow(row, p) \in Row
    BY <1>1 DEF ClaimRow, Row, Statuses
  <1>4. RecoverRow(row) \in Row /\ RetireRow(row) \in Row
    BY DEF RecoverRow, RetireRow, Row, Statuses, ErrorCodes
  <1>5. RetryRow(row) \in Row /\ CompleteRow(row) \in Row
    BY <1>2 DEF RetryRow, CompleteRow, Row, Statuses, ErrorCodes
  <1>6. \A s \in Stages, l \in BOOLEAN : AdvanceRow(row, s, l) \in Row
    BY <1>2 DEF AdvanceRow, Waiting, Row, Statuses, ErrorCodes
  <1>7. \A s \in Stages : AbsentRow(s) \in Row
    BY <1>2 DEF AbsentRow, Row, Statuses, ErrorCodes
  <1>8. \A s \in Stages, l \in BOOLEAN : EnqueueRow(s, l) \in Row
    BY <1>2 DEF EnqueueRow, AbsentRow, Waiting, Row, Statuses, ErrorCodes
  <1>9. QED
    BY <1>3, <1>4, <1>5, <1>6, <1>7, <1>8

\* The columns that decide who may work on a row, after each update.
LEMMA RowUpdateFields ==
    ASSUME NEW row \in Row
    PROVE  /\ \A p : /\ ClaimRow(row, p).status = "running"
                     /\ ClaimRow(row, p).owner = p
                     /\ ClaimRow(row, p).stage = row.stage
           /\ RecoverRow(row).status = "queued"
           /\ RecoverRow(row).owner = NoPid
           /\ RecoverRow(row).stage = row.stage
           /\ RetireRow(row).status = "failed"
           /\ RetireRow(row).owner = NoPid
           /\ RetireRow(row).stage = row.stage
           /\ ~RetireRow(row).recoverable
           /\ RetryRow(row).status = "queued"
           /\ RetryRow(row).owner = NoPid
           /\ RetryRow(row).stage = row.stage
  <1>1. \A p : /\ ClaimRow(row, p).status = "running"
              /\ ClaimRow(row, p).owner = p
              /\ ClaimRow(row, p).stage = row.stage
    BY DEF ClaimRow, Row
  <1>2. /\ RecoverRow(row).status = "queued"
        /\ RecoverRow(row).owner = NoPid
        /\ RecoverRow(row).stage = row.stage
    BY DEF RecoverRow, Row
  <1>3. /\ RetireRow(row).status = "failed"
        /\ RetireRow(row).owner = NoPid
        /\ RetireRow(row).stage = row.stage
        /\ ~RetireRow(row).recoverable
    BY DEF RetireRow, Row
  <1>4. /\ RetryRow(row).status = "queued"
        /\ RetryRow(row).owner = NoPid
        /\ RetryRow(row).stage = row.stage
    BY DEF RetryRow, Row
  <1>5. QED
    BY <1>1, <1>2, <1>3, <1>4

\* A new row waits without an owner; it waits locally only when it is local.
LEMMA EnqueueRowFields ==
    ASSUME NEW s, NEW l \in BOOLEAN
    PROVE  /\ EnqueueRow(s, l).status = Waiting(l)
           /\ EnqueueRow(s, l).owner = NoPid
           /\ EnqueueRow(s, l).stage = s
           /\ Waiting(l) \in {"queued", "local_queued"}
           /\ ~l => Waiting(l) = "queued"
  BY DEF EnqueueRow, AbsentRow, Waiting

\* A failed row is well typed as well.
LEMMA FailRowTyped ==
    ASSUME NEW row \in Row, NEW n \in 0..MaxAttempts, NEW u \in BOOLEAN,
           NEW c \in BOOLEAN, NEW e \in ErrorCodes, NEW l \in BOOLEAN
    PROVE  FailRow(row, n, u, c, e, l) \in Row
  <1>1. CanRetry(n, u, c) \in BOOLEAN
    BY DEF CanRetry
  <1>2. QED
    BY <1>1 DEF FailRow, Row, Waiting, Statuses, ErrorCodes

\* The handlers report results of the declared shape.
LEMMA OutcomesTyped ==
    ASSUME NEW s \in Stages, NEW o \in Outcomes(s)
    PROVE  o \in Outcome
  <1>1. Successors(s) \subseteq CORE_PIPELINE_STAGES
    BY DEF Successors, CORE_PIPELINE_STAGES
  <1>2. \A x \in CORE_PIPELINE_STAGES : Advanced(x) \in Outcome
    BY DEF Advanced, NoOutcome, Outcome, ErrorCodes
  <1>3. Completed \in Outcome
    BY DEF Completed, NoOutcome, Outcome, ErrorCodes, CORE_PIPELINE_STAGES
  <1>4. \A u, c \in BOOLEAN, e \in ErrorCodes : Failed(u, c, e) \in Outcome
    BY DEF Failed, NoOutcome, Outcome, CORE_PIPELINE_STAGES
  <1>5. {"retired", "other"} \subseteq ErrorCodes
    BY DEF ErrorCodes
  <1>6. QED
    BY <1>1, <1>2, <1>3, <1>4, <1>5 DEF Outcomes, HandlerOutcomes

\* A row of a retired stage can only be refused for good.
LEMMA RetiredOutcome ==
    ASSUME NEW s \in RetiredStages, NEW o \in Outcomes(s)
    PROVE  o.op = "fail" /\ o.recoverable = FALSE /\ o.unbounded = FALSE
  BY DEF Outcomes, RetiredStages, CORE_PIPELINE_STAGES, Failed, NoOutcome

\* Committing a result keeps the row well typed.
LEMMA ResultRowTyped ==
    ASSUME NEW row \in Row, NEW o \in Outcome, NEW l \in BOOLEAN,
           NEW c \in [stage : Stages, attempts : 0..MaxAttempts]
    PROVE  ResultRow(row, c, o, l) \in Row
  <1>1. FailRow(row, c.attempts, o.unbounded, o.recoverable, o.error, l) \in Row
    BY FailRowTyped DEF Outcome
  <1>2. AdvanceRow(row, o.stage, l) \in Row /\ CompleteRow(row) \in Row
    BY RowUpdatesTyped DEF Outcome, Stages
  <1>3. QED
    BY <1>1, <1>2 DEF ResultRow, Outcome

\* A committed result releases the lease and never leaves the row running; it
\* parks the row in local_queued only when the payload is local.
LEMMA ResultRowReleases ==
    ASSUME NEW row \in Row, NEW o \in Outcome, o.op # "none",
           NEW l \in BOOLEAN, NEW c
    PROVE  /\ ResultRow(row, c, o, l).owner = NoPid
           /\ ResultRow(row, c, o, l).status
                \in {"queued", "local_queued", "completed", "failed"}
           /\ ~l => ResultRow(row, c, o, l).status # "local_queued"
  BY DEF ResultRow, AdvanceRow, CompleteRow, FailRow, Waiting, Row, Outcome

\* A refused row stays at its stage and fails for good.
LEMMA RefusedRow ==
    ASSUME NEW row \in Row, NEW o \in Outcome, o.op = "fail",
           o.recoverable = FALSE, NEW l \in BOOLEAN, NEW c
    PROVE  /\ ResultRow(row, c, o, l).status = "failed"
           /\ ResultRow(row, c, o, l).stage = row.stage
  BY DEF ResultRow, FailRow, CanRetry, Row, Outcome

-----------------------------------------------------------------------------
(* What holds between the steps.                                            *)

\* The processes' control state: a process is up exactly when it has a pid, the
\* two pids differ, a claimed row is held exactly while it is busy, and the
\* recovery selection and pass counter belong to the booting main worker.
ProcInv ==
    /\ \A r \in Roles :
          /\ pc[r] = "down" <=> pid[r] = NoPid
          /\ Busy(r) <=> cur[r] # NoTask
          /\ pc[r] = "writing" => out[r].op # "none"
    /\ pid["main"] # NoPid => pid["main"] # pid["local"]
    /\ pc["local"] \in {"down", "idle", "executing", "writing"}
    /\ pc["main"] \in {"boot", "recovering"} => passes \in 1..2

\* What recovery has selected among the ordinary rows is still running: only
\* the main worker itself, now booting, could have moved it.
ScanInv ==
    /\ pc["main"] # "recovering" => scan = {}
    /\ \A t \in scan \cap Ordinary : rows[t].status = "running"

\* Ordinary rows never enter the local queue, and the result about to be
\* written to a row of a retired stage is its refusal.
OrdinaryInv ==
    /\ \A t \in Ordinary : rows[t].status # "local_queued"
    /\ pc["main"] = "writing" /\ cur["main"] \in Ordinary =>
          out["main"] \in Outcomes(seen["main"].stage)

IInv ==
    /\ TypeOK
    /\ LeaseColumnsAgree
    /\ OrdinaryWorkIsExclusive
    /\ RetiredStageNeverExecutes
    /\ ProcInv
    /\ ScanInv
    /\ OrdinaryInv

-----------------------------------------------------------------------------
\* Absent, legacy and local flags of the initial table.
LEMMA InitIInv == Init => IInv
  <1> SUFFICES ASSUME Init PROVE IInv
    OBVIOUS
  <1>1. \A t \in Tasks : /\ InitialRow(t) \in Row
                         /\ InitialRow(t).status \in {"absent", "failed"}
                         /\ InitialRow(t).owner = NoPid
                         /\ InitialRow(t).stage = EntryStage[t]
                         /\ EntryStage[t] \in RetiredStages => InitialRow(t).status = "failed"
    <2> TAKE t \in Tasks
    <2>1. EntryStage[t] \in Stages
      BY EntryStageAssumption DEF EntryStageAssumption
    <2>2. /\ AbsentRow(EntryStage[t]) \in Row
          /\ AbsentRow(EntryStage[t]).status = "absent"
          /\ AbsentRow(EntryStage[t]).owner = NoPid
          /\ AbsentRow(EntryStage[t]).stage = EntryStage[t]
      BY <2>1, MaxAttemptsAssumption
         DEF MaxAttemptsAssumption, AbsentRow, Row, Statuses, ErrorCodes
    <2>5. MaxAttempts \in 0..MaxAttempts /\ 0 \in 0..MaxAttempts
      BY MaxAttemptsAssumption DEF MaxAttemptsAssumption
    <2>3. /\ LegacyRow(EntryStage[t]) \in Row
          /\ LegacyRow(EntryStage[t]).status = "failed"
          /\ LegacyRow(EntryStage[t]).owner = NoPid
          /\ LegacyRow(EntryStage[t]).stage = EntryStage[t]
      BY <2>1, <2>5 DEF LegacyRow, AbsentRow, Row, Statuses, ErrorCodes
    <2>4. QED
      BY <2>2, <2>3 DEF InitialRow
  <1>2. TypeOK
    <2>1. rows \in [Tasks -> Row]
      BY <1>1 DEF Init
    <2>2. seen \in [Roles -> Copy] /\ out \in [Roles -> Outcome]
      BY MaxAttemptsAssumption
         DEF MaxAttemptsAssumption, Init, Copy, NoCopy, Outcome, NoOutcome,
             ErrorCodes, Stages, CORE_PIPELINE_STAGES
    <2>3. QED
      BY <2>1, <2>2, MaxCrashesAssumption DEF MaxCrashesAssumption, Init, TypeOK, PCs
  <1>3. LeaseColumnsAgree /\ RetiredStageNeverExecutes
    BY <1>1 DEF Init, LeaseColumnsAgree, RetiredStageNeverExecutes
  <1>4. OrdinaryWorkIsExclusive /\ ProcInv /\ ScanInv /\ OrdinaryInv
    BY <1>1, TasksAssumption
       DEF Init, TasksAssumption, OrdinaryWorkIsExclusive, ProcInv, ScanInv, OrdinaryInv,
           Ordinary, Busy, Roles
  <1>5. QED
    BY <1>2, <1>3, <1>4 DEF IInv

\* enqueue() adds a waiting row and moves no process.
LEMMA EnqueueStep ==
    ASSUME IInv, NEW t \in Tasks, Enqueue(t)
    PROVE  IInv'
  <1>1. /\ rows \in [Tasks -> Row]
        /\ Local(t) \in BOOLEAN
        /\ EntryStage[t] \in Stages
    BY EntryStageAssumption DEF EntryStageAssumption, IInv, TypeOK, Local
  <1>2. /\ EnqueueRow(EntryStage[t], Local(t)) \in Row
        /\ EnqueueRow(EntryStage[t], Local(t)).owner = NoPid
        /\ EnqueueRow(EntryStage[t], Local(t)).status \in {"queued", "local_queued"}
        /\ ~Local(t) => EnqueueRow(EntryStage[t], Local(t)).status = "queued"
    BY <1>1, RowUpdatesTyped, EnqueueRowFields
  <1>3. /\ rows' \in [Tasks -> Row]
        /\ \A u \in Tasks \ {t} : rows'[u] = rows[u]
        /\ rows'[t] = EnqueueRow(EntryStage[t], Local(t))
        /\ UNCHANGED <<pid, cur, seen, out, pc, scan, passes, crashes>>
        /\ rows[t].status = "absent"
    BY <1>1, <1>2 DEF Enqueue, procVars
  <1>4. TypeOK'
    BY <1>3 DEF IInv, TypeOK
  <1>5. LeaseColumnsAgree' /\ RetiredStageNeverExecutes'
    BY <1>2, <1>3 DEF IInv, LeaseColumnsAgree, RetiredStageNeverExecutes
  <1>6. OrdinaryWorkIsExclusive' /\ ProcInv' /\ ScanInv' /\ OrdinaryInv'
    BY <1>2, <1>3, TasksAssumption
       DEF TasksAssumption, IInv, TypeOK, OrdinaryWorkIsExclusive, ProcInv, ScanInv, OrdinaryInv,
           Ordinary, Busy, Roles, Holds, Local
  <1>7. QED
    BY <1>4, <1>5, <1>6 DEF IInv

\* The bulk retry only moves failed rows, which nobody holds.
LEMMA RetryFailedStep ==
    ASSUME IInv, RetryFailed
    PROVE  IInv'
  <1>1. rows \in [Tasks -> Row]
    BY DEF IInv, TypeOK
  <1>2. \A t \in Tasks : /\ RetryRow(rows[t]) \in Row
                         /\ RetryRow(rows[t]).owner = NoPid
                         /\ RetryRow(rows[t]).status = "queued"
                         /\ RetryRow(rows[t]).stage = rows[t].stage
    BY <1>1, RowUpdatesTyped, RowUpdateFields
  <1>3. /\ rows' \in [Tasks -> Row]
        /\ \A t \in Tasks : rows'[t] = IF t \in Retryable THEN RetryRow(rows[t]) ELSE rows[t]
        /\ UNCHANGED <<pid, cur, seen, out, pc, scan, passes, crashes>>
        /\ \A t \in Retryable : rows[t].status = "failed"
    BY <1>1, <1>2 DEF RetryFailed, Retryable, procVars
  <1>4. TypeOK'
    BY <1>3 DEF IInv, TypeOK
  <1>5. LeaseColumnsAgree' /\ RetiredStageNeverExecutes'
    BY <1>2, <1>3 DEF IInv, LeaseColumnsAgree, RetiredStageNeverExecutes
  <1>6. OrdinaryWorkIsExclusive' /\ ProcInv' /\ ScanInv' /\ OrdinaryInv'
    BY <1>2, <1>3, TasksAssumption
       DEF TasksAssumption, IInv, TypeOK, OrdinaryWorkIsExclusive, ProcInv, ScanInv,
           OrdinaryInv, Ordinary, Busy, Roles, Holds
  <1>7. QED
    BY <1>4, <1>5, <1>6 DEF IInv

\* Deadlines and heartbeats touch only the lease and back-off columns.
LEMMA ClockStep ==
    ASSUME IInv, NEW t \in Tasks, NEW r \in Roles,
           LeaseExpires(t) \/ BackoffElapses(t) \/ Heartbeat(r)
    PROVE  IInv'
  <1>1. rows \in [Tasks -> Row] /\ (Heartbeat(r) => cur[r] \in Tasks)
    BY DEF IInv, TypeOK, ProcInv, Heartbeat, Busy
  <1>2. /\ rows' \in [Tasks -> Row]
        /\ \A u \in Tasks : /\ rows'[u].status = rows[u].status
                            /\ rows'[u].owner = rows[u].owner
                            /\ rows'[u].stage = rows[u].stage
        /\ UNCHANGED <<pid, cur, seen, out, pc, scan, passes, crashes>>
    <2>1. CASE LeaseExpires(t)
      BY <1>1, <2>1 DEF LeaseExpires, Row, procVars
    <2>2. CASE BackoffElapses(t)
      BY <1>1, <2>2 DEF BackoffElapses, Row, procVars
    <2>3. CASE Heartbeat(r)
      BY <1>1, <2>3 DEF Heartbeat, Row, procVars
    <2>4. QED
      BY <2>1, <2>2, <2>3
  <1>3. TypeOK'
    BY <1>2 DEF IInv, TypeOK
  <1>4. LeaseColumnsAgree' /\ RetiredStageNeverExecutes'
    BY <1>2 DEF IInv, LeaseColumnsAgree, RetiredStageNeverExecutes
  <1>5. OrdinaryWorkIsExclusive' /\ ProcInv' /\ ScanInv' /\ OrdinaryInv'
    BY <1>2, TasksAssumption
       DEF TasksAssumption, IInv, TypeOK, OrdinaryWorkIsExclusive, ProcInv, ScanInv,
           OrdinaryInv, Ordinary, Busy, Roles, Holds
  <1>6. QED
    BY <1>3, <1>4, <1>5 DEF IInv

\* Starting a process gives it a pid that no live process has.
LEMMA StartStep ==
    ASSUME IInv, NEW p \in Pids, StartMain(p) \/ StartLocal(p)
    PROVE  IInv'
  <1>1. /\ p # NoPid
        /\ p # pid["main"] /\ p # pid["local"]
    BY NoPidAssumption DEF NoPidAssumption, StartMain, StartLocal, FreshPid, LivePids, Roles
  <1>2. TypeOK'
    BY DEF IInv, TypeOK, StartMain, StartLocal, PCs
  <1>3. LeaseColumnsAgree' /\ RetiredStageNeverExecutes'
    BY DEF IInv, StartMain, StartLocal, LeaseColumnsAgree, RetiredStageNeverExecutes
  <1>4. OrdinaryWorkIsExclusive' /\ OrdinaryInv' /\ ScanInv'
    BY DEF IInv, TypeOK, StartMain, StartLocal, OrdinaryWorkIsExclusive, OrdinaryInv, ScanInv,
           Ordinary, Busy, Roles, Holds, ProcInv
  <1>5. ProcInv'
    BY <1>1 DEF IInv, TypeOK, StartMain, StartLocal, ProcInv, Busy, Roles
  <1>6. QED
    BY <1>2, <1>3, <1>4, <1>5 DEF IInv

\* A booting worker selects running rows; writing them back touches, among the
\* ordinary rows, only rows that are still running and that nobody works on.
LEMMA RecoveryStep ==
    ASSUME IInv, ScanAbandoned \/ RecoverAbandoned
    PROVE  IInv'
  <1>1. rows \in [Tasks -> Row]
    BY DEF IInv, TypeOK
  <1>2. \A t \in Tasks : /\ RecoverRow(rows[t]) \in Row
                         /\ RecoverRow(rows[t]).owner = NoPid
                         /\ RecoverRow(rows[t]).status = "queued"
                         /\ RecoverRow(rows[t]).stage = rows[t].stage
    BY <1>1, RowUpdatesTyped, RowUpdateFields
  <1>3. CASE ScanAbandoned
    <2>1. TypeOK'
      BY <1>3 DEF IInv, TypeOK, ScanAbandoned, procVars, PCs
    <2>2. LeaseColumnsAgree' /\ RetiredStageNeverExecutes'
      BY <1>3 DEF IInv, ScanAbandoned, LeaseColumnsAgree, RetiredStageNeverExecutes
    <2>3. OrdinaryWorkIsExclusive' /\ ProcInv' /\ ScanInv' /\ OrdinaryInv'
      BY <1>3 DEF IInv, TypeOK, ScanAbandoned, Abandoned, procVars, OrdinaryWorkIsExclusive,
             ProcInv, ScanInv, OrdinaryInv, Ordinary, Busy, Roles, Holds
    <2>4. QED
      BY <2>1, <2>2, <2>3 DEF IInv
  <1>4. CASE RecoverAbandoned
    <2>1. /\ rows' \in [Tasks -> Row]
          /\ \A t \in Tasks : rows'[t] = IF t \in scan THEN RecoverRow(rows[t]) ELSE rows[t]
          /\ UNCHANGED <<pid, cur, seen, out, crashes>>
          /\ pc["main"] = "recovering" /\ pc' = [pc EXCEPT !["main"] = IF passes = 1 THEN "idle" ELSE "boot"]
          /\ scan' = {} /\ passes' = passes - 1
      BY <1>1, <1>2, <1>4 DEF RecoverAbandoned, procVars
    <2>2. passes \in 1..2 /\ (passes # 1 => passes' \in 1..2) /\ passes' \in 0..2
      BY <2>1 DEF IInv, ProcInv
    <2>3. TypeOK'
      BY <2>1, <2>2 DEF IInv, TypeOK, PCs
    <2>4. LeaseColumnsAgree' /\ RetiredStageNeverExecutes'
      BY <1>2, <2>1 DEF IInv, LeaseColumnsAgree, RetiredStageNeverExecutes
    <2>5. OrdinaryWorkIsExclusive' /\ ProcInv' /\ ScanInv' /\ OrdinaryInv'
      BY <1>2, <2>1, <2>2
         DEF IInv, TypeOK, OrdinaryWorkIsExclusive, ProcInv, ScanInv, OrdinaryInv,
             Ordinary, Busy, Roles, Holds
    <2>6. QED
      BY <2>3, <2>4, <2>5 DEF IInv
  <1>5. QED
    BY <1>3, <1>4

\* Retirement parks queued rows of retired stages; an empty queue moves nobody.
LEMMA IdleStep ==
    ASSUME IInv, NEW queues, RetireNonCore \/ ClaimNothing(queues)
    PROVE  IInv'
  <1>1. rows \in [Tasks -> Row]
    BY DEF IInv, TypeOK
  <1>2. \A t \in Tasks : /\ RetireRow(rows[t]) \in Row
                         /\ RetireRow(rows[t]).owner = NoPid
                         /\ RetireRow(rows[t]).status = "failed"
                         /\ RetireRow(rows[t]).stage = rows[t].stage
    BY <1>1, RowUpdatesTyped, RowUpdateFields
  <1>3. CASE RetireNonCore
    <2>1. /\ rows' \in [Tasks -> Row]
          /\ \A t \in Tasks : rows'[t] = IF NonCore(t) THEN RetireRow(rows[t]) ELSE rows[t]
          /\ UNCHANGED <<pid, cur, seen, out, scan, passes, crashes>>
          /\ pc["main"] = "idle" /\ pc' = [pc EXCEPT !["main"] = "claiming"]
          /\ \A t \in Tasks : NonCore(t) => rows[t].status = "queued"
      BY <1>1, <1>2, <1>3 DEF RetireNonCore, NonCore, procVars
    <2>2. TypeOK'
      BY <2>1 DEF IInv, TypeOK, PCs
    <2>3. LeaseColumnsAgree' /\ RetiredStageNeverExecutes'
      BY <1>2, <2>1 DEF IInv, LeaseColumnsAgree, RetiredStageNeverExecutes
    <2>4. OrdinaryWorkIsExclusive' /\ ProcInv' /\ ScanInv' /\ OrdinaryInv'
      BY <1>2, <2>1
         DEF IInv, TypeOK, OrdinaryWorkIsExclusive, ProcInv, ScanInv, OrdinaryInv,
             Ordinary, Busy, Roles, Holds
    <2>5. QED
      BY <2>2, <2>3, <2>4 DEF IInv
  <1>4. CASE ClaimNothing(queues)
    <2>1. TypeOK'
      BY <1>4 DEF IInv, TypeOK, ClaimNothing, procVars, PCs
    <2>2. LeaseColumnsAgree' /\ RetiredStageNeverExecutes'
      BY <1>4 DEF IInv, ClaimNothing, LeaseColumnsAgree, RetiredStageNeverExecutes
    <2>3. OrdinaryWorkIsExclusive' /\ ProcInv' /\ ScanInv' /\ OrdinaryInv'
      BY <1>4
         DEF IInv, TypeOK, ClaimNothing, procVars, OrdinaryWorkIsExclusive, ProcInv,
             ScanInv, OrdinaryInv, Ordinary, Busy, Roles, Holds
    <2>4. QED
      BY <2>1, <2>2, <2>3 DEF IInv
  <1>5. QED
    BY <1>3, <1>4

\* The operation worker claims a queued row, which nobody holds.
LEMMA ClaimMainStep ==
    ASSUME IInv, NEW queues, ClaimMain(queues)
    PROVE  IInv'
  <1>1. PICK t \in Tasks : First(t, queues) /\ Take("main", t, rows)
    BY DEF ClaimMain
  <1>2. /\ rows \in [Tasks -> Row]
        /\ pc["main"] = "claiming"
        /\ rows[t].status = "queued"
        /\ pid["main"] \in Pids
    BY <1>1 DEF ClaimMain, First, Claimable, IInv, TypeOK, ProcInv, Roles
  <1> DEFINE new == ClaimRow(rows[t], pid["main"])
  <1>3. /\ new \in Row
        /\ new.status = "running" /\ new.owner = pid["main"] /\ new.stage = rows[t].stage
    <2>1. rows[t] \in Row
      BY <1>2
    <2>2. new \in Row
      BY <1>2, <2>1, RowUpdatesTyped
    <2>3. QED
      BY <2>1, <2>2, RowUpdateFields
  <1>4. /\ CopyOf(new) \in Copy
        /\ CopyOf(new).stage = rows[t].stage
    BY <1>3 DEF CopyOf, Copy, Row
  <1> HIDE DEF new
  <1>5. /\ rows' = [rows EXCEPT ![t] = new]
        /\ cur' = [cur EXCEPT !["main"] = t]
        /\ seen' = [seen EXCEPT !["main"] = CopyOf(new)]
        /\ pc' = [pc EXCEPT !["main"] = "executing"]
        /\ UNCHANGED <<pid, out, scan, passes, crashes>>
    BY <1>1 DEF Take, new
  <1>6. TypeOK'
    BY <1>2, <1>3, <1>4, <1>5 DEF IInv, TypeOK, PCs, Roles
  <1>7. LeaseColumnsAgree' /\ RetiredStageNeverExecutes'
    BY <1>2, <1>3, <1>5, NoPidAssumption
       DEF NoPidAssumption, IInv, LeaseColumnsAgree, RetiredStageNeverExecutes
  <1>8. OrdinaryWorkIsExclusive' /\ ScanInv' /\ OrdinaryInv'
    BY <1>2, <1>3, <1>4, <1>5
       DEF IInv, TypeOK, OrdinaryWorkIsExclusive, ProcInv, ScanInv, OrdinaryInv,
           Ordinary, Busy, Roles, Holds
  <1>9. ProcInv'
    BY <1>2, <1>5, TasksAssumption DEF TasksAssumption, IInv, TypeOK, ProcInv, Busy, Roles
  <1>10. QED
    BY <1>6, <1>7, <1>8, <1>9 DEF IInv

\* Local recovery moves only local rows, and only into the local queue.
LEMMA LocalRecoveredFacts ==
    ASSUME IInv
    PROVE  /\ LocalRecovered \in [Tasks -> Row]
           /\ \A t \in Tasks :
                 /\ LocalRecovered[t].stage = rows[t].stage
                 /\ LocalRecovered[t].owner = rows[t].owner
                 /\ \/ LocalRecovered[t].status = rows[t].status
                    \/ t \in LocalTasks /\ LocalRecovered[t].status = "local_queued"
           /\ \A t \in Ordinary : LocalRecovered[t] = rows[t]
  <1>1. rows \in [Tasks -> Row]
    BY DEF IInv, TypeOK
  <1>2. \A t \in Tasks : /\ [rows[t] EXCEPT !.status = "local_queued"] \in Row
                         /\ [rows[t] EXCEPT !.status = "local_queued"].stage = rows[t].stage
                         /\ [rows[t] EXCEPT !.status = "local_queued"].owner = rows[t].owner
                         /\ [rows[t] EXCEPT !.status = "local_queued"].status = "local_queued"
    BY <1>1 DEF Row, Statuses
  <1>3. \A t \in Tasks :
           \/ LocalRecovered[t] = rows[t]
           \/ /\ t \in LocalTasks
              /\ LocalRecovered[t] = [rows[t] EXCEPT !.status = "local_queued"]
    BY DEF LocalRecovered, Local
  <1>4. LocalRecovered = [t \in Tasks |-> LocalRecovered[t]]
    BY DEF LocalRecovered
  <1>5. QED
    BY <1>1, <1>2, <1>3, <1>4 DEF Ordinary

\* The local worker recovers and claims local rows only.
LEMMA LocalStepInv ==
    ASSUME IInv, ClaimLocal \/ RecoverLocalOnly
    PROVE  IInv'
  <1>1. rows \in [Tasks -> Row]
    BY DEF IInv, TypeOK
  <1> DEFINE mid == LocalRecovered
  <1>2. /\ mid \in [Tasks -> Row]
        /\ \A t \in Tasks :
              /\ mid[t].stage = rows[t].stage
              /\ mid[t].owner = rows[t].owner
              /\ \/ mid[t].status = rows[t].status
                 \/ t \in LocalTasks /\ mid[t].status = "local_queued"
        /\ \A t \in Ordinary : mid[t] = rows[t]
    BY LocalRecoveredFacts
  <1> HIDE DEF mid
  <1>3. CASE RecoverLocalOnly
    <2>1. rows' = mid /\ UNCHANGED <<pid, cur, seen, out, pc, scan, passes, crashes>>
      BY <1>3 DEF RecoverLocalOnly, procVars, mid
    <2>2. TypeOK'
      BY <1>2, <2>1 DEF IInv, TypeOK
    <2>3. LeaseColumnsAgree' /\ RetiredStageNeverExecutes'
      BY <1>2, <2>1, LocalTasksAssumption
         DEF LocalTasksAssumption, IInv, LeaseColumnsAgree, RetiredStageNeverExecutes
    <2>4. OrdinaryWorkIsExclusive' /\ ProcInv' /\ ScanInv' /\ OrdinaryInv'
      BY <1>2, <2>1
         DEF IInv, TypeOK, OrdinaryWorkIsExclusive, ProcInv, ScanInv, OrdinaryInv,
             Ordinary, Busy, Roles, Holds
    <2>5. QED
      BY <2>2, <2>3, <2>4 DEF IInv
  <1>4. CASE ClaimLocal
    <2>1. PICK t \in Tasks : /\ mid[t].status = "local_queued"
                            /\ Take("local", t, mid)
                            /\ pc["local"] = "idle"
      BY <1>4 DEF ClaimLocal, LocalReady, mid
    <2>2. t \in LocalTasks /\ EntryStage[t] \notin RetiredStages
      BY <1>2, <2>1, LocalTasksAssumption
         DEF LocalTasksAssumption, IInv, OrdinaryInv, Ordinary
    <2>3. pid["local"] \in Pids
      BY <2>1 DEF IInv, TypeOK, ProcInv, Roles
    <2> DEFINE new == ClaimRow(mid[t], pid["local"])
    <2>4. /\ new \in Row
          /\ new.status = "running" /\ new.owner = pid["local"]
      <3>1. mid[t] \in Row
        BY <1>2
      <3>2. new \in Row
        BY <2>3, <3>1, RowUpdatesTyped
      <3>3. QED
        BY <3>1, <3>2, RowUpdateFields
    <2>5. CopyOf(new) \in Copy
      BY <2>4 DEF CopyOf, Copy, Row
    <2> HIDE DEF new
    <2>6. /\ rows' = [mid EXCEPT ![t] = new]
          /\ cur' = [cur EXCEPT !["local"] = t]
          /\ seen' = [seen EXCEPT !["local"] = CopyOf(new)]
          /\ pc' = [pc EXCEPT !["local"] = "executing"]
          /\ UNCHANGED <<pid, out, scan, passes, crashes>>
      BY <2>1 DEF Take, new
    <2>7. TypeOK'
      BY <1>2, <2>4, <2>5, <2>6 DEF IInv, TypeOK, PCs, Roles
    <2>8. LeaseColumnsAgree' /\ RetiredStageNeverExecutes'
      BY <1>2, <2>2, <2>3, <2>4, <2>6, NoPidAssumption, LocalTasksAssumption
         DEF NoPidAssumption, LocalTasksAssumption, IInv, LeaseColumnsAgree,
             RetiredStageNeverExecutes
    <2>9. OrdinaryWorkIsExclusive' /\ ScanInv' /\ OrdinaryInv'
      BY <1>2, <2>1, <2>2, <2>6
         DEF IInv, TypeOK, OrdinaryWorkIsExclusive, ProcInv, ScanInv, OrdinaryInv,
             Ordinary, Busy, Roles, Holds
    <2>10. ProcInv'
      BY <2>1, <2>3, <2>6, TasksAssumption
         DEF TasksAssumption, IInv, TypeOK, ProcInv, Busy, Roles
    <2>11. QED
      BY <2>7, <2>8, <2>9, <2>10 DEF IInv
  <1>5. QED
    BY <1>3, <1>4

\* Passing the ownership check fixes the result, nothing else.
LEMMA FinishStep ==
    ASSUME IInv, NEW r \in Roles, Finish(r)
    PROVE  IInv'
  <1>1. cur[r] \in Tasks /\ rows[cur[r]] \in Row /\ seen[r].stage \in Stages
    BY DEF IInv, TypeOK, ProcInv, Finish, Busy, Copy
  <1>2. PICK o \in Outcomes(seen[r].stage) : out' = [out EXCEPT ![r] = o]
    BY DEF Finish
  <1>3. o \in Outcome /\ o.op # "none"
    <2>1. o \in Outcome
      BY <1>1, <1>2, OutcomesTyped
    <2>2. o.op # "none"
      BY DEF Outcomes, HandlerOutcomes, Advanced, Completed, Failed, NoOutcome
    <2>3. QED
      BY <2>1, <2>2
  <1>4. CopyOf(rows[cur[r]]) \in Copy /\ CopyOf(rows[cur[r]]).stage = rows[cur[r]].stage
    BY <1>1 DEF CopyOf, Copy, Row
  <1>5. /\ seen' = [seen EXCEPT ![r] = CopyOf(rows[cur[r]])]
        /\ pc' = [pc EXCEPT ![r] = "writing"]
        /\ pc[r] = "executing"
        /\ UNCHANGED <<rows, pid, cur, scan, passes, crashes>>
    BY DEF Finish
  <1>6. TypeOK'
    BY <1>2, <1>3, <1>4, <1>5 DEF IInv, TypeOK, PCs, Roles
  <1>7. LeaseColumnsAgree' /\ RetiredStageNeverExecutes'
    BY <1>5 DEF IInv, LeaseColumnsAgree, RetiredStageNeverExecutes
  <1>8. OrdinaryWorkIsExclusive' /\ ScanInv'
    BY <1>4, <1>5
       DEF IInv, TypeOK, OrdinaryWorkIsExclusive, ScanInv, Ordinary, Busy, Roles, Holds
  <1>9. OrdinaryInv'
    BY <1>2, <1>4, <1>5 DEF IInv, TypeOK, OrdinaryInv, OrdinaryWorkIsExclusive, Busy, Roles
  <1>10. ProcInv'
    BY <1>2, <1>3, <1>5 DEF IInv, TypeOK, ProcInv, Busy, Roles
  <1>11. QED
    BY <1>6, <1>7, <1>8, <1>9, <1>10 DEF IInv

\* A process that ends, on a lost lease or in a crash, keeps nothing in memory;
\* the row it worked on stays running in the table.
LEMMA EndStep ==
    ASSUME IInv, NEW r \in Roles, LostLease(r) \/ Crash(r)
    PROVE  IInv'
  <1>1. NoCopy \in Copy /\ NoOutcome \in Outcome
    BY MaxAttemptsAssumption
       DEF MaxAttemptsAssumption, Copy, NoCopy, Outcome, NoOutcome, ErrorCodes, Stages,
           CORE_PIPELINE_STAGES
  <1>2. /\ pid' = [pid EXCEPT ![r] = NoPid]
        /\ pc' = [pc EXCEPT ![r] = "down"]
        /\ cur' = [cur EXCEPT ![r] = NoTask]
        /\ seen' = [seen EXCEPT ![r] = NoCopy]
        /\ rows' = rows
        /\ out' = out \/ out' = [out EXCEPT ![r] = NoOutcome]
    BY DEF LostLease, Crash
  <1>3. scan' = scan \/ (r = "main" /\ scan' = {})
    BY DEF LostLease, Crash
  <1>4. passes' = passes \/ (r = "main" /\ passes' = 0)
    BY DEF LostLease, Crash
  <1>5. crashes' \in 0..MaxCrashes
    BY MaxCrashesAssumption DEF MaxCrashesAssumption, IInv, TypeOK, LostLease, Crash
  <1>6. r = "main" /\ LostLease(r) => scan = {}
    BY DEF IInv, ScanInv, LostLease
  <1>7. TypeOK'
    BY <1>1, <1>2, <1>3, <1>4, <1>5 DEF IInv, TypeOK, PCs
  <1>8. LeaseColumnsAgree' /\ RetiredStageNeverExecutes'
    BY <1>2 DEF IInv, LeaseColumnsAgree, RetiredStageNeverExecutes
  <1>9. OrdinaryWorkIsExclusive' /\ OrdinaryInv'
    BY <1>2, TasksAssumption
       DEF TasksAssumption, IInv, TypeOK, OrdinaryWorkIsExclusive, OrdinaryInv, Ordinary, Busy,
           Roles, Holds
  <1>10. ScanInv'
    BY <1>2, <1>3, <1>6 DEF IInv, TypeOK, ScanInv, Roles, LostLease, Crash
  <1>11. ProcInv'
    BY <1>2, <1>4 DEF IInv, TypeOK, ProcInv, Busy, Roles
  <1>12. QED
    BY <1>7, <1>8, <1>9, <1>10, <1>11 DEF IInv

\* A result lands on the row its writer still owns when the row is ordinary, and
\* on a local row in every other case.
LEMMA WriteResultStep ==
    ASSUME IInv, NEW r \in Roles, WriteResult(r)
    PROVE  IInv'
  <1> DEFINE t == cur[r]
             new == ResultRow(rows[t], seen[r], out[r], Local(t))
  <1>1. /\ t \in Tasks /\ rows[t] \in Row /\ Local(t) \in BOOLEAN
        /\ out[r] \in Outcome /\ out[r].op # "none" /\ seen[r] \in Copy
    BY DEF IInv, TypeOK, ProcInv, WriteResult, Busy, Local
  <1>2. new \in Row
    BY <1>1, ResultRowTyped DEF Copy
  <1>3. /\ new.owner = NoPid
        /\ new.status \in {"queued", "local_queued", "completed", "failed"}
        /\ t \in Ordinary => new.status # "local_queued"
    <2>1. /\ new.owner = NoPid
          /\ new.status \in {"queued", "local_queued", "completed", "failed"}
          /\ ~Local(t) => new.status # "local_queued"
      BY <1>1, ResultRowReleases
    <2>2. QED
      BY <2>1 DEF Ordinary, Local
  <1>4. EntryStage[t] \in RetiredStages => new.status = "failed" /\ new.stage = EntryStage[t]
    <2> SUFFICES ASSUME EntryStage[t] \in RetiredStages
                 PROVE  new.status = "failed" /\ new.stage = EntryStage[t]
      OBVIOUS
    <2>1. t \in Ordinary
      BY <1>1, LocalTasksAssumption DEF LocalTasksAssumption, Ordinary
    <2>2. r = "main" /\ Busy("main")
      BY <2>1 DEF IInv, OrdinaryWorkIsExclusive, Roles, WriteResult, Busy
    <2>3. seen[r].stage \in RetiredStages /\ rows[t].stage = EntryStage[t]
      BY <1>1, <2>1, <2>2 DEF IInv, OrdinaryWorkIsExclusive, RetiredStageNeverExecutes
    <2>4. out[r] \in Outcomes(seen[r].stage)
      BY <2>1, <2>2 DEF IInv, OrdinaryInv, WriteResult
    <2>5. out[r].op = "fail" /\ out[r].recoverable = FALSE
      BY <2>3, <2>4, RetiredOutcome
    <2>6. QED
      BY <1>1, <2>3, <2>5, RefusedRow
  <1> HIDE DEF new
  <1>5. /\ rows' = [rows EXCEPT ![t] = new]
        /\ out' = [out EXCEPT ![r] = NoOutcome]
        /\ cur' = [cur EXCEPT ![r] = NoTask]
        /\ seen' = [seen EXCEPT ![r] = NoCopy]
        /\ pc' = [pc EXCEPT ![r] = "idle"]
        /\ pc[r] = "writing"
        /\ UNCHANGED <<pid, scan, passes, crashes>>
    BY DEF WriteResult, new
  <1>6. NoCopy \in Copy /\ NoOutcome \in Outcome
    BY MaxAttemptsAssumption
       DEF MaxAttemptsAssumption, Copy, NoCopy, Outcome, NoOutcome, ErrorCodes, Stages,
           CORE_PIPELINE_STAGES
  <1>7. TypeOK'
    BY <1>1, <1>2, <1>5, <1>6 DEF IInv, TypeOK, PCs
  <1>8. LeaseColumnsAgree' /\ RetiredStageNeverExecutes'
    BY <1>1, <1>3, <1>4, <1>5 DEF IInv, TypeOK, LeaseColumnsAgree, RetiredStageNeverExecutes
  <1>9. OrdinaryWorkIsExclusive' /\ OrdinaryInv'
    BY <1>1, <1>3, <1>5, TasksAssumption
       DEF TasksAssumption, IInv, TypeOK, OrdinaryWorkIsExclusive, OrdinaryInv, ProcInv,
           Ordinary, Busy, Roles, Holds
  <1>10. ScanInv'
    BY <1>1, <1>5
       DEF IInv, TypeOK, ScanInv, OrdinaryWorkIsExclusive, Ordinary, Busy, Roles
  <1>11. ProcInv'
    BY <1>5 DEF IInv, TypeOK, ProcInv, Busy, Roles
  <1>12. QED
    BY <1>7, <1>8, <1>9, <1>10, <1>11 DEF IInv

-----------------------------------------------------------------------------
\* IInv is inductive.
LEMMA NextIInv == IInv /\ [Next]_vars => IInv'
  <1> SUFFICES ASSUME IInv, [Next]_vars PROVE IInv'
    OBVIOUS
  <1>1. CASE \E t \in Tasks : Enqueue(t)
    BY <1>1, EnqueueStep
  <1>2. CASE RetryFailed
    BY <1>2, RetryFailedStep
  <1>3. CASE MainStep
    BY <1>3, StartStep, RecoveryStep, IdleStep, ClaimMainStep DEF MainStep
  <1>4. CASE LocalStep
    BY <1>4, StartStep, LocalStepInv DEF LocalStep
  <1>5. CASE \E r \in Roles : WorkerStep(r)
    <2>1. PICK r \in Roles : WorkerStep(r)
      BY <1>5
    <2>2. CASE Heartbeat(r)
      <3>1. cur[r] \in Tasks
        BY <2>2 DEF IInv, TypeOK, ProcInv, Heartbeat, Busy
      <3>2. QED
        BY <2>2, <3>1, ClockStep
    <2>3. QED
      BY <2>1, <2>2, FinishStep, EndStep, WriteResultStep DEF WorkerStep
  <1>6. CASE \E r \in Roles : Crash(r)
    BY <1>6, EndStep
  <1>7. CASE \E t \in Tasks : LeaseExpires(t) \/ BackoffElapses(t)
    BY <1>7, ClockStep DEF Roles
  <1>8. CASE UNCHANGED vars
    BY <1>8
       DEF vars, IInv, TypeOK, LeaseColumnsAgree, OrdinaryWorkIsExclusive,
           RetiredStageNeverExecutes, ProcInv, ScanInv, OrdinaryInv, Busy, Holds
  <1>9. QED
    BY <1>1, <1>2, <1>3, <1>4, <1>5, <1>6, <1>7, <1>8 DEF Next

\* Type correctness, the agreement of status and owner, exclusive work on
\* ordinary rows and the retirement gate are invariants of the queue.
THEOREM QueueInvariants ==
    Spec => [](TypeOK /\ LeaseColumnsAgree /\ OrdinaryWorkIsExclusive
                      /\ RetiredStageNeverExecutes)
  <1>1. Spec => []IInv
    BY InitIInv, NextIInv, PTL DEF Spec
  <1>2. IInv => TypeOK /\ LeaseColumnsAgree /\ OrdinaryWorkIsExclusive
                       /\ RetiredStageNeverExecutes
    BY DEF IInv
  <1>3. QED
    BY <1>1, <1>2, PTL

\* The columns of a row keep the types of the table (db/models.py, PipelineTask).
THEOREM QueueTypes == Spec => []TypeOK
  BY QueueInvariants, PTL

\* A running row names an owner, and only a running row or one waiting for the
\* local worker does, whatever claims, results, recoveries and retries did to it
\* (production_pipeline.py, claim, advance, complete, fail, recover_abandoned).
THEOREM QueueLeaseColumns == Spec => []LeaseColumnsAgree
  BY QueueInvariants, PTL

\* A row of a retired stage never advances and never completes, for any
\* interleaving of retries, retirement and claims (retire_non_core_tasks).
THEOREM QueueRetiredStages == Spec => []RetiredStageNeverExecutes
  BY QueueInvariants, PTL

-----------------------------------------------------------------------------
\* An ordinary row changes its status from completed in no step, and a refusal
\* is undone in no step.
LEMMA OrdinaryFinality ==
    ASSUME IInv, [Next]_vars, NEW t \in Ordinary
    PROVE  /\ rows[t].status = "completed" => rows'[t].status = "completed"
           /\ rows[t].status = "failed" /\ ~rows[t].recoverable =>
                 rows'[t].status = "failed" /\ ~rows'[t].recoverable
  <1> SUFFICES ASSUME \/ rows[t].status = "completed"
                      \/ rows[t].status = "failed" /\ ~rows[t].recoverable
               PROVE  /\ rows[t].status = "completed" => rows'[t].status = "completed"
                      /\ rows[t].status = "failed" /\ ~rows[t].recoverable =>
                            rows'[t].status = "failed" /\ ~rows'[t].recoverable
    OBVIOUS
  <1>1. t \in Tasks /\ rows \in [Tasks -> Row] /\ rows[t].status # "running"
    BY DEF IInv, TypeOK, Ordinary
  <1>2. CASE \E u \in Tasks : Enqueue(u)
    BY <1>1, <1>2 DEF Enqueue
  <1>3. CASE RetryFailed
    BY <1>1, <1>3 DEF RetryFailed, Retryable
  <1>4. CASE MainStep
    <2>1. CASE \E p \in Pids : StartMain(p)
      BY <2>1 DEF StartMain
    <2>2. CASE ScanAbandoned
      BY <2>2 DEF ScanAbandoned
    <2>3. CASE RecoverAbandoned
      <3>1. t \notin scan
        BY <1>1 DEF IInv, ScanInv
      <3>2. QED
        BY <1>1, <2>3, <3>1 DEF RecoverAbandoned
    <2>4. CASE RetireNonCore
      BY <1>1, <2>4 DEF RetireNonCore, NonCore
    <2>5. CASE \E queues \in QueueFilters : ClaimMain(queues)
      BY <1>1, <2>5 DEF ClaimMain, First, Claimable, Take
    <2>6. CASE \E queues \in QueueFilters : ClaimNothing(queues)
      BY <2>6 DEF ClaimNothing
    <2>7. QED
      BY <1>4, <2>1, <2>2, <2>3, <2>4, <2>5, <2>6 DEF MainStep
  <1>5. CASE LocalStep
    <2>1. /\ LocalRecovered \in [Tasks -> Row]
          /\ LocalRecovered[t] = rows[t]
          /\ \A u \in LocalReady(LocalRecovered) : u # t
      BY <1>1, LocalRecoveredFacts DEF LocalReady
    <2>2. CASE \E p \in Pids : StartLocal(p)
      BY <2>2 DEF StartLocal
    <2>3. CASE ClaimLocal
      BY <2>1, <2>3 DEF ClaimLocal, Take
    <2>4. CASE RecoverLocalOnly
      BY <2>1, <2>4 DEF RecoverLocalOnly
    <2>5. QED
      BY <1>5, <2>2, <2>3, <2>4 DEF LocalStep
  <1>6. CASE \E r \in Roles : WorkerStep(r)
    <2>1. PICK r \in Roles : WorkerStep(r)
      BY <1>6
    <2>2. CASE Finish(r) \/ LostLease(r)
      BY <2>2 DEF Finish, LostLease
    <2>3. CASE WriteResult(r)
      <3>1. cur[r] # t
        BY <1>1, <2>3
           DEF IInv, OrdinaryWorkIsExclusive, WriteResult, Busy, Holds, Roles
      <3>2. QED
        BY <1>1, <2>3, <3>1 DEF WriteResult
    <2>4. CASE Heartbeat(r)
      <3>1. cur[r] # t
        BY <1>1, <2>4 DEF Heartbeat, Holds
      <3>2. QED
        BY <1>1, <2>4, <3>1 DEF Heartbeat
    <2>5. QED
      BY <2>1, <2>2, <2>3, <2>4 DEF WorkerStep
  <1>7. CASE \E r \in Roles : Crash(r)
    BY <1>7 DEF Crash
  <1>8. CASE \E u \in Tasks : LeaseExpires(u)
    BY <1>1, <1>8 DEF LeaseExpires
  <1>9. CASE \E u \in Tasks : BackoffElapses(u)
    <2>1. PICK u \in Tasks : BackoffElapses(u)
      BY <1>9
    <2>2. rows'[t].status = rows[t].status /\ rows'[t].recoverable = rows[t].recoverable
      BY <1>1, <2>1 DEF BackoffElapses, Row
    <2>3. QED
      BY <2>2
  <1>10. CASE UNCHANGED vars
    BY <1>10 DEF vars
  <1>11. QED
    BY <1>2, <1>3, <1>4, <1>5, <1>6, <1>7, <1>8, <1>9, <1>10 DEF Next

\* A completed row of a pending item stays completed (FinishedStaysFinished) and
\* a refused row, retired ones included, stays refused (RefusedStaysRefused),
\* whatever recovery, retries and late results do.
THEOREM QueueFinality == Spec => FinishedStaysFinished /\ RefusedStaysRefused
  <1>1. Spec => []IInv
    BY InitIInv, NextIInv, PTL DEF Spec
  <1>2. IInv /\ [Next]_vars =>
           [\A t \in QueueOnly :
              rows[t].status = "completed" => rows'[t].status = "completed"]_vars
    BY OrdinaryFinality DEF QueueOnly
  <1>3. IInv /\ [Next]_vars =>
           [\A t \in QueueOnly :
              rows[t].status = "failed" /\ ~rows[t].recoverable =>
                 rows'[t].status = "failed" /\ ~rows'[t].recoverable]_vars
    BY OrdinaryFinality DEF QueueOnly
  <1>4. QED
    BY <1>1, <1>2, <1>3, PTL DEF Spec, FinishedStaysFinished, RefusedStaysRefused
=============================================================================
