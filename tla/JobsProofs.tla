------------------------------ MODULE JobsProofs ------------------------------
(***************************************************************************)
(* What the long jobs must not do, for any items, windows, jobs and faults: *)
(* a manifest row never has a status that is not true (ManifestRetry), a    *)
(* campaign is not completed with open items (BackfillCampaign), and a      *)
(* download is not completed with unread ones (DoneCollection).             *)
(***************************************************************************)
EXTENDS MCJobs, FiniteSetTheorems, WellFoundedInduction, TLAPS

(***************************************************************************)
(* The retry of items of the manifest.                                     *)
(***************************************************************************)
AllStatuses == {"pending_download", "download_failed", "auth_required", "processing"}
                   \union Terminal

Typed ==
    /\ st \in [Items -> AllStatuses]
    /\ keyword \in [Items -> Policies \union {NoPolicy}]
    /\ file \in [Items -> {"none", "verified", "missing"}]
    /\ enabled \subseteq Policies

\* The targets of jobs and of the command are rows of the manifest.
JobStatuses == {"none", "queued", "running", "completed", "failed"}
Sources == {"none", "download_failed", "no_attachment", "audit_all"}
Job == [status : JobStatuses, source : Sources, keys : SUBSET Items, started : BOOLEAN,
        tried : SUBSET Items, clean : BOOLEAN]
Targeted ==
    /\ jobs \in [Ids -> Job]
    /\ chunk \subseteq Items
    /\ pc \notin {"idle"} => cur \in Ids

\* What a status says of an item, with the files and confirmations as they are.
True(i, s) ==
    /\ s = "downloaded" => file[i] = "verified" \/ i \in unlooked
    /\ s = "no_attachment" => i \in confirmed /\ file[i] = "none"

\* The status the command may put back is still true, and nobody else writes the
\* row while it is in processing.
Putback ==
    pc = "work" =>
        /\ active.item \in Items /\ st[active.item] = "processing"
        /\ active.was \in AllStatuses \ {"skipped"}
        /\ True(active.item, active.was)

RowsInv == Typed /\ StatusIsTrue /\ Putback
IInv == RowsInv /\ Targeted

-----------------------------------------------------------------------------
\* Classification gives every row it looks at a status that is true: it reads
\* the files, and names a policy in force when it excludes (classify_manifest_rows).
LEMMA ClassifyTrue ==
    ASSUME RowsInv, NoPolicy \notin Policies, NEW S \in SUBSET Items,
           NEW policies \in SUBSET Policies, Classify(S, policies)
    PROVE  /\ st' \in [Items -> AllStatuses]
           /\ keyword' \in [Items -> Policies \union {NoPolicy}]
           /\ StatusIsTrue'
           /\ \A i \in Items \ S : st'[i] = st[i]
  <1>1. ASSUME NEW i \in Items, \E p \in policies : i \in Matches[p]
        PROVE  Keyword(i, policies) \in Policies
    <2>1. PICK p \in policies : i \in Matches[p]
      BY <1>1
    <2>2. QED
      BY <1>1, <2>1 DEF Keyword
  <1>2. ASSUME NEW i \in Items
        PROVE  Keyword(i, policies) \in Policies \union {NoPolicy}
    BY <1>1 DEF Keyword
  <1>3. ASSUME NEW i \in Items
        PROVE  /\ Classified(i, st[i], policies) \in AllStatuses
               /\ Classified(i, st[i], policies) = "downloaded" => file[i] = "verified"
               /\ Classified(i, st[i], policies) = "no_attachment" =>
                      i \in confirmed /\ file[i] = "none"
               /\ Classified(i, st[i], policies) = "skipped" =>
                      Keyword(i, policies) # NoPolicy
    <2>1. st[i] \in AllStatuses /\ file[i] \in {"none", "verified", "missing"}
      BY DEF RowsInv, Typed
    <2>2. ASSUME NEW s \in AllStatuses
          PROVE  Reused(i, s) \in {"downloaded", "no_attachment", s}
      BY DEF Reused
    <2>3. QED
      BY <1>1, <2>1 DEF RowsInv, StatusIsTrue, Classified, Included, Reused, Held, AllStatuses, Terminal
  <1>4. /\ st' = [i \in Items |-> IF i \in S THEN Classified(i, st[i], policies) ELSE st[i]]
        /\ keyword' = [i \in Items |-> IF i \in S THEN Keyword(i, policies) ELSE keyword[i]]
        /\ unlooked' = unlooked \ S /\ file' = file /\ confirmed' = confirmed
    BY DEF Classify
  <1>5. st \in [Items -> AllStatuses] /\ keyword \in [Items -> Policies \union {NoPolicy}]
    BY DEF RowsInv, Typed
  <1>6. StatusIsTrue'
    <2> SUFFICES ASSUME NEW i \in Items
                 PROVE  /\ st'[i] = "downloaded" => file'[i] = "verified" \/ i \in unlooked'
                        /\ st'[i] = "no_attachment" => i \in confirmed' /\ file'[i] = "none"
                        /\ st'[i] = "skipped" => keyword'[i] # NoPolicy
      BY DEF StatusIsTrue
    <2>1. CASE i \in S
      BY <2>1, <1>3, <1>4
    <2>2. CASE i \notin S
      BY <2>2, <1>4 DEF RowsInv, StatusIsTrue
    <2>3. QED
      BY <2>1, <2>2
  <1>7. QED
    BY <1>2, <1>3, <1>4, <1>5, <1>6

LEMMA InitIInv == Init => IInv
  <1> SUFFICES ASSUME Init PROVE IInv
    OBVIOUS
  <1>1. RowsInv
    BY DEF Init, RowsInv, Typed, StatusIsTrue, Putback, AllStatuses, Terminal
  <1>2. NoJob \in Job
    BY DEF NoJob, Job, JobStatuses, Sources
  <1>3. Targeted
    BY <1>2 DEF Init, Targeted
  <1>4. QED
    BY <1>1, <1>3 DEF IInv

-----------------------------------------------------------------------------
\* What the console and other paths of the program do to a row.
LEMMA OutsideStep ==
    ASSUME RowsInv, NoPolicy \notin Policies,
           \/ StartRetry \/ ChangePolicy
           \/ \E i \in Items : LoseFile(i) \/ Captured(i)
    PROVE  RowsInv'
  <1>1. CASE StartRetry
    BY <1>1 DEF StartRetry, Quiet, rows, command, RowsInv, Typed, StatusIsTrue, Putback, True
  <1>2. CASE ChangePolicy
    <2>1. CASE \E p \in Policies \ enabled : enabled' = enabled \union {p} /\ UNCHANGED rows
      BY <1>2, <2>1
         DEF ChangePolicy, Quiet, rows, command, RowsInv, Typed, StatusIsTrue, Putback, True
    <2>2. CASE \E p \in enabled, now \in {{}} \union {{q} : q \in Policies \ enabled} :
                  /\ enabled' = (enabled \ {p}) \union now
                  /\ Classify({i \in Items : st[i] = "skipped" /\ keyword[i] = p}, enabled')
      <3>1. PICK p \in enabled, now \in {{}} \union {{q} : q \in Policies \ enabled} :
                  /\ enabled' = (enabled \ {p}) \union now
                  /\ Classify({i \in Items : st[i] = "skipped" /\ keyword[i] = p}, enabled')
        BY <2>2
      <3> DEFINE S == {i \in Items : st[i] = "skipped" /\ keyword[i] = p}
      <3>2. enabled' \in SUBSET Policies
        BY <3>1 DEF RowsInv, Typed
      <3>3. S \in SUBSET Items /\ Classify(S, enabled')
        BY <3>1
      <3>4. /\ st' \in [Items -> AllStatuses]
            /\ keyword' \in [Items -> Policies \union {NoPolicy}]
            /\ StatusIsTrue'
            /\ \A i \in Items \ S : st'[i] = st[i]
        BY <3>2, <3>3, ClassifyTrue
      <3>5. file' = file /\ confirmed' = confirmed /\ unlooked' = unlooked \ S
        BY <3>3 DEF Classify
      <3>6. pc' = pc /\ active' = active
        BY <1>2 DEF ChangePolicy, Quiet, command
      <3>7. Putback'
        <4> SUFFICES ASSUME pc = "work"
                     PROVE  /\ active.item \in Items /\ st'[active.item] = "processing"
                            /\ active.was \in AllStatuses \ {"skipped"}
                            /\ True(active.item, active.was)'
          BY <3>6 DEF Putback
        <4>1. active.item \notin S
          BY DEF RowsInv, Putback
        <4>2. QED
          BY <3>4, <3>5, <3>6, <4>1 DEF RowsInv, Putback, True
      <3>8. QED
        BY <3>2, <3>4, <3>5, <3>7 DEF RowsInv, Typed
    <2>3. QED
      BY <1>2, <2>1, <2>2 DEF ChangePolicy
  <1>3. ASSUME NEW i \in Items, LoseFile(i) PROVE RowsInv'
    BY <1>3 DEF LoseFile, Quiet, command, RowsInv, Typed, StatusIsTrue, Putback, True
  <1>4. ASSUME NEW i \in Items, Captured(i) PROVE RowsInv'
    BY <1>4 DEF Captured, Quiet, command, RowsInv, Typed, StatusIsTrue, Putback, True,
                AllStatuses, Terminal
  <1>5. QED
    BY <1>1, <1>2, <1>3, <1>4

\* Steps of the worker and its command that classify, mark or put back rows.
LEMMA WorkStep ==
    ASSUME RowsInv, Targeted, NoPolicy \notin Policies, Work
    PROVE  RowsInv'
  <1>1. ASSUME Classify(Items, enabled), enabled' = enabled, pc' # "work" PROVE RowsInv'
    <2>1. enabled \in SUBSET Policies /\ Items \in SUBSET Items
      BY DEF RowsInv, Typed
    <2>2. /\ st' \in [Items -> AllStatuses]
          /\ keyword' \in [Items -> Policies \union {NoPolicy}]
          /\ StatusIsTrue'
      BY <1>1, <2>1, ClassifyTrue
    <2>3. file' = file
      BY <1>1 DEF Classify
    <2>4. QED
      BY <1>1, <2>1, <2>2, <2>3 DEF RowsInv, Typed, Putback
  <1>2. ASSUME UNCHANGED <<rows, enabled>>, pc' # "work" PROVE RowsInv'
    BY <1>2 DEF rows, RowsInv, Typed, StatusIsTrue, Putback
  <1>3. CASE Claim
    <2>1. pc' # "work" /\ enabled' = enabled
      BY <1>3 DEF Claim, Ends
    <2>2. Classify(Items, enabled) \/ UNCHANGED rows
      BY <1>3 DEF Claim
    <2>3. QED
      BY <1>1, <1>2, <2>1, <2>2
  <1>4. CASE Nothing \/ Top \/ Exit \/ Recover
    BY <1>2, <1>4 DEF Nothing, Top, Exit, Recover, Rows, Ends, Conclude
  <1>5. CASE ClassifyAll
    BY <1>1, <1>5 DEF ClassifyAll
  <1>6. CASE Pick
    <2> DEFINE open == {i \in chunk \ met : st[i] \in Selected(jobs[cur].source)}
    <2>1. CASE open = {}
      BY <1>2, <1>6, <2>1 DEF Pick, rows
    <2>2. CASE open # {}
      <3>1. PICK i \in open :
                /\ IF st[i] = "skipped"
                   THEN UNCHANGED <<st, active, pc>>
                   ELSE /\ st' = [st EXCEPT ![i] = "processing"] /\ pc' = "work"
                        /\ active' = [item |-> i, was |-> st[i], seen |-> i \in jobs[cur].tried]
        BY <1>6, <2>2 DEF Pick
      <3>2. CASE st[i] = "skipped"
        BY <1>2, <1>6, <3>1, <3>2 DEF Pick, rows
      <3>3. CASE st[i] # "skipped" /\ i \in Items
        BY <1>6, <3>1, <3>3
           DEF Pick, RowsInv, Typed, StatusIsTrue, Putback, True, AllStatuses, Terminal
      <3>4. i \in Items
        BY DEF Targeted
      <3>5. QED
        BY <3>2, <3>3, <3>4
    <2>3. QED
      BY <2>1, <2>2
  <1>7. CASE Archive
    <2>1. pc = "work" /\ pc' = "pick" /\ UNCHANGED <<keyword, enabled>>
      BY <1>7 DEF Archive, Back
    <2>2. QED
      BY <1>7, <2>1 DEF Archive, Sets, Reused, Held, RowsInv, Typed, StatusIsTrue, Putback, True,
                        AllStatuses, Terminal
  <1>8. CASE BrowserClosed \/ AuthRequired
    BY <1>8 DEF BrowserClosed, AuthRequired, Sets, Back, RowsInv, Typed, StatusIsTrue, Putback,
                True, AllStatuses, Terminal
  <1>9. QED
    BY <1>3, <1>4, <1>5, <1>6, <1>7, <1>8 DEF Work

-----------------------------------------------------------------------------
\* A job is made with rows of the manifest, and no step gives it others.
LEMMA TargetedStep == ASSUME IInv, [Next]_vars PROVE Targeted'
  <1> USE DEF IInv, Targeted
  <1>1. CASE StartRetry
    <2>1. PICK j \in Ids, source \in {"download_failed", "no_attachment", "audit_all"} :
             jobs' = [jobs EXCEPT ![j] = [NoJob EXCEPT !.status = "queued", !.source = source,
                                                       !.keys = Targets(source)]]
      BY <1>1 DEF StartRetry
    <2>2. Targets(source) \subseteq Items
      BY DEF Targets
    <2>3. [NoJob EXCEPT !.status = "queued", !.source = source, !.keys = Targets(source)] \in Job
      <3>1. NoJob \in Job
        BY DEF NoJob, Job, JobStatuses, Sources
      <3>2. QED
        BY <2>2, <3>1 DEF Job, JobStatuses, Sources
    <2>4. jobs' \in [Ids -> Job]
      BY <2>1, <2>3
    <2>5. UNCHANGED <<pc, cur, chunk>>
      BY <1>1 DEF StartRetry, Quiet, command
    <2>6. QED
      BY <2>4, <2>5
  <1>2. CASE ChangePolicy \/ \E i \in Items : LoseFile(i) \/ Captured(i)
    BY <1>2 DEF ChangePolicy, LoseFile, Captured, Quiet, command
  <1>3. CASE CommandDies \/ Crash \/ UNCHANGED vars
    BY <1>3 DEF CommandDies, Crash, Back, vars, command
  <1>4. CASE Work
    <2>1. ASSUME NEW j \in Ids, NEW status \in JobStatuses, NEW clean \in BOOLEAN,
                 Ends(j, status, clean), chunk' = chunk
          PROVE  Targeted'
      BY <2>1 DEF Ends, Job
    <2>2. CASE Claim
      <3>1. PICK j \in Ids :
               \/ Ends(j, "failed", FALSE)
               \/ jobs' = Begun(j) /\ cur' = j
        BY <2>2 DEF Claim
      <3>2. chunk' = chunk
        BY <2>2 DEF Claim, command
      <3>3. ASSUME jobs' = Begun(j), cur' = j PROVE Targeted'
        <4> DEFINE keys == IF jobs[j].source = "audit_all" THEN Items ELSE jobs[j].keys
                   new == [jobs[j] EXCEPT !.status = "running", !.started = TRUE, !.keys = keys]
        <4>1. jobs[j] \in Job /\ keys \in SUBSET Items
          BY DEF Job
        <4>2. new \in Job
          BY <4>1 DEF Job, JobStatuses
        <4>3. jobs' = [jobs EXCEPT ![j] = new]
          BY <3>3, <4>1 DEF Begun, Job
        <4>4. QED
          BY <3>2, <3>3, <4>2, <4>3
      <3>4. QED
        BY <2>1, <3>1, <3>2, <3>3 DEF JobStatuses
    <2>3. CASE Nothing
      BY <2>1, <2>3 DEF Nothing, command, JobStatuses
    <2>4. ASSUME NEW j \in Ids, NEW error \in BOOLEAN, Conclude(j, error), chunk' = chunk
          PROVE  Targeted'
      <3> DEFINE ok == Pending(j) = {} /\ Failed(j) = {} /\ ~error
      <3>1. CASE ok
        <4>1. Ends(j, "completed", TRUE)
          BY <2>4, <3>1, Zenon DEF Conclude
        <4>2. QED
          BY <2>1, <2>4, <4>1 DEF JobStatuses
      <3>2. CASE ~ok
        <4>1. Ends(j, "failed", FALSE)
          BY <2>4, <3>2, Zenon DEF Conclude
        <4>2. QED
          BY <2>1, <2>4, <4>1 DEF JobStatuses
      <3>3. QED
        BY <3>1, <3>2
    <2>5. CASE Top
      <3>1. cur \in Ids /\ Pending(cur) \subseteq Items
        BY <2>5 DEF Top, Pending, Job
      <3>2. QED
        BY <2>4, <2>5, <3>1 DEF Top, command
    <2>6. CASE Exit
      BY <2>4, <2>6 DEF Exit, command
    <2>7. CASE Recover
      BY <2>7 DEF Recover, command, Job, JobStatuses
    <2>8. CASE ClassifyAll \/ Archive \/ AuthRequired
      BY <2>8 DEF ClassifyAll, Archive, AuthRequired, Back, command
    <2>9. CASE Pick
      <3>1. UNCHANGED <<chunk, cur>> /\ pc = "pick"
        BY <2>9 DEF Pick
      <3>2. jobs' = jobs \/ \E i \in Items : jobs' = Stamp(i)
        BY <2>9 DEF Pick
      <3>3. jobs' \in [Ids -> Job]
        BY <3>2 DEF Stamp, Job
      <3>4. QED
        BY <3>1, <3>3
    <2>10. CASE BrowserClosed
      BY <2>10 DEF BrowserClosed, Back, command, Job
    <2>11. QED
      BY <1>4, <2>2, <2>3, <2>5, <2>6, <2>7, <2>8, <2>9, <2>10 DEF Work
  <1>5. QED
    BY <1>1, <1>2, <1>3, <1>4 DEF Next

LEMMA RowsStep ==
    ASSUME NoPolicy \notin Policies, IInv, [Next]_vars
    PROVE  RowsInv'
  <1>1. CASE UNCHANGED vars
    BY <1>1 DEF vars, rows, command, IInv, RowsInv, Typed, StatusIsTrue, Putback, True
  <1>2. CASE CommandDies \/ Crash
    BY <1>2 DEF CommandDies, Crash, Back, rows, command, IInv, RowsInv, Typed, StatusIsTrue,
                Putback, True
  <1>3. QED
    BY <1>1, <1>2, OutsideStep, WorkStep DEF Next, IInv

\* In every reachable state a row says downloaded, no_attachment or skipped only
\* for a reason (web/worker.py, cli.py manifest download): classification reads the
\* files, and the one status that is put back without reading them, by a closed
\* browser or a new login, was true when the row was taken and stayed so, since
\* nobody writes a row in processing.
THEOREM RetryStatusIsTrue ==
    ASSUME NoPolicy \notin Policies
    PROVE  Spec => []StatusIsTrue
  <1>1. IInv /\ [Next]_vars => IInv'
    BY RowsStep, TargetedStep DEF IInv
  <1>2. IInv => StatusIsTrue
    BY DEF IInv, RowsInv
  <1>3. QED
    BY InitIInv, <1>1, <1>2, PTL DEF Spec

-----------------------------------------------------------------------------
(***************************************************************************)
(* The campaign.  Its variables are slots: s1 the batches, s4 the items,   *)
(* s7 the job, s8 its pc, s9 the window, s10 the item in work, s14 what    *)
(* the console put back.                                                   *)
(***************************************************************************)
WindowsAssumed ==
    /\ Windows \subseteq Nat
    /\ \A v, w \in Windows : v # w => ItemsOf[v] \cap ItemsOf[w] = {}

\* The newest of some windows is one of them.
LEMMA NewestIsIn ==
    ASSUME WindowsAssumed, NEW S \in SUBSET Windows, S # {}
    PROVE  (CHOOSE w \in S : \A v \in S : w <= v) \in S
  <1>1. S \subseteq Nat
    BY DEF WindowsAssumed
  <1>2. PICK w \in S : \A v \in S : ~(<<v, w>> \in OpToRel(<, Nat))
    BY <1>1, NatLessThanWellFounded, WFMin
  <1>3. \A v \in S : w <= v
    <2> SUFFICES ASSUME NEW v \in S PROVE w <= v
      OBVIOUS
    <2>1. v \in Nat /\ w \in Nat
      BY <1>1
    <2>2. ~(v < w)
      BY <1>2, <2>1 DEF OpToRel
    <2>3. QED
      BY <2>1, <2>2
  <1>4. QED
    BY <1>3

\* Nothing is completed at first.
LEMMA CampaignInit == B!Init => B!CampaignInv
  BY DEF B!Init, B!CampaignInv, B!CompletedStaysResolved, B!WorksOnOpenBatch,
         B!EndsWithAllCompleted

\* The loop of the campaign looks at the oldest open batch only.
LEMMA CampaignTop ==
    ASSUME WindowsAssumed, B!CampaignInv, B!Top
    PROVE  B!CampaignInv'
  <1>1. CASE B!Open = {}
    BY <1>1 DEF B!Top, B!CampaignInv, B!CompletedStaysResolved, B!WorksOnOpenBatch,
                B!EndsWithAllCompleted
  <1>2. CASE B!Open # {}
    <2> DEFINE w == B!Current
               failed == B!With(w, B!Failed)
               after == [i \in B!AllItems |-> IF i \in failed THEN B!Quarantined(i) ELSE s4[i]]
               complete == failed # {} /\ B!AllResolved(w, after)
    <2>1. w \in B!Open
      BY <1>2, NewestIsIn DEF B!Current, B!Open
    <2>2. w \in Windows /\ s1[w] \notin {"none", "completed"}
      BY <2>1 DEF B!Open
    <2>3. /\ s4' = after /\ s9' = w /\ UNCHANGED <<s7, s10, s14>>
          /\ s8 = "top" /\ s8' \in {"top", "check", "start"}
          /\ \/ complete /\ s1' = [s1 EXCEPT ![w] = "completed"] /\ s8' = "check"
             \/ ~complete /\ s1' = [s1 EXCEPT ![w] = "running"]
             \/ ~complete /\ s1' = s1
      <3> DEFINE pending == \E i \in ItemsOf[w] : after[i] \in {"pending", "archiving"}
                 resumed == failed = {} /\ pending /\ s1[w] = "paused"
      <3>1. /\ s4' = after /\ s9' = w /\ UNCHANGED <<s7, s10, s14>> /\ s8 = "top"
            /\ s1' = CASE complete -> [s1 EXCEPT ![w] = "completed"]
                       [] resumed -> [s1 EXCEPT ![w] = "running"]
                       [] OTHER -> s1
            /\ s8' = IF complete THEN "check"
                     ELSE IF failed # {} THEN "top"
                     ELSE IF pending THEN "start" ELSE "check"
        BY <1>2 DEF B!Top
      <3>2. complete => ~resumed
        OBVIOUS
      <3>0. complete => failed # {}
        OBVIOUS
      <3> HIDE DEF w, after, complete, failed, pending, resumed
      <3>3. s8' \in {"top", "check", "start"} /\ (complete => s8' = "check")
        BY <3>1
      <3>4. /\ complete => s1' = [s1 EXCEPT ![w] = "completed"]
            /\ ~complete /\ resumed => s1' = [s1 EXCEPT ![w] = "running"]
            /\ ~complete /\ ~resumed => s1' = s1
        BY <3>1, <3>2
      <3>5. QED
        BY <3>1, <3>3, <3>4
    <2>4. \A i \in B!AllItems : i \notin ItemsOf[w] => after[i] = s4[i]
      BY DEF B!With
    <2>5. \A i \in ItemsOf[w] : i \in B!AllItems
      BY <2>2 DEF B!AllItems
    <2>6. complete => \A i \in ItemsOf[w] : after[i] \in B!Resolved
      BY DEF B!AllResolved
    <2>7. DOMAIN after = B!AllItems
      OBVIOUS
    <2> HIDE DEF w, failed, after, complete
    <2>8. B!CompletedStaysResolved'
      <3> SUFFICES ASSUME NEW v \in Windows, s1'[v] = "completed", NEW i \in ItemsOf[v]
                   PROVE  s4'[i] \in B!Resolved \/ i \in s14'
        BY DEF B!CompletedStaysResolved
      <3>1. i \in B!AllItems
        BY DEF B!AllItems
      <3>2. CASE v = w
        BY <2>2, <2>3, <2>6, <3>2 DEF B!CampaignInv
      <3>3. CASE v # w
        <4>1. s1[v] = "completed"
          BY <2>2, <2>3, <3>3 DEF B!CampaignInv
        <4>2. i \notin ItemsOf[w]
          BY <2>2, <3>3 DEF WindowsAssumed
        <4>3. QED
          BY <4>1, <4>2, <3>1, <2>3, <2>4 DEF B!CampaignInv, B!CompletedStaysResolved
      <3>4. QED
        BY <3>2, <3>3
    <2>9. B!WorksOnOpenBatch'
      BY <2>2, <2>3 DEF B!CampaignInv, B!WorksOnOpenBatch
    <2>10. B!EndsWithAllCompleted'
      BY <2>2, <2>3 DEF B!CampaignInv, B!EndsWithAllCompleted
    <2>11. QED
      BY <2>3, <2>7, <2>8, <2>9, <2>10 DEF B!CampaignInv
  <1>3. QED
    BY <1>1, <1>2

\* A batch run changes items of its own batch, which is open.
LEMMA CampaignRun ==
    ASSUME WindowsAssumed, B!CampaignInv,
           B!RunStart \/ B!Take \/ B!Archive \/ B!RunEnds \/ B!RunClose
    PROVE  B!CampaignInv'
  <1> DEFINE w == s9
  <1>1. w \in Windows /\ s1[w] \notin {"none", "completed"} /\ s7 = "running" /\ s8 # "idle"
    BY DEF B!RunStart, B!Take, B!Archive, B!RunEnds, B!RunClose, B!InRun, B!CampaignInv,
           B!WorksOnOpenBatch, B!EndsWithAllCompleted
  <1>2. \A v \in Windows : v # w => ItemsOf[v] \cap ItemsOf[w] = {}
    BY <1>1 DEF WindowsAssumed
  <1>3. \A v \in Windows : \A i \in ItemsOf[v] : i \in B!AllItems
    BY DEF B!AllItems
  <1>4. CASE B!RunStart
    <2>1. s10' = s10 /\ s14' = s14 /\ s8 = "start"
      BY <1>4 DEF B!RunStart
    <2>2. CASE s1[w] \in {"ready", "running"}
      <3>1. /\ s1' = [s1 EXCEPT ![w] = "running"] /\ s8' = "run" /\ s7' = s7 /\ s9' = s9
            /\ DOMAIN s4' = B!AllItems
            /\ \A i \in B!AllItems : i \notin ItemsOf[w] => s4'[i] = s4[i]
        BY <1>4, <2>2 DEF B!RunStart
      <3>2. QED
        BY <3>1, <2>1, <1>1, <1>2, <1>3 DEF B!CampaignInv, B!CompletedStaysResolved,
           B!WorksOnOpenBatch, B!EndsWithAllCompleted
    <2>3. CASE s1[w] \notin {"ready", "running"}
      BY <1>4, <2>1, <2>3 DEF B!RunStart, B!Stumble, B!Finish, B!CampaignInv,
         B!CompletedStaysResolved, B!WorksOnOpenBatch, B!EndsWithAllCompleted
    <2>4. QED
      BY <2>2, <2>3
  <1>5. CASE B!Take \/ B!Archive \/ B!RunEnds
    <2>1. /\ UNCHANGED <<s1, s7, s9, s14>> /\ s8 = "run"
          /\ s8' \in {"run", "close"}
      BY <1>5 DEF B!Take, B!Archive, B!RunEnds, B!InRun, B!Worked
    <2>2. /\ DOMAIN s4' = B!AllItems
          /\ \A i \in B!AllItems : i \notin ItemsOf[w] => s4'[i] = s4[i]
      BY <1>5 DEF B!Take, B!Archive, B!RunEnds, B!InRun, B!Worked, B!With, B!CampaignInv,
                  B!WorksOnOpenBatch
    <2>3. s10' # NoItem => s8' = "run" /\ s10' \in ItemsOf[w]
      BY <1>5 DEF B!Take, B!Archive, B!RunEnds, B!InRun, B!Worked, B!With, B!CampaignInv,
                  B!WorksOnOpenBatch
    <2>4. B!CompletedStaysResolved'
      BY <2>1, <2>2, <1>1, <1>2, <1>3 DEF B!CampaignInv, B!CompletedStaysResolved
    <2>5. B!WorksOnOpenBatch' /\ B!EndsWithAllCompleted'
      BY <2>1, <2>3, <1>1 DEF B!CampaignInv, B!WorksOnOpenBatch, B!EndsWithAllCompleted
    <2>6. QED
      BY <2>1, <2>2, <2>4, <2>5 DEF B!CampaignInv
  <1>6. CASE B!RunClose
    <2>1. /\ UNCHANGED <<s4, s10, s14>> /\ s8 = "close"
          /\ s1' = [s1 EXCEPT ![w] = IF B!AllResolved(w, s4) THEN "completed" ELSE "paused"]
      BY <1>6 DEF B!RunClose
    <2>2. /\ s8' \notin {"start", "run", "close"}
          /\ s7' \notin {"completed"} /\ (s8' # "idle" => s7' = s7)
      BY <1>6, <1>1 DEF B!RunClose, B!Finish, B!Stumble
    <2>3. B!CompletedStaysResolved'
      BY <2>1, <1>1, <1>2 DEF B!CampaignInv, B!CompletedStaysResolved, B!AllResolved
    <2>4. B!WorksOnOpenBatch' /\ B!EndsWithAllCompleted'
      BY <2>1, <2>2, <1>1 DEF B!CampaignInv, B!WorksOnOpenBatch, B!EndsWithAllCompleted
    <2>5. QED
      BY <2>1, <2>3, <2>4 DEF B!CampaignInv
  <1>7. QED
    BY <1>4, <1>5, <1>6

\* The gate, and the next window: completed only when no batch is open and no
\* window undiscovered.
LEMMA CampaignNext ==
    ASSUME WindowsAssumed, B!CampaignInv, B!Check \/ B!NextWindow
    PROVE  B!CampaignInv'
  <1>1. CASE B!Check
    BY <1>1 DEF B!Check, B!Finish, B!CampaignInv, B!CompletedStaysResolved, B!WorksOnOpenBatch,
                B!EndsWithAllCompleted
  <1>2. CASE B!NextWindow
    <2>1. UNCHANGED <<s10, s14>> /\ s8 = "next"
      BY <1>2 DEF B!NextWindow
    <2>2. CASE UNCHANGED <<s1, s4>>
      <3>1. s8' = "idle" /\ (s7' = "completed" => B!Open = {} /\ B!Undiscovered = {})
        <4>1. CASE B!Finish("failed") \/ B!Finish("auth_required")
          BY <4>1 DEF B!Finish
        <4>2. CASE B!Open = {} /\ B!Undiscovered = {} /\ B!Finish("completed")
          BY <4>2 DEF B!Finish
        <4>3. CASE B!Open = {} /\ B!Undiscovered # {}
                   /\ B!Discovered(CHOOSE w \in B!Undiscovered : \A v \in B!Undiscovered : w <= v)
          <5> DEFINE w == CHOOSE w \in B!Undiscovered : \A v \in B!Undiscovered : w <= v
          <5>1. w \in Windows /\ s1[w] = "none"
            BY <4>3, NewestIsIn DEF B!Undiscovered
          <5>2. s1'[w] = "ready"
            BY <4>3, <5>1 DEF B!Discovered, B!CampaignInv
          <5>3. QED
            BY <5>1, <5>2, <2>2
        <4>4. QED
          BY <1>2, <4>1, <4>2, <4>3 DEF B!NextWindow
      <3>2. B!EndsWithAllCompleted'
        BY <2>2, <3>1 DEF B!EndsWithAllCompleted, B!Open, B!Undiscovered
      <3>3. QED
        BY <2>1, <2>2, <3>1, <3>2 DEF B!CampaignInv, B!CompletedStaysResolved,
                                      B!WorksOnOpenBatch
    <2>3. CASE /\ B!Open = {} /\ B!Undiscovered # {} /\ s8' = "top" /\ UNCHANGED <<s7, s9>>
               /\ B!Discovered(CHOOSE w \in B!Undiscovered : \A v \in B!Undiscovered : w <= v)
      <3> DEFINE w == CHOOSE w \in B!Undiscovered : \A v \in B!Undiscovered : w <= v
      <3>1. w \in Windows /\ s1[w] = "none"
        BY <2>3, NewestIsIn DEF B!Undiscovered
      <3> HIDE DEF w
      <3>2. /\ s1' = [s1 EXCEPT ![w] = "ready"] /\ DOMAIN s4' = B!AllItems
            /\ \A i \in B!AllItems : i \notin ItemsOf[w] => s4'[i] = s4[i]
        BY <2>3 DEF w, B!Discovered
      <3>3. \A v \in Windows : v # w => ItemsOf[v] \cap ItemsOf[w] = {}
        BY <3>1 DEF WindowsAssumed
      <3>4. \A v \in Windows : \A i \in ItemsOf[v] : i \in B!AllItems
        BY DEF B!AllItems
      <3>5. B!CompletedStaysResolved'
        BY <2>1, <3>1, <3>2, <3>3, <3>4 DEF B!CampaignInv, B!CompletedStaysResolved
      <3>6. B!WorksOnOpenBatch' /\ B!EndsWithAllCompleted'
        BY <2>1, <2>3 DEF B!CampaignInv, B!WorksOnOpenBatch, B!EndsWithAllCompleted
      <3>7. QED
        BY <3>2, <3>5, <3>6 DEF B!CampaignInv
    <2>4. QED
      BY <1>2, <2>2, <2>3 DEF B!NextWindow
  <1>3. QED
    BY <1>1, <1>2

\* Requests, and a crash; what the console puts back in a completed batch is noted.
LEMMA CampaignOthers ==
    ASSUME WindowsAssumed, B!CampaignInv, B!Start \/ B!Claim \/ B!Console \/ B!Crash
    PROVE  B!CampaignInv'
  <1>1. CASE B!Start \/ B!Claim \/ B!Crash
    BY <1>1 DEF B!Start, B!Claim, B!Crash, B!CampaignInv, B!CompletedStaysResolved,
                B!WorksOnOpenBatch, B!EndsWithAllCompleted
  <1>2. CASE B!Console
    <2>1. UNCHANGED <<s7, s8, s9, s10>>
      BY <1>2 DEF B!Console
    <2>2. CASE B!PauseBatch \/ B!ResumeBatch
      <3>1. PICK w \in Windows, status \in {"paused", "running"} :
                s1[w] \in {"paused", "running"} /\ s1' = [s1 EXCEPT ![w] = status]
        BY <2>2 DEF B!PauseBatch, B!ResumeBatch
      <3>2. UNCHANGED <<s4, s14>>
        BY <2>2 DEF B!PauseBatch, B!ResumeBatch
      <3>3. B!CompletedStaysResolved'
        BY <3>1, <3>2 DEF B!CampaignInv, B!CompletedStaysResolved
      <3>4. B!WorksOnOpenBatch' /\ B!EndsWithAllCompleted'
        BY <2>1, <3>1 DEF B!CampaignInv, B!WorksOnOpenBatch, B!EndsWithAllCompleted
      <3>5. QED
        BY <3>1, <3>2, <3>3, <3>4 DEF B!CampaignInv
    <2>3. CASE B!RetryItems
      <3>1. PICK w \in Windows :
               LET back == B!With(w, B!Failed) \cup B!With(w, "review_required") IN
               /\ s4' = [i \in B!AllItems |-> IF i \in back THEN "pending" ELSE s4[i]]
               /\ s14' = IF s1[w] = "completed" THEN s14 \cup back ELSE s14
        BY <2>3 DEF B!RetryItems
      <3> DEFINE back == B!With(w, B!Failed) \cup B!With(w, "review_required")
      <3>2. back \subseteq ItemsOf[w] /\ s1' = s1
        BY <2>3 DEF B!With, B!RetryItems
      <3>3. /\ DOMAIN s4' = B!AllItems
            /\ \A i \in B!AllItems : i \notin back => s4'[i] = s4[i]
            /\ s14' = IF s1[w] = "completed" THEN s14 \cup back ELSE s14
        BY <3>1
      <3> HIDE DEF back
      <3>4. B!CompletedStaysResolved'
        <4> SUFFICES ASSUME NEW v \in Windows, s1[v] = "completed", NEW i \in ItemsOf[v]
                     PROVE  s4'[i] \in B!Resolved \/ i \in s14'
          BY <3>2 DEF B!CompletedStaysResolved
        <4>1. i \in B!AllItems /\ (s4[i] \in B!Resolved \/ i \in s14)
          BY DEF B!AllItems, B!CampaignInv, B!CompletedStaysResolved
        <4>2. i \in back => v = w
          BY <3>2 DEF WindowsAssumed
        <4>3. QED
          BY <4>1, <4>2, <3>3
      <3>5. QED
        BY <2>1, <3>2, <3>3, <3>4 DEF B!CampaignInv, B!WorksOnOpenBatch, B!EndsWithAllCompleted
    <2>4. CASE B!Exclude
      <3>1. PICK i \in B!AllItems : s4' = [s4 EXCEPT ![i] = "confirmed_skip"]
        BY <2>4 DEF B!Exclude
      <3>2. UNCHANGED <<s1, s14>>
        BY <2>4 DEF B!Exclude
      <3>3. \A v \in Windows : \A j \in ItemsOf[v] : j \in B!AllItems
        BY DEF B!AllItems
      <3>4. QED
        BY <2>1, <3>1, <3>2, <3>3 DEF B!CampaignInv, B!CompletedStaysResolved,
           B!WorksOnOpenBatch, B!EndsWithAllCompleted, B!Resolved
    <2>5. QED
      BY <1>2, <2>2, <2>3, <2>4 DEF B!Console
  <1>3. QED
    BY <1>1, <1>2

\* A completed campaign has left no item of any window unresolved, whatever
\* failed, crashed or was put back, but for what the console put back in a batch
\* that was completed already (web/worker.py:1966): a batch is completed only
\* with all its items resolved, the command at work holds an open one, and the
\* job ends as completed when every window has been and none is open.
THEOREM CampaignLeavesNothing ==
    ASSUME WindowsAssumed
    PROVE  JobSpec => []CampaignCompleteMeansResolved
  <1> DEFINE Inv == which = "backfill" => B!CampaignInv
  <1>1. JobInit => Inv
    BY CampaignInit DEF JobInit
  <1>2. Inv /\ [JobNext]_all => Inv'
    <2> SUFFICES ASSUME which = "backfill", B!CampaignInv, [JobNext]_all
                 PROVE  B!CampaignInv'
      BY DEF JobNext, all
    <2>1. B!Next \/ UNCHANGED slots
      BY DEF JobNext, all
    <2>2. CASE B!Next
      BY <2>2, CampaignTop, CampaignRun, CampaignNext, CampaignOthers DEF B!Next, B!Work
    <2>3. CASE UNCHANGED slots
      BY <2>3 DEF slots, After12, B!CampaignInv, B!CompletedStaysResolved, B!WorksOnOpenBatch,
                  B!EndsWithAllCompleted
    <2>4. QED
      BY <2>1, <2>2, <2>3
  <1>3. Inv => CampaignCompleteMeansResolved
    BY DEF CampaignCompleteMeansResolved, B!CampaignCompleteMeansResolved, B!CampaignInv,
           B!CompletedStaysResolved, B!EndsWithAllCompleted, B!AllItems
  <1>4. QED
    BY <1>1, <1>2, <1>3, PTL DEF JobSpec

-----------------------------------------------------------------------------
(***************************************************************************)
(* The collection.  Its variables are slots: s1 the jobs, s2 the items, s5 *)
(* and s7 the pc and the job of the executing process, s8 its child.       *)
(***************************************************************************)
JobFields == {"kind", "status", "owner", "pause", "deferred", "timedOut", "keys", "sessions"}

\* A step that writes one row and keeps its kind.
Writes(j, status) ==
    /\ DOMAIN s1' = D!Ids
    /\ \A i \in D!Ids : i # j => s1'[i] = s1[i]
    /\ DOMAIN s1'[j] = JobFields
    /\ s1'[j].kind = s1[j].kind /\ s1'[j].status = status /\ s1'[j].keys = s1[j].keys

LEMMA RowFields == D!CollectionInv => \A j \in D!Ids : DOMAIN s1[j] = JobFields
  BY DEF D!CollectionInv, D!NoJob, JobFields

\* Rows are numbered without a gap, so the next number is a new one.
LEMMA NextRow ==
    ASSUME DoneJobs \in Nat, NEW n \in 0..DoneJobs,
           \A j \in D!Ids : s1[j].kind = "none" <=> j > n
    PROVE  D!Used = n
  <1>1. {j \in D!Ids : s1[j].kind # "none"} = 1..n
    BY DEF D!Ids
  <1>2. Cardinality(1..n) = n
    BY FS_Interval
  <1>3. D!Cardinality(1..n) = Cardinality(1..n)
    BY DEF D!Cardinality, Cardinality
  <1>4. QED
    BY <1>1, <1>2, <1>3 DEF D!Used

\* A row is written, and the executing process goes on with a job that exists.
LEMMA RowWritten ==
    ASSUME D!CollectionInv, NEW j \in D!Ids, s1[j].kind # "none", NEW status, Writes(j, status),
           s5' # "idle" => s7' \in D!Ids /\ s1[s7'].kind # "none",
           s5' = "session" => s1[s7'].kind # "done_download"
    PROVE  D!CollectionInv'
  <1>1. \A i \in D!Ids : /\ DOMAIN s1'[i] = JobFields /\ s1'[i].kind = s1[i].kind
                         /\ s1'[i].status # "none" => s1[i].kind # "none"
    BY RowFields DEF Writes, D!CollectionInv
  <1>2. DOMAIN s1' = D!Ids /\ DOMAIN D!NoJob = JobFields
    BY DEF Writes, D!NoJob, JobFields
  <1>3. \E n \in 0..DoneJobs : \A i \in D!Ids : s1'[i].kind = "none" <=> i > n
    BY <1>1 DEF D!CollectionInv
  <1>4. QED
    BY <1>1, <1>2, <1>3 DEF D!CollectionInv, D!Ids

\* No row is written, or all keep their kinds and none is completed now.
LEMMA RowsKept ==
    ASSUME D!CollectionInv,
           DOMAIN s1' = D!Ids,
           \A i \in D!Ids : /\ DOMAIN s1'[i] = JobFields /\ s1'[i].kind = s1[i].kind
                            /\ s1'[i].status # "none" => s1[i].kind # "none",
           s5' # "idle" => s7' \in D!Ids /\ s1[s7'].kind # "none",
           s5' = "session" => s1[s7'].kind # "done_download"
    PROVE  D!CollectionInv'
  <1>1. DOMAIN D!NoJob = JobFields
    BY DEF D!NoJob, JobFields
  <1>2. \E n \in 0..DoneJobs : \A i \in D!Ids : s1'[i].kind = "none" <=> i > n
    BY DEF D!CollectionInv
  <1>3. QED
    BY <1>1, <1>2 DEF D!CollectionInv, D!Ids

\* A new row, at a number no job had.
LEMMA StartRow ==
    ASSUME DoneJobs \in Nat, D!CollectionInv, NEW k \in D!Kinds, D!Start(k), UNCHANGED <<s5, s7>>
    PROVE  D!CollectionInv' /\ D!CompletesSettled
  <1>1. PICK n \in 0..DoneJobs : \A j \in D!Ids : s1[j].kind = "none" <=> j > n
    BY DEF D!CollectionInv
  <1>2. D!Used = n
    BY <1>1, NextRow
  <1>3. n < DoneJobs /\ n + 1 \in D!Ids
    BY <1>2 DEF D!Start, D!Startable, D!Ids
  <1> DEFINE row == D!NewJob(k)
  <1>4. s1' = [s1 EXCEPT ![n + 1] = row]
    BY <1>2 DEF D!Start
  <1>5. DOMAIN row = JobFields /\ row.kind = k /\ row.status = "queued"
    BY DEF D!NewJob, D!NoJob, JobFields
  <1>6. k # "none"
    BY DEF D!Kinds
  <1> HIDE DEF row
  <1>7. /\ DOMAIN s1' = D!Ids /\ s1'[n + 1] = row
        /\ \A j \in D!Ids : j # n + 1 => s1'[j] = s1[j]
    BY <1>3, <1>4 DEF D!CollectionInv
  <1>8. \A j \in D!Ids : s1'[j].kind = "none" <=> j > n + 1
    BY <1>1, <1>3, <1>5, <1>6, <1>7 DEF D!Ids
  <1>9. DOMAIN D!NoJob = JobFields
    BY DEF D!NoJob, JobFields
  <1>10. \A j \in D!Ids : DOMAIN s1'[j] = JobFields /\ (s1'[j].status # "none" => s1'[j].kind # "none")
    BY <1>5, <1>6, <1>7, RowFields DEF D!CollectionInv
  <1>11. s5' # "idle" => s7' \in D!Ids /\ s7' # n + 1
    BY <1>1, <1>3 DEF D!CollectionInv, D!Ids
  <1>12. D!CollectionInv'
    <2>1. n + 1 \in 0..DoneJobs
      BY <1>3
    <2>2. \E m \in 0..DoneJobs : \A j \in D!Ids : s1'[j].kind = "none" <=> j > m
      BY <1>8, <2>1
    <2>3. /\ s5' # "idle" => s7' \in D!Ids /\ s1'[s7'].kind # "none"
          /\ s5' = "session" => s1'[s7'].kind # "done_download"
      BY <1>7, <1>11 DEF D!CollectionInv
    <2>4. QED
      BY <1>7, <1>9, <1>10, <2>2, <2>3 DEF D!CollectionInv, D!Ids
  <1>13. D!CompletesSettled
    BY <1>5, <1>7 DEF D!CompletesSettled
  <1>14. QED
    BY <1>12, <1>13

\* Requests to pause and to resume, of the operator or of the daily runner.
LEMMA ControlRow ==
    ASSUME D!CollectionInv, NEW j \in D!Ids, D!Pause(j) \/ D!Resume(j), UNCHANGED <<s5, s7>>
    PROVE  D!CollectionInv' /\ D!CompletesSettled
  <1>1. DOMAIN s1 = D!Ids /\ DOMAIN s1[j] = JobFields /\ s1[j].kind # "none"
    BY RowFields DEF D!CollectionInv, D!Pause, D!Resume, D!Resumable, D!Active
  <1>2. CASE D!Pause(j)
    <2> DEFINE status == IF s1[j].status = "queued" THEN "paused" ELSE s1[j].status
               owner == IF s1[j].status = "queued" THEN "none" ELSE s1[j].owner
    <2>1. s1' = [s1 EXCEPT ![j].pause = TRUE, ![j].status = status, ![j].owner = owner]
      BY <1>2 DEF D!Pause
    <2>2. status # "completed"
      BY <1>2 DEF D!Pause, D!Active
    <2> HIDE DEF status, owner
    <2>3. s1'[j] = [s1[j] EXCEPT !.pause = TRUE, !.status = status, !.owner = owner]
      BY <2>1, <1>1
    <2>4. Writes(j, status)
      BY <2>1, <2>3, <1>1 DEF Writes, JobFields
    <2>5. D!CompletesSettled
      BY <2>2, <2>4 DEF D!CompletesSettled, Writes
    <2>6. QED
      BY <1>1, <2>4, <2>5, RowWritten DEF D!CollectionInv
  <1>3. CASE D!Resume(j)
    <2>1. s1' = [s1 EXCEPT ![j] = D!Resumed(j)]
      BY <1>3 DEF D!Resume
    <2>2. /\ DOMAIN D!Resumed(j) = JobFields /\ D!Resumed(j).kind = s1[j].kind
          /\ D!Resumed(j).status = "queued" /\ D!Resumed(j).keys = s1[j].keys
      BY <1>1 DEF D!Resumed, JobFields
    <2>3. Writes(j, "queued")
      BY <1>1, <2>1, <2>2 DEF Writes
    <2>4. D!CompletesSettled
      BY <2>3 DEF D!CompletesSettled, Writes
    <2>5. QED
      BY <1>1, <2>3, <2>4, RowWritten DEF D!CollectionInv
  <1>4. QED
    BY <1>2, <1>3

\* The end of a job: the status it was given, or paused.
LEMMA FinishRow ==
    ASSUME D!CollectionInv, s5 # "idle", NEW status, D!Finish(status)
    PROVE  /\ s5' = "idle"
           /\ \E end \in {status, "paused"} : Writes(s7, end)
  <1>1. s7 \in D!Ids /\ DOMAIN s1 = D!Ids /\ DOMAIN s1[s7] = JobFields
    BY RowFields DEF D!CollectionInv
  <1> DEFINE end == IF status = "queued" /\ s1[s7].pause THEN "paused" ELSE status
             owner == IF end = "queued" THEN s1[s7].owner ELSE "none"
             sessions == IF s5 = "session" /\ end = "queued" THEN s1[s7].sessions + 1 ELSE 0
  <1>2. /\ s1' = [s1 EXCEPT ![s7].status = end, ![s7].owner = owner, ![s7].sessions = sessions]
        /\ s5' = "idle"
    BY DEF D!Finish, D!Idle
  <1>3. end \in {status, "paused"}
    OBVIOUS
  <1> HIDE DEF end, owner, sessions
  <1>4. s1'[s7] = [s1[s7] EXCEPT !.status = end, !.owner = owner, !.sessions = sessions]
    BY <1>1, <1>2
  <1>5. Writes(s7, end)
    BY <1>1, <1>2, <1>4 DEF Writes, JobFields
  <1>6. QED
    BY <1>2, <1>3, <1>5

\* A row whose status is written, by a claim or the start of a session.
LEMMA StatusRow ==
    ASSUME D!CollectionInv, NEW j \in D!Ids, NEW status, NEW owner,
           s1' = [s1 EXCEPT ![j].status = status, ![j].owner = owner]
    PROVE  Writes(j, status)
  <1>1. DOMAIN s1 = D!Ids /\ DOMAIN s1[j] = JobFields
    BY RowFields DEF D!CollectionInv
  <1>2. s1'[j] = [s1[j] EXCEPT !.status = status, !.owner = owner]
    BY <1>1
  <1>3. QED
    BY <1>1, <1>2 DEF Writes, JobFields

\* The executing process: a job is completed by the end of a session, which is
\* none of a download, by a download of nothing, or by a child that left nothing.
LEMMA WorkRows ==
    ASSUME DoneJobs \in Nat, D!CollectionInv, D!Work
    PROVE  D!CollectionInv' /\ D!CompletesSettled
  <1>0. DOMAIN s1 = D!Ids /\ \A j \in D!Ids : DOMAIN s1[j] = JobFields
    BY RowFields DEF D!CollectionInv
  <1>a. ASSUME NEW j \in D!Ids, s1[j].kind # "none", NEW status, Writes(j, status),
               status = "completed" /\ s1[j].kind = "done_download" =>
                   \A i \in s1[j].keys : s2'[i] \in D!Settled,
               s5' # "idle" => s7' \in D!Ids /\ s1[s7'].kind # "none",
               s5' = "session" => s1[s7'].kind # "done_download"
        PROVE  D!CollectionInv' /\ D!CompletesSettled
    <2>1. D!CollectionInv'
      BY <1>a, RowWritten
    <2>2. D!CompletesSettled
      BY <1>a DEF D!CompletesSettled, Writes
    <2>3. QED
      BY <2>1, <2>2
  <1>b. ASSUME s1' = s1, s5 # "idle", s7' = s7, s5' \in {s5, "after"}
        PROVE  D!CollectionInv' /\ D!CompletesSettled
    <2>1. D!CompletesSettled
      BY <1>b DEF D!CompletesSettled
    <2>2. QED
      BY <1>b, <2>1 DEF D!CollectionInv
  <1>1. CASE D!Claim
    <2>1. PICK j \in D!Ids : s7' = j /\ (D!ClaimDesktop(j) \/ D!ClaimWorker(j))
      BY <1>1 DEF D!Claim
    <2>2. s1[j].kind # "none" /\ s5' = "claimed"
      BY <1>1, <2>1 DEF D!Claim, D!ClaimDesktop, D!ClaimWorker, D!Active, D!CollectionInv
    <2>3. CASE D!ClaimDesktop(j)
      <3>1. Writes(j, "running")
        BY <2>3, StatusRow DEF D!ClaimDesktop
      <3>2. QED
        BY <2>1, <2>2, <3>1, <1>a
    <2>4. CASE D!ClaimWorker(j)
      <3>1. s1' = [s1 EXCEPT ![j].owner = "worker"] /\ s1[j].status = "queued"
        BY <2>4 DEF D!ClaimWorker
      <3>2. s1'[j] = [s1[j] EXCEPT !.owner = "worker"]
        BY <3>1, <1>0
      <3>3. Writes(j, "queued")
        BY <3>1, <3>2, <1>0 DEF Writes, JobFields
      <3>4. QED
        BY <2>1, <2>2, <3>3, <1>a
    <2>5. QED
      BY <2>1, <2>3, <2>4
  <1>2. CASE D!Begin
    <2>1. s5 = "claimed" /\ s7 \in D!Ids /\ s1[s7].kind # "none"
      BY <1>2 DEF D!Begin, D!CollectionInv
    <2>2. ASSUME NEW status \in {"paused", "queued"}, D!Finish(status)
          PROVE  D!CollectionInv' /\ D!CompletesSettled
      <3>1. s5' = "idle" /\ \E end \in {status, "paused"} : Writes(s7, end)
        BY <2>1, <2>2, FinishRow
      <3>2. PICK end \in {status, "paused"} : Writes(s7, end)
        BY <3>1
      <3>3. QED
        BY <2>1, <3>1, <3>2, <1>a
    <2>3. CASE s1[s7].kind = "done_download" /\ s1[s7].keys = {} /\ D!Finish("completed")
      <3>1. s5' = "idle" /\ \E end \in {"completed", "paused"} : Writes(s7, end)
        BY <2>1, <2>3, FinishRow
      <3>2. PICK end \in {"completed", "paused"} : Writes(s7, end)
        BY <3>1
      <3>3. QED
        BY <2>1, <2>3, <3>1, <3>2, <1>a
    <2>4. CASE D!Idle /\ UNCHANGED <<s1, s11>>
      BY <2>4 DEF D!Idle, D!CollectionInv, D!CompletesSettled
    <2>5. CASE /\ s5' = (IF s1[s7].kind = "done_download" THEN "child" ELSE "session")
               /\ s1' = [s1 EXCEPT ![s7].status =
                             IF s1[s7].kind = "done_review" THEN @ ELSE "running"]
               /\ UNCHANGED <<s6, s7, s8, s11>>
      <3> DEFINE status == IF s1[s7].kind = "done_review" THEN s1[s7].status ELSE "running"
      <3>1. s1' = [s1 EXCEPT ![s7].status = status]
        BY <2>5, <2>1, <1>0
      <3> HIDE DEF status
      <3>2. s1'[s7] = [s1[s7] EXCEPT !.status = status]
        BY <3>1, <2>1, <1>0
      <3>3. Writes(s7, status)
        BY <3>1, <3>2, <2>1, <1>0 DEF Writes, JobFields
      <3>4. status = "completed" => s1[s7].kind # "done_download"
        BY DEF status
      <3>5. QED
        BY <2>1, <2>5, <3>3, <3>4, <1>a
    <2>6. QED
      BY <1>2, <2>2, <2>3, <2>4, <2>5 DEF D!Begin, D!GiveUp
  <1>3. CASE D!Session
    <2>1. s5 = "session" /\ s7 \in D!Ids /\ s1[s7].kind \notin {"none", "done_download"}
      BY <1>3 DEF D!Session, D!CollectionInv
    <2>2. PICK status : D!Finish(status)
      BY <1>3 DEF D!Session
    <2>3. s5' = "idle" /\ \E end \in {status, "paused"} : Writes(s7, end)
      BY <2>1, <2>2, FinishRow
    <2>4. PICK end \in {status, "paused"} : Writes(s7, end)
      BY <2>3
    <2>5. QED
      BY <2>1, <2>3, <2>4, <1>a
  <1>4. CASE D!Pick \/ D!Capture
    <2>1. s1' = s1 /\ s7' = s7 /\ s5 = "child" /\ s5' \in {"child", "after"}
      BY <1>4 DEF D!Pick, D!Capture, D!InChild, D!Exit, D!Processed
    <2>2. QED
      BY <2>1, <1>b
  <1>5. CASE D!Watch
    <2>1. s7' = s7 /\ s5 = "child" /\ s5' = "after" /\ s7 \in D!Ids /\ s1[s7].kind # "none"
      BY <1>5 DEF D!Watch, D!InChild, D!Exit, D!CollectionInv
    <2>2. CASE s1' = [s1 EXCEPT ![s7] = D!Deferred(s1[s7], s8.active)]
      <3> DEFINE row == D!Deferred(s1[s7], s8.active)
      <3>1. /\ DOMAIN row = JobFields /\ row.kind = s1[s7].kind /\ row.status = s1[s7].status
            /\ row.keys = s1[s7].keys
        BY <2>1, <1>0 DEF D!Deferred, JobFields
      <3> HIDE DEF row
      <3>2. s1' = [s1 EXCEPT ![s7] = row]
        BY <2>2 DEF row
      <3>3. Writes(s7, s1[s7].status)
        BY <2>1, <3>1, <3>2, <1>0 DEF Writes
      <3>4. D!CollectionInv'
        BY <2>1, <3>3, RowWritten
      <3>5. D!CompletesSettled
        BY <3>3 DEF D!CompletesSettled, Writes
      <3>6. QED
        BY <3>4, <3>5
    <2>3. CASE s1' = s1
      BY <2>1, <2>3, <1>b
    <2>4. QED
      BY <1>5, <2>2, <2>3 DEF D!Watch
  <1>6. CASE D!After
    <2>1. /\ s5 = "after" /\ s5' = "idle" /\ s2' = s2
          /\ s7 \in D!Ids /\ s1[s7].kind # "none"
      BY <1>6 DEF D!After, D!Idle, D!CollectionInv
    <2> DEFINE end == IF D!Verdict = "queued" /\ s1[s7].pause THEN "paused" ELSE D!Verdict
               owner == IF end = "queued" THEN s1[s7].owner ELSE "none"
               late == IF s1[s7].pause THEN s1[s7].timedOut ELSE FALSE
    <2>2. s1' = [s1 EXCEPT ![s7].status = end, ![s7].owner = owner, ![s7].timedOut = late]
      BY <1>6, <2>1, <1>0 DEF D!After
    <2>3. end = "completed" => \A i \in s1[s7].keys : s2[i] \in D!Settled
      BY DEF D!Verdict
    <2> HIDE DEF end, owner, late
    <2>4. s1'[s7] = [s1[s7] EXCEPT !.status = end, !.owner = owner, !.timedOut = late]
      BY <2>1, <2>2, <1>0
    <2>5. Writes(s7, end)
      BY <2>1, <2>2, <2>4, <1>0 DEF Writes, JobFields
    <2>6. QED
      BY <2>1, <2>3, <2>5, <1>a
  <1>7. CASE D!Recover
    <2>1. /\ s5' = s5 /\ s7' = s7
          /\ s1' = [j \in D!Ids |-> IF D!Orphaned(j)
                                    THEN [s1[j] EXCEPT !.status = "queued", !.owner = "none"]
                                    ELSE s1[j]]
      BY <1>7 DEF D!Recover
    <2>2. \A j \in D!Ids : /\ DOMAIN s1'[j] = JobFields /\ s1'[j].kind = s1[j].kind
                           /\ s1'[j].status \in {s1[j].status, "queued"}
                           /\ s1'[j].status # s1[j].status => D!Active(j)
      BY <2>1, <1>0 DEF D!Orphaned, JobFields
    <2>3. \A j \in D!Ids : s1'[j].status # "none" => s1[j].kind # "none"
      BY <2>2 DEF D!Active, D!CollectionInv
    <2>4. D!CollectionInv'
      BY <2>1, <2>2, <2>3, RowsKept DEF D!CollectionInv
    <2>5. D!CompletesSettled
      BY <2>2 DEF D!CompletesSettled
    <2>6. QED
      BY <2>4, <2>5
  <1>8. QED
    BY <1>1, <1>2, <1>3, <1>4, <1>5, <1>6, <1>7 DEF D!Work

\* The operator, the daily runner, crashes and the rest.
LEMMA OtherRows ==
    ASSUME DoneJobs \in Nat, D!CollectionInv,
           \/ D!Operator \/ D!Crash \/ D!StartDesktop \/ D!OtherTakes \/ D!OtherReleases
           \/ D!Tick \/ D!NextDay
    PROVE  D!CollectionInv' /\ D!CompletesSettled
  <1>0. DOMAIN s1 = D!Ids /\ \A j \in D!Ids : DOMAIN s1[j] = JobFields
    BY RowFields DEF D!CollectionInv
  <1>a. ASSUME UNCHANGED <<s1, s5, s7>> PROVE D!CollectionInv' /\ D!CompletesSettled
    BY <1>a DEF D!CollectionInv, D!CompletesSettled
  <1>1. CASE D!Operator
    <2>1. UNCHANGED <<s5, s7>>
      BY <1>1 DEF D!Operator
    <2>2. QED
      BY <1>1, <2>1, StartRow, ControlRow DEF D!Operator
  <1>2. CASE D!Tick
    <2>1. UNCHANGED <<s5, s7>>
      BY <1>2 DEF D!Tick
    <2>2. CASE D!StartDay \/ D!StartDownload
      <3>1. D!Start("done_inventory") \/ D!Start("done_download") \/ s1' = s1
        BY <2>2 DEF D!StartDay, D!StartDownload
      <3>2. {"done_inventory", "done_download"} \subseteq D!Kinds
        BY DEF D!Kinds
      <3>3. QED
        BY <2>1, <3>1, <3>2, <1>a, StartRow
    <2>3. CASE D!RetryLogin
      <3>1. D!Resume(D!Its) /\ s1[D!Its].status = "auth_required"
        BY <2>3 DEF D!RetryLogin
      <3>2. CASE D!Its \in D!Ids
        BY <2>1, <3>1, <3>2, ControlRow
      \* The runner's job exists; where it did not, nothing would be written.
      <3>3. CASE D!Its \notin D!Ids
        <4>1. s1' = [s1 EXCEPT ![D!Its] = D!Resumed(D!Its)]
          BY <3>1 DEF D!Resume
        <4>2. DOMAIN s1' = D!Ids /\ \A j \in D!Ids : s1'[j] = s1[j]
          BY <3>3, <4>1, <1>0 DEF D!CollectionInv
        <4>3. D!CollectionInv'
          BY <2>1, <4>2, <1>0, RowsKept DEF D!CollectionInv
        <4>4. QED
          BY <4>2, <4>3 DEF D!CompletesSettled
      <3>4. QED
        BY <3>2, <3>3
    <2>4. CASE D!InventoryFailed \/ D!DownloadEnded
      BY <2>1, <2>4, <1>a DEF D!InventoryFailed, D!DownloadEnded
    <2>5. QED
      BY <1>2, <2>2, <2>3, <2>4 DEF D!Tick
  <1>3. CASE D!Crash
    <2>1. s5' = "idle" /\ s5 # "idle" /\ s7 \in D!Ids /\ s1[s7].kind # "none"
      BY <1>3 DEF D!Crash, D!Idle, D!CollectionInv
    <2> DEFINE owner == IF s6 = "desktop" THEN s1[s7].owner ELSE "dead"
    <2>2. s1' = [s1 EXCEPT ![s7].owner = owner]
      BY <1>3, <2>1, <1>0 DEF D!Crash
    <2> HIDE DEF owner
    <2>3. s1'[s7] = [s1[s7] EXCEPT !.owner = owner]
      BY <2>1, <2>2, <1>0
    <2>4. Writes(s7, s1[s7].status)
      BY <2>1, <2>2, <2>3, <1>0 DEF Writes, JobFields
    <2>5. D!CollectionInv'
      BY <2>1, <2>4, RowWritten
    <2>6. D!CompletesSettled
      BY <2>4 DEF D!CompletesSettled, Writes
    <2>7. QED
      BY <2>5, <2>6
  <1>4. CASE D!StartDesktop
    <2>1. /\ s5' = s5 /\ s7' = s7
          /\ s1' = [j \in D!Ids |-> IF s1[j].owner = "desktop"
                                    THEN [s1[j] EXCEPT !.owner = "dead"] ELSE s1[j]]
      BY <1>4 DEF D!StartDesktop
    <2>2. \A j \in D!Ids : /\ DOMAIN s1'[j] = JobFields /\ s1'[j].kind = s1[j].kind
                           /\ s1'[j].status = s1[j].status
      BY <2>1, <1>0 DEF JobFields
    <2>3. D!CollectionInv'
      BY <2>1, <2>2, RowsKept DEF D!CollectionInv
    <2>4. QED
      BY <2>2, <2>3 DEF D!CompletesSettled
  <1>5. CASE D!OtherTakes \/ D!OtherReleases \/ D!NextDay
    BY <1>5, <1>a DEF D!OtherTakes, D!OtherReleases, D!NextDay
  <1>6. QED
    BY <1>1, <1>2, <1>3, <1>4, <1>5

\* A download is reported as completed only when no item of it is unread, for
\* any number of jobs, whatever is paused, resumed, taken over or dies
\* (done_collection.py, run_download): the row it is written to is the job's own,
\* and a session of the browser, which also ends as completed, is never one of a
\* download.
THEOREM DownloadsAreSettled ==
    ASSUME DoneJobs \in Nat
    PROVE  JobSpec => CompletedMeansSettled
  <1> DEFINE Inv == which = "collection" => D!CollectionInv
  <1>1. JobInit => Inv
    <2> SUFFICES ASSUME D!Init PROVE D!CollectionInv
      BY DEF JobInit
    <2>1. s1 = [j \in D!Ids |-> D!NoJob] /\ s5 = "idle"
      BY DEF D!Init
    <2>2. D!NoJob.kind = "none" /\ D!NoJob.status = "none"
      BY DEF D!NoJob
    <2>3. 0 \in 0..DoneJobs /\ \A j \in D!Ids : j > 0
      BY DEF D!Ids
    <2>4. \E n \in 0..DoneJobs : \A j \in D!Ids : s1[j].kind = "none" <=> j > n
      BY <2>1, <2>2, <2>3
    <2>5. QED
      BY <2>1, <2>2, <2>4 DEF D!CollectionInv
  <1>2. Inv /\ [JobNext]_all => Inv' /\ [which = "collection" => D!CompletesSettled]_all
    <2> SUFFICES ASSUME which = "collection", D!CollectionInv, [JobNext]_all
                 PROVE  D!CollectionInv' /\ (D!CompletesSettled \/ UNCHANGED all)
      BY DEF JobNext, all
    <2>1. D!Next \/ UNCHANGED all
      BY DEF JobNext
    <2>2. CASE D!Next
      BY <2>2, WorkRows, OtherRows DEF D!Next
    <2>3. CASE UNCHANGED all
      BY <2>3 DEF all, slots, After12, D!CollectionInv
    <2>4. QED
      BY <2>1, <2>2, <2>3
  <1>3. QED
    BY <1>1, <1>2, PTL DEF JobSpec, CompletedMeansSettled
=============================================================================
