--------------------------- MODULE CandidatesProofs ---------------------------
(***************************************************************************)
(* What is proved, for every value of the constants, of the way of an item *)
(* from a decision to a package: the programs that classify items          *)
(* (ItemClassification) by their metadata (MetadataRules) and their        *)
(* dossier (DossierRules), the build of candidate packages                 *)
(* (CandidateBuild), the backfill that samples items and publishes a       *)
(* result (CandidateBackfill), and the attachments that become notes       *)
(* (CandidateAttachments).  They are instances over the variables s1, s2,  *)
(* ... of MCItems; their invariants stand beside their properties in the   *)
(* modules of the instances.                                               *)
(***************************************************************************)
EXTENDS MCItems, FiniteSetTheorems, WellFoundedInduction, TLAPS

\* What every step keeps: a decision is never changed or lost, an item that has
\* one keeps having one, never one it had before, and a run keeps the reasons it froze its items for.
Grows ==
    /\ \A d \in I!Ids : d \in I!Ids' /\ s1'[d] = s1[d]
    /\ \A i \in Entries : s2[i] # 0 => s2'[i] # 0
    /\ \A i \in Entries : s2'[i] \in I!Ids => s2'[i] = s2[i]
    /\ \A r \in I!RunIds :
           s3[r].status # "none" => s3'[r].status # "none" /\ s3'[r].why = s3[r].why

\* A step that another program at work on the run does not notice.
Harmless(r) ==
    /\ s3'[r].status = s3[r].status
    /\ s3'[r].why = s3[r].why
    /\ s3'[r].stage = s3[r].stage

\* What a run has decided for the items of its own decisions stays so.
Owning(run) ==
    \A d \in I!Ids : s1[d].run = run =>
        /\ s3'[run].stage[s1[d].item] = s3[run].stage[s1[d].item]
        /\ s3'[run].adopted[s1[d].item] = s3[run].adopted[s1[d].item]

\* A run that is closed is told what it adopted, then or before.
Seals(run) ==
    s3'[run].status = "completed" =>
        \/ s3'[run].sealed = s3[run].adopted
        \/ s3[run].status = "completed" /\ s3'[run].sealed = s3[run].sealed

\* A refinement about to be adopted refines what a closed run was closed with.
Refining(p) ==
    p = "pipeline" /\ s6[p].pc = "adopt" =>
        /\ s6[p].seen \in I!Ids
        /\ s3'[s6[p].run].status = "completed" /\ s2'[s6[p].item] = s6[p].seen =>
               s3'[s6[p].run].sealed[s6[p].item] = s6[p].seen

\* A program that works for no run, or for one of another program.
Loose(p) == s6[p].pc \in {"idle", "refine", "refined"} \/ (p = "pipeline" /\ s6[p].pc = "adopt")

\* The places of the review at which it has an item.
Reviews == {"gate", "thinking", "keep", "adopt"}

\* The first part of the name of a run a program works on.
Kind(p) == IF p = "web" THEN "manual" ELSE p

\* An idle program is well typed where there is an item at all.
LEMMA IdleTyped ==
  ASSUME Entries # {}
  PROVE  I!Idle \in I!ProcRows
  <1>1. (CHOOSE i \in Entries : TRUE) \in Entries
    OBVIOUS
  <1>2. <<"backfill">> \in I!RunIds
    BY DEF I!RunIds
  <1>3. QED
    BY <1>1, <1>2 DEF I!Idle, I!ProcRows

\* And every row of a program names an item.
LEMMA RestTyped ==
  ASSUME I!Typed
  PROVE  I!Idle \in I!ProcRows
  <1>1. s6["web"].item \in Entries
    BY DEF I!Typed, I!Programs, I!ProcRows
  <1>2. QED
    BY <1>1, IdleTyped

-----------------------------------------------------------------------------
(* Decisions and their chain.                                              *)
\* A new decision leaves the others where they are.
LEMMA Appended ==
  ASSUME I!Typed, NEW x \in I!DecisionRows, s1' = Append(s1, x)
  PROVE  /\ s1' \in Seq(I!DecisionRows)
         /\ Len(s1) \in Nat
         /\ I!Ids' = I!Ids \cup {Len(s1) + 1}
         /\ Len(s1) + 1 \notin I!Ids
         /\ \A d \in I!Ids : d \in Nat \ {0}
                            /\ s1'[d] = s1[d] /\ s1[d] \in I!DecisionRows
         /\ s1'[Len(s1) + 1] = x
  <1>1. s1 \in Seq(I!DecisionRows)
    BY DEF I!Typed
  <1>2. Len(s1) \in Nat /\ Len(s1') = Len(s1) + 1
    BY <1>1
  <1>3. I!Ids' = I!Ids \cup {Len(s1) + 1} /\ Len(s1) + 1 \notin I!Ids
    BY <1>2 DEF I!Ids
  <1>4. \A d \in I!Ids :
            d \in Nat \ {0} /\ s1'[d] = s1[d] /\ s1[d] \in I!DecisionRows
    BY <1>1, <1>2 DEF I!Ids
  <1>5. s1' \in Seq(I!DecisionRows) /\ s1'[Len(s1) + 1] = x
    BY <1>1, <1>2
  <1>6. QED
    BY <1>2, <1>3, <1>4, <1>5

\* A decision has a number and a type.
LEMMA InIds ==
  ASSUME I!Typed, NEW d \in I!Ids
  PROVE  d \in Nat \ {0} /\ s1[d] \in I!DecisionRows
  BY DEF I!Typed, I!Ids

\* The next decision of an item continues its chain.
LEMMA ChainKept ==
  ASSUME I!Typed, I!Chained, NEW i \in Entries, NEW x \in I!DecisionRows, I!Swap(i, x),
         x.item = i, x.base = s2[i],
         s2[i] # 0 /\ s1[s2[i]].locked => x.locked \/ x.status = "excluded"
  PROVE  I!Chained'
  <1> DEFINE n == Len(s1) + 1
  <1>1. /\ s1' = Append(s1, x)
        /\ s2' = [s2 EXCEPT ![i] = n]
    BY DEF I!Swap
  <1>2. /\ Len(s1) \in Nat /\ I!Ids' = I!Ids \cup {n} /\ n \notin I!Ids /\ n \in Nat \ {0}
        /\ \A d \in I!Ids : d \in Nat \ {0} /\ s1'[d] = s1[d]
                          /\ s1[d] \in I!DecisionRows
        /\ s1'[n] = x /\ I!Ids = 1..Len(s1)
    BY <1>1, Appended DEF I!Ids
  <1>3. /\ s2 \in [Entries -> Nat] /\ s2'[i] = n
        /\ \A j \in Entries : j # i => s2'[j] = s2[j]
    BY <1>1 DEF I!Typed
  <1>4. \A d \in I!Ids : s1[d].base \in Nat /\ s1[d].item \in Entries
    BY <1>2 DEF I!DecisionRows
  <1> HIDE DEF n
  <1>5. /\ \A j \in Entries :
               s2[j] # 0 => s2[j] \in I!Ids /\ s1[s2[j]].item = j
        /\ \A d \in I!Ids : s1[d].base < d
                          /\ s2[s1[d].item] # 0
                          /\ s2[s1[d].item] # s1[d].base
    BY DEF I!Chained
  <1>6. \A j \in Entries :
            s2'[j] # 0 => s2'[j] \in I!Ids' /\ s1'[s2'[j]].item = j
    BY <1>2, <1>3, <1>5
  <1>7. \A d \in I!Ids' : s1'[d].base < d
    <2>1. x.base < n
      BY <1>2, <1>3, <1>5, n = Len(s1) + 1 DEF n
    <2>2. QED
      BY <2>1, <1>2, <1>5
  <1>8. \A d \in I!Ids' : s2'[s1'[d].item] \notin {0, s1'[d].base}
    <2>1. \A d \in I!Ids : n # s1[d].base
      BY <1>2, <1>4, <1>5 DEF n
    <2>2. n # x.base
      BY <1>2, <1>3, <1>5
    <2>3. QED
      BY <2>1, <2>2, <1>2, <1>3, <1>4, <1>5
  <1>9. I!LocksHold'
    <2>1. \A d \in I!Ids : s1[d].base # 0 => s1[d].base \in I!Ids
      BY <1>2, <1>4, <1>5
    <2>2. \A d \in I!Ids : s1[d].base # 0 /\ s1[s1[d].base].locked =>
                            s1[d].locked \/ s1[d].status = "excluded"
      BY DEF I!Chained, I!LocksHold
    <2>3. \A d \in I!Ids' : s1'[d].base # 0 /\ s1'[s1'[d].base].locked =>
                            s1'[d].locked \/ s1'[d].status = "excluded"
      BY <2>1, <2>2, <1>2, <1>5
    <2>4. QED
      BY <2>3 DEF I!LocksHold
  <1>10. I!OneChain'
    <2>1. \A a, b \in I!Ids : s1[a].item = s1[b].item
                            /\ s1[a].base = s1[b].base => a = b
      BY DEF I!Chained, I!OneChain
    <2>2. \A j \in Entries : \A d \in I!Ids :
             s1[d].item = j /\ d # s2[j] => \E e \in I!Ids : s1[e].base = d
      BY DEF I!Chained, I!OneChain
    <2>3. \A a \in I!Ids : ~(s1[a].item = i /\ s1[a].base = s2[i])
      BY <1>5
    <2>4. \A a, b \in I!Ids' : s1'[a].item = s1'[b].item
                             /\ s1'[a].base = s1'[b].base => a = b
      BY <2>1, <2>3, <1>2
    <2>5. ASSUME NEW j \in Entries, NEW d \in I!Ids', s1'[d].item = j, d # s2'[j]
          PROVE  \E e \in I!Ids' : s1'[e].base = d
      <3>1. d \in I!Ids /\ s1[d].item = j
        BY <2>5, <1>2, <1>3
      <3>2. CASE d = s2[j]
        <4>1. j = i
          BY <3>2, <2>5, <1>3
        <4>2. QED
          BY <4>1, <3>2, <1>2
      <3>3. CASE d # s2[j]
        BY <3>1, <3>3, <2>2, <1>2
      <3>4. QED
        BY <3>2, <3>3
    <2>6. QED
      BY <2>4, <2>5 DEF I!OneChain
  <1>11. QED
    BY <1>6, <1>7, <1>8, <1>9, <1>10 DEF I!Chained

-----------------------------------------------------------------------------
(* What a step does to the run it works on.                                *)
\* A run of which only status, stages and adopted decisions change.
LEMMA RunChanged ==
  ASSUME I!Typed, NEW run \in I!RunIds, NEW s \in I!RunStatuses,
         NEW f \in [Entries -> I!StageNames],
         NEW g \in [Entries -> Nat], NEW h \in [Entries -> Nat],
         s3'[run] = [status |-> s, why |-> s3[run].why, stage |-> f, adopted |-> g,
                       sealed |-> h],
         DOMAIN s3' = I!RunIds, s3' = [r \in I!RunIds |-> s3'[r]],
         \A r \in I!RunIds : r # run => s3'[r] = s3[r]
  PROVE  /\ s3' \in [I!RunIds -> I!RunRows]
         /\ s3'[run].status = s /\ s3'[run].why = s3[run].why /\ s3'[run].stage = f
         /\ s3'[run].adopted = g /\ s3'[run].sealed = h
  <1>1. s3 \in [I!RunIds -> I!RunRows] /\ s3[run].why \in [Entries -> I!Whys]
    BY DEF I!Typed, I!RunRows
  <1>2. s3'[run] \in I!RunRows
    BY <1>1 DEF I!RunRows
  <1>3. QED
    BY <1>1, <1>2

\* Settle: what an item adopts and that it is decided.
LEMMA Settled ==
  ASSUME I!Typed, NEW run \in I!RunIds, NEW i \in Entries, NEW d \in Nat,
         I!Settle(run, i, d)
  PROVE  /\ s3' \in [I!RunIds -> I!RunRows]
         /\ \A r \in I!RunIds : r # run => s3'[r] = s3[r]
         /\ s3'[run].status = s3[run].status /\ s3'[run].why = s3[run].why
         /\ s3'[run].stage = [s3[run].stage EXCEPT ![i] = "decided"]
         /\ s3'[run].adopted = [s3[run].adopted EXCEPT ![i] = d]
         /\ s3'[run].sealed = s3[run].sealed
  <1> DEFINE s == s3[run].status
             f == [s3[run].stage EXCEPT ![i] = "decided"]
             g == [s3[run].adopted EXCEPT ![i] = d]
             h == s3[run].sealed
  <1>1. s3 \in [I!RunIds -> I!RunRows] /\ s3[run] \in I!RunRows
    BY DEF I!Typed
  <1>2. /\ s \in I!RunStatuses /\ f \in [Entries -> I!StageNames] /\ g \in [Entries -> Nat]
        /\ h \in [Entries -> Nat]
    BY <1>1 DEF I!RunRows, I!RunStatuses, I!StageNames
  <1>3. s3'[run] = [s3[run] EXCEPT !.stage[i] = "decided", !.adopted[i] = d]
    BY <1>1 DEF I!Settle
  <1>4. s3'[run] = [status |-> s, why |-> s3[run].why, stage |-> f,
                      adopted |-> g, sealed |-> h]
    BY <1>1, <1>3 DEF I!RunRows
  <1>5. DOMAIN s3' = I!RunIds /\ \A r \in I!RunIds : r # run => s3'[r] = s3[r]
    BY <1>1 DEF I!Settle
  <1>6. s3' = [r \in I!RunIds |-> s3'[r]]
    BY <1>5 DEF I!Settle
  <1> HIDE DEF s, f, g, h
  <1>7. /\ s3' \in [I!RunIds -> I!RunRows]
        /\ s3'[run].status = s /\ s3'[run].why = s3[run].why /\ s3'[run].stage = f
        /\ s3'[run].adopted = g /\ s3'[run].sealed = h
    BY <1>2, <1>4, <1>5, <1>6, RunChanged
  <1>8. QED
    BY <1>5, <1>7 DEF s, f, g, h

\* SetStage: the stage of one item.
LEMMA Staged ==
  ASSUME I!Typed, NEW run \in I!RunIds, NEW i \in Entries, NEW stage \in I!StageNames,
         I!SetStage(run, i, stage)
  PROVE  /\ s3' \in [I!RunIds -> I!RunRows]
         /\ \A r \in I!RunIds : r # run => s3'[r] = s3[r]
         /\ s3'[run].status = s3[run].status /\ s3'[run].why = s3[run].why
         /\ s3'[run].stage = [s3[run].stage EXCEPT ![i] = stage]
         /\ s3'[run].adopted = s3[run].adopted
         /\ s3'[run].sealed = s3[run].sealed
  <1> DEFINE s == s3[run].status
             f == [s3[run].stage EXCEPT ![i] = stage]
             g == s3[run].adopted
             h == s3[run].sealed
  <1>1. s3 \in [I!RunIds -> I!RunRows] /\ s3[run] \in I!RunRows
    BY DEF I!Typed
  <1>2. /\ s \in I!RunStatuses /\ f \in [Entries -> I!StageNames] /\ g \in [Entries -> Nat]
        /\ h \in [Entries -> Nat]
    BY <1>1 DEF I!RunRows, I!RunStatuses, I!StageNames
  <1>3. s3'[run] = [s3[run] EXCEPT !.stage[i] = stage]
    BY <1>1 DEF I!SetStage
  <1>4. s3'[run] = [status |-> s, why |-> s3[run].why, stage |-> f,
                      adopted |-> g, sealed |-> h]
    BY <1>1, <1>3 DEF I!RunRows
  <1>5. DOMAIN s3' = I!RunIds /\ \A r \in I!RunIds : r # run => s3'[r] = s3[r]
    BY <1>1 DEF I!SetStage
  <1>6. s3' = [r \in I!RunIds |-> s3'[r]]
    BY <1>5 DEF I!SetStage
  <1> HIDE DEF s, f, g, h
  <1>7. /\ s3' \in [I!RunIds -> I!RunRows]
        /\ s3'[run].status = s /\ s3'[run].why = s3[run].why /\ s3'[run].stage = f
        /\ s3'[run].adopted = g /\ s3'[run].sealed = h
    BY <1>2, <1>4, <1>5, <1>6, RunChanged
  <1>8. QED
    BY <1>5, <1>7 DEF s, f, g, h

\* Claim: the run is running and one item of it is at work.
ClaimIn(run, i, stage) ==
    s3' = [s3 EXCEPT ![run].status = "running", ![run].stage[i] = stage]

\* What a claim changes.
LEMMA Claimed ==
  ASSUME I!Typed, NEW run \in I!RunIds, NEW i \in Entries, NEW stage \in I!StageNames,
         ClaimIn(run, i, stage)
  PROVE  /\ s3' \in [I!RunIds -> I!RunRows]
         /\ \A r \in I!RunIds : r # run => s3'[r] = s3[r]
         /\ s3'[run].status = "running" /\ s3'[run].why = s3[run].why
         /\ s3'[run].stage = [s3[run].stage EXCEPT ![i] = stage]
         /\ s3'[run].adopted = s3[run].adopted
         /\ s3'[run].sealed = s3[run].sealed
  <1> DEFINE s == "running"
             f == [s3[run].stage EXCEPT ![i] = stage]
             g == s3[run].adopted
             h == s3[run].sealed
  <1>1. s3 \in [I!RunIds -> I!RunRows] /\ s3[run] \in I!RunRows
    BY DEF I!Typed
  <1>2. /\ s \in I!RunStatuses /\ f \in [Entries -> I!StageNames] /\ g \in [Entries -> Nat]
        /\ h \in [Entries -> Nat]
    BY <1>1 DEF I!RunRows, I!RunStatuses, I!StageNames
  <1>3. s3'[run] = [s3[run] EXCEPT !.status = "running", !.stage[i] = stage]
    BY <1>1 DEF ClaimIn
  <1>4. s3'[run] = [status |-> s, why |-> s3[run].why, stage |-> f,
                      adopted |-> g, sealed |-> h]
    BY <1>1, <1>3 DEF I!RunRows
  <1>5. DOMAIN s3' = I!RunIds /\ \A r \in I!RunIds : r # run => s3'[r] = s3[r]
    BY <1>1 DEF ClaimIn
  <1>6. s3' = [r \in I!RunIds |-> s3'[r]]
    BY <1>5 DEF ClaimIn
  <1> HIDE DEF s, f, g, h
  <1>7. /\ s3' \in [I!RunIds -> I!RunRows]
        /\ s3'[run].status = s /\ s3'[run].why = s3[run].why /\ s3'[run].stage = f
        /\ s3'[run].adopted = g /\ s3'[run].sealed = h
    BY <1>2, <1>4, <1>5, <1>6, RunChanged
  <1>8. QED
    BY <1>5, <1>7 DEF s, f, g, h

\* The decision that an item of a run adopted is replaced.
Readopt(run, i, d) == s3' = [s3 EXCEPT ![run].adopted[i] = d]

\* What that changes.
LEMMA Readopted ==
  ASSUME I!Typed, NEW run \in I!RunIds, NEW i \in Entries, NEW d \in Nat,
         Readopt(run, i, d)
  PROVE  /\ s3' \in [I!RunIds -> I!RunRows]
         /\ \A r \in I!RunIds : r # run => s3'[r] = s3[r]
         /\ s3'[run].status = s3[run].status /\ s3'[run].why = s3[run].why
         /\ s3'[run].stage = s3[run].stage
         /\ s3'[run].adopted = [s3[run].adopted EXCEPT ![i] = d]
         /\ s3'[run].sealed = s3[run].sealed
  <1> DEFINE s == s3[run].status
             f == s3[run].stage
             g == [s3[run].adopted EXCEPT ![i] = d]
             h == s3[run].sealed
  <1>1. s3 \in [I!RunIds -> I!RunRows] /\ s3[run] \in I!RunRows
    BY DEF I!Typed
  <1>2. /\ s \in I!RunStatuses /\ f \in [Entries -> I!StageNames] /\ g \in [Entries -> Nat]
        /\ h \in [Entries -> Nat]
    BY <1>1 DEF I!RunRows, I!RunStatuses, I!StageNames
  <1>3. s3'[run] = [s3[run] EXCEPT !.adopted[i] = d]
    BY <1>1 DEF Readopt
  <1>4. s3'[run] = [status |-> s, why |-> s3[run].why, stage |-> f,
                      adopted |-> g, sealed |-> h]
    BY <1>1, <1>3 DEF I!RunRows
  <1>5. DOMAIN s3' = I!RunIds /\ \A r \in I!RunIds : r # run => s3'[r] = s3[r]
    BY <1>1 DEF Readopt
  <1>6. s3' = [r \in I!RunIds |-> s3'[r]]
    BY <1>5 DEF Readopt
  <1> HIDE DEF s, f, g, h
  <1>7. /\ s3' \in [I!RunIds -> I!RunRows]
        /\ s3'[run].status = s /\ s3'[run].why = s3[run].why /\ s3'[run].stage = f
        /\ s3'[run].adopted = g /\ s3'[run].sealed = h
    BY <1>2, <1>4, <1>5, <1>6, RunChanged
  <1>8. QED
    BY <1>5, <1>7 DEF s, f, g, h

\* All stages of a run are set at once.
Restage(run, f1) == s3' = [s3 EXCEPT ![run].stage = f1]

\* What that changes.
LEMMA Restaged ==
  ASSUME I!Typed, NEW run \in I!RunIds, NEW f1 \in [Entries -> I!StageNames],
         Restage(run, f1)
  PROVE  /\ s3' \in [I!RunIds -> I!RunRows]
         /\ \A r \in I!RunIds : r # run => s3'[r] = s3[r]
         /\ s3'[run].status = s3[run].status /\ s3'[run].why = s3[run].why
         /\ s3'[run].stage = f1
         /\ s3'[run].adopted = s3[run].adopted
         /\ s3'[run].sealed = s3[run].sealed
  <1> DEFINE s == s3[run].status
             f == f1
             g == s3[run].adopted
             h == s3[run].sealed
  <1>1. s3 \in [I!RunIds -> I!RunRows] /\ s3[run] \in I!RunRows
    BY DEF I!Typed
  <1>2. /\ s \in I!RunStatuses /\ f \in [Entries -> I!StageNames] /\ g \in [Entries -> Nat]
        /\ h \in [Entries -> Nat]
    BY <1>1 DEF I!RunRows, I!RunStatuses, I!StageNames
  <1>3. s3'[run] = [s3[run] EXCEPT !.stage = f1]
    BY <1>1 DEF Restage
  <1>4. s3'[run] = [status |-> s, why |-> s3[run].why, stage |-> f,
                      adopted |-> g, sealed |-> h]
    BY <1>1, <1>3 DEF I!RunRows
  <1>5. DOMAIN s3' = I!RunIds /\ \A r \in I!RunIds : r # run => s3'[r] = s3[r]
    BY <1>1 DEF Restage
  <1>6. s3' = [r \in I!RunIds |-> s3'[r]]
    BY <1>5 DEF Restage
  <1> HIDE DEF s, f, g, h
  <1>7. /\ s3' \in [I!RunIds -> I!RunRows]
        /\ s3'[run].status = s /\ s3'[run].why = s3[run].why /\ s3'[run].stage = f
        /\ s3'[run].adopted = g /\ s3'[run].sealed = h
    BY <1>2, <1>4, <1>5, <1>6, RunChanged
  <1>8. QED
    BY <1>5, <1>7 DEF s, f, g, h

\* The run is closed, or told what it adopted.
Seal(run, status) == s3' = [s3 EXCEPT ![run].status = status, ![run].sealed = s3[run].adopted]

\* What that changes.
LEMMA Sealed ==
  ASSUME I!Typed, NEW run \in I!RunIds, NEW status \in I!RunStatuses,
         Seal(run, status)
  PROVE  /\ s3' \in [I!RunIds -> I!RunRows]
         /\ \A r \in I!RunIds : r # run => s3'[r] = s3[r]
         /\ s3'[run].status = status /\ s3'[run].why = s3[run].why
         /\ s3'[run].stage = s3[run].stage
         /\ s3'[run].adopted = s3[run].adopted
         /\ s3'[run].sealed = s3[run].adopted
  <1> DEFINE s == status
             f == s3[run].stage
             g == s3[run].adopted
             h == s3[run].adopted
  <1>1. s3 \in [I!RunIds -> I!RunRows] /\ s3[run] \in I!RunRows
    BY DEF I!Typed
  <1>2. /\ s \in I!RunStatuses /\ f \in [Entries -> I!StageNames] /\ g \in [Entries -> Nat]
        /\ h \in [Entries -> Nat]
    BY <1>1 DEF I!RunRows, I!RunStatuses, I!StageNames
  <1>3. s3'[run] = [s3[run] EXCEPT !.status = status, !.sealed = s3[run].adopted]
    BY <1>1 DEF Seal
  <1>4. s3'[run] = [status |-> s, why |-> s3[run].why, stage |-> f,
                      adopted |-> g, sealed |-> h]
    BY <1>1, <1>3 DEF I!RunRows
  <1>5. DOMAIN s3' = I!RunIds /\ \A r \in I!RunIds : r # run => s3'[r] = s3[r]
    BY <1>1 DEF Seal
  <1>6. s3' = [r \in I!RunIds |-> s3'[r]]
    BY <1>5 DEF Seal
  <1> HIDE DEF s, f, g, h
  <1>7. /\ s3' \in [I!RunIds -> I!RunRows]
        /\ s3'[run].status = s /\ s3'[run].why = s3[run].why /\ s3'[run].stage = f
        /\ s3'[run].adopted = g /\ s3'[run].sealed = h
    BY <1>2, <1>4, <1>5, <1>6, RunChanged
  <1>8. QED
    BY <1>5, <1>7 DEF s, f, g, h

\* The status of a run alone.
SetStatus(run, status) == s3' = [s3 EXCEPT ![run].status = status]

\* What that changes.
LEMMA Statused ==
  ASSUME I!Typed, NEW run \in I!RunIds, NEW status \in I!RunStatuses,
         SetStatus(run, status)
  PROVE  /\ s3' \in [I!RunIds -> I!RunRows]
         /\ \A r \in I!RunIds : r # run => s3'[r] = s3[r]
         /\ s3'[run].status = status /\ s3'[run].why = s3[run].why
         /\ s3'[run].stage = s3[run].stage
         /\ s3'[run].adopted = s3[run].adopted
         /\ s3'[run].sealed = s3[run].sealed
  <1> DEFINE s == status
             f == s3[run].stage
             g == s3[run].adopted
             h == s3[run].sealed
  <1>1. s3 \in [I!RunIds -> I!RunRows] /\ s3[run] \in I!RunRows
    BY DEF I!Typed
  <1>2. /\ s \in I!RunStatuses /\ f \in [Entries -> I!StageNames] /\ g \in [Entries -> Nat]
        /\ h \in [Entries -> Nat]
    BY <1>1 DEF I!RunRows, I!RunStatuses, I!StageNames
  <1>3. s3'[run] = [s3[run] EXCEPT !.status = status]
    BY <1>1 DEF SetStatus
  <1>4. s3'[run] = [status |-> s, why |-> s3[run].why, stage |-> f,
                      adopted |-> g, sealed |-> h]
    BY <1>1, <1>3 DEF I!RunRows
  <1>5. DOMAIN s3' = I!RunIds /\ \A r \in I!RunIds : r # run => s3'[r] = s3[r]
    BY <1>1 DEF SetStatus
  <1>6. s3' = [r \in I!RunIds |-> s3'[r]]
    BY <1>5 DEF SetStatus
  <1> HIDE DEF s, f, g, h
  <1>7. /\ s3' \in [I!RunIds -> I!RunRows]
        /\ s3'[run].status = s /\ s3'[run].why = s3[run].why /\ s3'[run].stage = f
        /\ s3'[run].adopted = g /\ s3'[run].sealed = h
    BY <1>2, <1>4, <1>5, <1>6, RunChanged
  <1>8. QED
    BY <1>5, <1>7 DEF s, f, g, h

-----------------------------------------------------------------------------
(* What a step keeps.                                                      *)
\* A sound decision stays sound.
LEMMA SoundKept ==
  ASSUME I!Typed, Grows, NEW d \in I!Ids, I!Sound(s1[d])
  PROVE  I!Sound(s1[d])'
  <1>1. s1'[d] = s1[d] /\ s1[d].run \in I!RunIds
    BY InIds DEF Grows, I!DecisionRows
  <1>2. s3[s1[d].run].status # "none"
    BY DEF I!Sound
  <1>3. /\ s3'[s1[d].run].status # "none"
        /\ s3'[s1[d].run].why = s3[s1[d].run].why
    BY <1>1, <1>2 DEF Grows
  <1>4. QED
    BY <1>1, <1>3 DEF I!Sound, I!Matches

\* A closed run stays so as long as nothing is changed in it.
LEMMA ClosedKept ==
  ASSUME I!Typed, Grows, NEW run \in I!RunIds, I!RunIsSound(run), I!Closed(run),
         s3'[run].why = s3[run].why,
         \A i \in I!Frozen(run) : /\ s3'[run].stage[i] = s3[run].stage[i]
                                 /\ s3'[run].adopted[i] = s3[run].adopted[i]
                                 /\ s3'[run].sealed[i] = s3[run].sealed[i]
  PROVE  I!Closed(run)'
  <1>1. \A i \in I!Frozen(run) :
           i \in Entries /\ s3[run].adopted[i] \in I!Ids
               /\ s1'[s3[run].adopted[i]] = s1[s3[run].adopted[i]]
    BY DEF I!RunIsSound, I!Closed, Grows, I!Frozen
  <1>2. I!Frozen(run)' = I!Frozen(run)
    BY DEF I!Frozen
  <1>3. QED
    BY <1>1, <1>2 DEF I!Closed, I!Refined

\* A run that a step leaves alone stays sound.
LEMMA RunKept ==
  ASSUME I!Typed, Grows, NEW run \in I!RunIds, I!RunIsSound(run), s3'[run] = s3[run]
  PROVE  I!RunIsSound(run)'
  <1>1. \A i \in Entries : s3[run].adopted[i] # 0 =>
           s3[run].adopted[i] \in I!Ids' /\ s1'[s3[run].adopted[i]] =
               s1[s3[run].adopted[i]]
    BY DEF I!RunIsSound, Grows
  <1>2. \A i \in Entries : s2[i] # 0 => s2'[i] # 0
    BY DEF Grows
  <1>3. I!Closed(run) => I!Closed(run)'
    BY ClosedKept
  <1>4. QED
    BY <1>1, <1>2, <1>3 DEF I!RunIsSound, I!Matches

\* What a program knows stays true while another one steps.
LEMMA KnowsKept ==
  ASSUME I!Typed, Grows, NEW p \in I!Programs, I!Knows(p), s6'[p] = s6[p],
         Loose(p) \/ Harmless(s6[p].run), Refining(p),
         p = "semantic" /\ s6[p].pc = "thinking" =>
             s2'[s6[p].item] # 0 /\ ~s1'[s2'[s6[p].item]].locked
  PROVE  I!Knows(p)'
  <1> DEFINE q == s6[p]
  <1>1. q \in I!ProcRows /\ q.run \in I!RunIds /\ q.item \in Entries
    BY DEF I!Typed, I!ProcRows
  <1>2. ~Loose(p) =>
           /\ \A stage : I!InStage(q.run, stage)' = I!InStage(q.run, stage)
           /\ I!Frozen(q.run)' = I!Frozen(q.run)
    BY DEF Harmless, I!InStage, I!Frozen
  <1>3. \A d \in I!Ids : d \in I!Ids' /\ s1'[d] = s1[d]
    BY DEF Grows
  <1>4. p = "semantic" /\ q.pc = "thinking" => ~I!CurrentOf(q.item)'.locked
    BY DEF I!CurrentOf
  <1>5. ~Loose(p) =>
           /\ s3'[q.run].status = s3[q.run].status /\ s3'[q.run].why = s3[q.run].why
           /\ s3'[q.run].stage = s3[q.run].stage
    BY DEF Harmless
  <1> HIDE DEF q
  <1>6. CASE p = "pipeline"
    BY <1>1, <1>2, <1>3, <1>5, <1>6 DEF I!Knows, I!Attempts, I!Matches, I!Saw, Loose, Refining, q
  <1>7. CASE p = "backfill"
    BY <1>1, <1>2, <1>3, <1>5, <1>7 DEF I!Knows, I!Attempts, I!Matches, I!Saw, Loose, q
  <1>8. CASE p = "semantic"
    BY <1>1, <1>2, <1>3, <1>4, <1>5, <1>8 DEF I!Knows, I!Saw, Loose, q
  <1>9. CASE p = "web"
    BY <1>1, <1>5, <1>9 DEF I!Knows, Loose, q
  <1>10. QED
    BY <1>6, <1>7, <1>8, <1>9 DEF I!Programs

\* A run stays sound when what it adopts anew is a decision of that item that
\* fits, and when it is completed only with everything decided.
LEMMA RunSound ==
  ASSUME I!Typed, Grows, NEW run \in I!RunIds, I!RunIsSound(run),
         s3'[run].why = s3[run].why,
         \A i \in Entries :
             \/ s3'[run].adopted[i] = s3[run].adopted[i]
             \/ /\ s3'[run].adopted[i] \in I!Ids' \ {0}
                /\ s1'[s3'[run].adopted[i]].item = i
                /\ run = <<"backfill">> =>
                       I!Matches(s1'[s3'[run].adopted[i]], s3[run].why[i]),
         \A i \in Entries :
             \/ s3'[run].stage[i] = s3[run].stage[i]
             \/ s3'[run].stage[i] = "decided" /\ s3'[run].adopted[i] # 0
             \/ s3'[run].stage[i] \in {"queued", "failed"}
             \/ run # <<"semantic">> /\ s3'[run].stage[i] = "metadata"
             \/ run = <<"semantic">> /\ s3'[run].stage[i] = "content",
         s3'[run].status = "none" => s3[run].status = "none",
         s3'[run].status = "completed" => I!Closed(run)'
  PROVE  I!RunIsSound(run)'
  <1>1. \A i \in Entries : s3[run].adopted[i] # 0 =>
           /\ s3[run].adopted[i] \in I!Ids'
           /\ s1'[s3[run].adopted[i]] = s1[s3[run].adopted[i]]
    BY DEF I!RunIsSound, Grows
  <1>2. \A i \in Entries : s2[i] # 0 => s2'[i] # 0
    BY DEF Grows
  <1>3. I!Frozen(run)' = I!Frozen(run)
    BY DEF I!Frozen
  <1>4. \A i \in Entries :
           s3'[run].adopted[i] # 0 =>
               /\ s3'[run].adopted[i] \in I!Ids' /\ s1'[s3'[run].adopted[i]].item = i
               /\ run = <<"backfill">> =>
                      I!Matches(s1'[s3'[run].adopted[i]], s3'[run].why[i])
    BY <1>1 DEF I!RunIsSound, I!Matches
  <1>5. \A i \in Entries :
           /\ s3'[run].stage[i] = "decided" => s3'[run].adopted[i] # 0
           /\ IF run = <<"semantic">>
              THEN /\ s3'[run].why[i] \in {"none", "semantic_review"}
                   /\ s3'[run].why[i] # "none" =>
                          s2'[i] # 0
                              /\ s3'[run].stage[i] \in
                                      {"queued", "content", "decided", "failed"}
              ELSE s3'[run].why[i] # "semantic_review"
    BY <1>2 DEF I!RunIsSound
  <1>6. s3'[run].status = "none" => s3'[run].why = I!Absent.why
    BY DEF I!RunIsSound
  <1>7. QED
    BY <1>3, <1>4, <1>5, <1>6 DEF I!RunIsSound, I!Matches

\* A program at work on a run works on one of its own.
LEMMA OwnRun ==
  ASSUME I!Typed, NEW p \in I!Programs, I!Knows(p), ~Loose(p)
  PROVE  s6[p].run[1] = Kind(p)
  BY DEF I!Knows, I!Programs, Kind, Loose

\* What a model thinks about has a current decision.
LEMMA Thinking ==
  ASSUME I!ClassificationInv, s6["semantic"].pc \in Reviews
  PROVE  /\ s6["semantic"].item \in Entries /\ s6["semantic"].run = <<"semantic">>
         /\ s6["semantic"].item \in I!Frozen(<<"semantic">>)
         /\ s2[s6["semantic"].item] \in I!Ids
         /\ s1[s2[s6["semantic"].item]].item = s6["semantic"].item
  <1> DEFINE i == s6["semantic"].item
             run == <<"semantic">>
  <1>1. "semantic" \in I!Programs /\ run \in I!RunIds
    BY DEF I!Programs, I!RunIds
  <1>2. I!Knows("semantic") /\ I!RunIsSound(run) /\ I!Chained /\ I!Typed
    BY <1>1 DEF I!ClassificationInv
  <1>3. i \in Entries
    BY <1>1, <1>2 DEF I!Typed, I!ProcRows
  <1>4. s6["semantic"].run = run /\ I!InStage(run, "content") = {i}
    BY <1>2 DEF I!Knows, Reviews
  <1>5. i \in I!Frozen(run)
    BY <1>4 DEF I!InStage
  <1>6. s2[i] # 0
    BY <1>2, <1>3, <1>5 DEF I!Frozen, I!RunIsSound
  <1>7. QED
    BY <1>2, <1>3, <1>4, <1>5, <1>6 DEF I!Chained

-----------------------------------------------------------------------------
(* What all steps share: the program that steps and the run it changes.    *)
\* The program is at its new place and the run is changed soundly.
Steps(p, run) ==
    /\ s3' \in [I!RunIds -> I!RunRows]
    /\ \A r \in I!RunIds : r # run => s3'[r] = s3[r]
    /\ s3[run].status # "none" =>
           s3'[run].status # "none" /\ s3'[run].why = s3[run].why
    /\ run[1] = Kind(p) \/ Harmless(run)
    /\ Seals(run)
    /\ s6' \in [I!Programs -> I!ProcRows]
    /\ \A q \in I!Programs : q # p => s6'[q] = s6[q]
    /\ I!RunIsSound(run)' /\ I!Knows(p)'

\* The part of the type that is about the archive.
ArchiveTyped ==
    /\ s4 \in [Entries -> BOOLEAN]
    /\ s5 \in [Entries -> Nat]
    /\ s7 \in [changes : 0..MaxChanges, faults : Nat]
    /\ \A i \in Entries : s5[i] <= s7.changes + 1

\* Back in the loop over a run, or idle, a program knows nothing.
LEMMA AtRest ==
  ASSUME I!Typed, NEW p \in I!Programs
  PROVE  /\ I!Idle.pc = "idle" /\ I!Idle.run = <<"backfill">>
         /\ s6[p] \in I!ProcRows /\ s6[p].run \in I!RunIds /\ s6[p].item \in Entries
  BY DEF I!Typed, I!Idle, I!ProcRows

\* A run is closed with the refinement's decision, if that is still current.
LEMMA RefiningKept ==
  ASSUME I!ClassificationInv, Grows, NEW p \in I!Programs, NEW run \in I!RunIds, Steps(p, run),
         NEW q \in I!Programs
  PROVE  Refining(q)
  <1> SUFFICES ASSUME q = "pipeline", s6[q].pc = "adopt"
               PROVE  /\ s6[q].seen \in I!Ids
                      /\ s3'[s6[q].run].status = "completed" /\ s2'[s6[q].item] = s6[q].seen =>
                             s3'[s6[q].run].sealed[s6[q].item] = s6[q].seen
    BY DEF Refining
  <1>1. I!Typed /\ I!Knows(q) /\ I!Owned
    BY DEF I!ClassificationInv
  <1> PICK r \in I!RunIds, i \in Entries : r = s6[q].run /\ i = s6[q].item
    BY <1>1, AtRest
  <1> PICK d \in I!Ids : d = s6[q].seen
    BY <1>1 DEF I!Knows, I!Saw
  <1>2. /\ s1[d].item = i /\ s1[d].run = r
        /\ s3[r].status = "completed" /\ s2[i] = d => s3[r].sealed[i] = d
    BY <1>1 DEF I!Knows, I!Saw
  <1>3. s2[i] = d => s3[r].adopted[i] = d
    BY <1>1, <1>2 DEF I!Owned
  <1>4. s2'[i] = d => s2[i] = d
    BY DEF Grows
  <1>5. s3'[r].status = "completed" /\ s2'[i] = d => s3'[r].sealed[i] = d
    BY <1>2, <1>3, <1>4 DEF Steps, Seals
  <1>6. QED
    BY <1>5

\* What a run owns is untouched by what it does about other items.
LEMMA OwnsKept ==
  ASSUME I!ClassificationInv, NEW run \in I!RunIds,
         \A i \in Entries :
             \/ /\ s3'[run].stage[i] = s3[run].stage[i]
                /\ s3'[run].adopted[i] = s3[run].adopted[i]
             \/ s3[run].status = "none"
             \/ s3[run].stage[i] # "decided"
             \/ s1[s3[run].adopted[i]].run # run
  PROVE  Owning(run)
  <1> SUFFICES ASSUME NEW d \in I!Ids, s1[d].run = run
               PROVE  /\ s3'[run].stage[s1[d].item] = s3[run].stage[s1[d].item]
                      /\ s3'[run].adopted[s1[d].item] = s3[run].adopted[s1[d].item]
    BY DEF Owning
  <1>1. /\ s1[d].item \in Entries
        /\ s3[run].status # "none"
        /\ s3[run].stage[s1[d].item] = "decided"
        /\ s1[s3[run].adopted[s1[d].item]].run = run
    BY InIds DEF I!ClassificationInv, I!Sound, I!Owned, I!DecisionRows
  <1>2. QED
    BY <1>1

\* So every program still knows what it knew.
LEMMA ProgramsKnow ==
  ASSUME I!ClassificationInv, Grows, NEW p \in I!Programs, NEW run \in I!RunIds, Steps(p, run),
         NEW q \in I!Programs, q # p,
         q = "semantic" /\ s6[q].pc = "thinking" =>
             s2'[s6[q].item] # 0 /\ ~s1'[s2'[s6[q].item]].locked
  PROVE  I!Knows(q)'
  <1>1. I!Typed /\ I!Knows(q) /\ s6[q].run \in I!RunIds
    BY DEF I!ClassificationInv, I!Typed, I!ProcRows
  <1>2. ~Loose(q) => s6[q].run[1] = Kind(q)
    BY <1>1, OwnRun
  <1>3. Kind(q) # Kind(p)
    BY DEF Kind, I!Programs, Steps
  <1>4. Loose(q) \/ Harmless(s6[q].run)
    BY <1>1, <1>2, <1>3 DEF Steps, Harmless
  <1>5. s6'[q] = s6[q]
    BY DEF Steps
  <1>6. Refining(q)
    BY RefiningKept
  <1>7. QED
    BY <1>1, <1>4, <1>5, <1>6, KnowsKept

\* And every run is sound again.
LEMMA RunsSound ==
  ASSUME I!ClassificationInv, Grows, NEW p \in I!Programs, NEW run \in I!RunIds, Steps(p, run)
  PROVE  \A r \in I!RunIds : I!RunIsSound(r)'
  <1>1. I!Typed /\ \A r \in I!RunIds : I!RunIsSound(r)
    BY DEF I!ClassificationInv
  <1>2. QED
    BY <1>1, RunKept DEF Steps

\* A step without a new decision.
LEMMA QuietStep ==
  ASSUME I!ClassificationInv, UNCHANGED <<s1, s2>>,
         NEW p \in I!Programs, NEW run \in I!RunIds, Steps(p, run), Owning(run), ArchiveTyped'
  PROVE  I!ClassificationInv'
  <1>1. I!Typed /\ I!Chained /\ I!Owned /\ (\A d \in I!Ids : I!Sound(s1[d]))
    BY DEF I!ClassificationInv
  <1>2. I!Ids' = I!Ids
    BY DEF I!Ids
  <1>3. Grows
    BY <1>2 DEF Grows, Steps
  <1>4. I!Typed'
    BY <1>1 DEF I!Typed, ArchiveTyped, Steps
  <1>5. I!Chained'
    BY <1>1, <1>2 DEF I!Chained, I!LocksHold, I!OneChain
  <1>6. \A d \in I!Ids' : I!Sound(s1[d])'
    BY <1>1, <1>2, <1>3, SoundKept
  <1>7. ASSUME NEW q \in I!Programs, q # p PROVE I!Knows(q)'
    <2>1. q = "semantic" /\ s6[q].pc = "thinking" =>
             s2[s6[q].item] # 0 /\ ~s1[s2[s6[q].item]].locked
      <3>1. I!Knows(q)
        BY DEF I!ClassificationInv
      <3>2. 0 \notin I!Ids
        BY DEF I!Ids
      <3>3. QED
        BY <3>1, <3>2, Thinking DEF I!Knows, I!CurrentOf, Reviews
    <2>2. QED
      BY <1>3, <1>7, <2>1, ProgramsKnow
  <1>8. \A q \in I!Programs : I!Knows(q)'
    BY <1>7 DEF Steps
  <1>9. \A r \in I!RunIds : I!RunIsSound(r)'
    BY <1>3, RunsSound
  <1>10. I!Owned'
    <2> SUFFICES ASSUME NEW d \in I!Ids
                 PROVE  LET i == s1[d].item
                            r == s3'[s1[d].run]
                        IN  /\ r.stage[i] = "decided" /\ s1[r.adopted[i]].run = s1[d].run
                            /\ s2[i] = d => r.adopted[i] = d
      BY <1>2 DEF I!Owned
    <2>1. s1[d].run \in I!RunIds
      BY <1>1, InIds DEF I!DecisionRows
    <2>2. CASE s1[d].run = run
      BY <1>1, <2>2 DEF I!Owned, Owning
    <2>3. CASE s1[d].run # run
      BY <1>1, <2>1, <2>3 DEF I!Owned, Steps
    <2>4. QED
      BY <2>2, <2>3
  <1>11. QED
    BY <1>4, <1>5, <1>6, <1>8, <1>9, <1>10 DEF I!ClassificationInv

\* A step that makes a decision.
LEMMA MadeStep ==
  ASSUME I!ClassificationInv, NEW i \in Entries, NEW x \in I!DecisionRows, I!Swap(i, x),
         x.item = i, x.base = s2[i],
         s2[i] # 0 /\ s1[s2[i]].locked => x.locked \/ x.status = "excluded",
         NEW p \in I!Programs, NEW run \in I!RunIds, Steps(p, run), ArchiveTyped', x.run = run,
         s3'[run].stage[i] = "decided", s3'[run].adopted[i] = Len(s1) + 1,
         \A j \in Entries : j # i => /\ s3'[run].stage[j] = s3[run].stage[j]
                                   /\ s3'[run].adopted[j] = s3[run].adopted[j],
         p # "semantic" /\ s6["semantic"].pc = "thinking" => ~x.locked,
         s3'[x.run].status # "none",
         x.run = <<"backfill">> => I!Matches(x, s3'[x.run].why[i]),
         x.locked => x.status = "classified",
         x.input[1] = "metadata" => I!Matches(x, x.input[2])
  PROVE  I!ClassificationInv'
  <1>1. I!Typed /\ I!Chained /\ I!Owned /\ (\A d \in I!Ids : I!Sound(s1[d]))
    BY DEF I!ClassificationInv
  <1>2. s1' = Append(s1, x)
        /\ s2' = [s2 EXCEPT ![i] = Len(s1) + 1]
    BY DEF I!Swap
  <1>3. /\ s1' \in Seq(I!DecisionRows) /\ Len(s1) \in Nat
        /\ I!Ids' = I!Ids \cup {Len(s1) + 1} /\ Len(s1) + 1 \notin I!Ids
        /\ \A d \in I!Ids : d \in Nat \ {0} /\ s1'[d] = s1[d]
        /\ s1'[Len(s1) + 1] = x
    BY <1>1, <1>2, Appended
  <1>4. /\ s2' \in [Entries -> Nat] /\ s2'[i] = Len(s1) + 1
        /\ \A j \in Entries : j # i => s2'[j] = s2[j]
    BY <1>1, <1>2, <1>3 DEF I!Typed
  <1>5. Grows
    <2>1. \A d \in I!Ids : d \in I!Ids' /\ s1'[d] = s1[d]
      BY <1>3
    <2>2. ASSUME NEW j \in Entries
          PROVE  /\ s2[j] # 0 => s2'[j] # 0
                 /\ s2'[j] \in I!Ids => s2'[j] = s2[j]
      <3>1. CASE j = i
        BY <1>3, <1>4, <3>1
      <3>2. CASE j # i
        BY <1>4, <3>2
      <3>3. QED
        BY <3>1, <3>2
    <2>3. ASSUME NEW r \in I!RunIds, s3[r].status # "none"
          PROVE  s3'[r].status # "none" /\ s3'[r].why = s3[r].why
      BY <2>3 DEF Steps
    <2>4. QED
      BY <2>1, <2>2, <2>3 DEF Grows
  <1>6. I!Typed'
    BY <1>3, <1>4 DEF I!Typed, ArchiveTyped, Steps
  <1>7. I!Chained'
    BY <1>1, ChainKept
  <1>8. ASSUME NEW d \in I!Ids' PROVE I!Sound(s1[d])'
    <2>1. CASE d \in I!Ids
      BY <1>1, <1>5, <2>1, SoundKept
    <2>2. CASE s1'[d] = x
      BY <2>2 DEF I!Sound, I!Matches
    <2>3. QED
      BY <1>3, <2>1, <2>2
  <1>9. ASSUME NEW q \in I!Programs, q # p PROVE I!Knows(q)'
    <2>1. q = "semantic" /\ s6[q].pc = "thinking" =>
             s2'[s6[q].item] # 0 /\ ~s1'[s2'[s6[q].item]].locked
      <3> SUFFICES ASSUME q = "semantic", s6[q].pc = "thinking"
                   PROVE  s2'[s6[q].item] # 0
                          /\ ~s1'[s2'[s6[q].item]].locked
        OBVIOUS
      <3>1. I!Knows(q)
        BY DEF I!ClassificationInv
      <3>2. /\ s6[q].item \in Entries /\ s2[s6[q].item] \in I!Ids
            /\ ~s1[s2[s6[q].item]].locked
        BY <3>1, Thinking DEF I!Knows, I!CurrentOf, Reviews
      <3>3. ~x.locked
        BY <1>9
      <3>4. QED
        BY <3>2, <3>3, <1>3, <1>4
    <2>2. QED
      BY <1>5, <1>9, <2>1, ProgramsKnow
  <1>10. \A q \in I!Programs : I!Knows(q)'
    BY <1>9 DEF Steps
  <1>11. \A r \in I!RunIds : I!RunIsSound(r)'
    BY <1>5, RunsSound
  <1>12. I!Owned'
    <2> SUFFICES ASSUME NEW d \in I!Ids'
                 PROVE  LET j == s1'[d].item
                            r == s3'[s1'[d].run]
                        IN  /\ r.stage[j] = "decided" /\ s1'[r.adopted[j]].run = s1'[d].run
                            /\ s2'[j] = d => r.adopted[j] = d
      BY DEF I!Owned
    <2>1. CASE d = Len(s1) + 1
      BY <1>3, <1>4, <2>1
    <2>2. CASE d \in I!Ids
      <3> PICK r \in I!RunIds, j \in Entries : r = s1[d].run /\ j = s1[d].item
        BY <1>1, <2>2, InIds DEF I!DecisionRows
      <3>1. /\ s3[r].stage[j] = "decided" /\ s1[s3[r].adopted[j]].run = r
            /\ s2[j] = d => s3[r].adopted[j] = d
        BY <1>1, <2>2 DEF I!Owned
      <3>2. s1'[d].item = j /\ s1'[d].run = r /\ d # Len(s1) + 1
        BY <1>3, <2>2
      <3>3. I!RunIsSound(r)
        BY DEF I!ClassificationInv
      <3>4. s3[r].adopted[j] \in I!Ids
        BY <3>1, <3>3 DEF I!RunIsSound
      <3>5. s1'[s3[r].adopted[j]].run = r
        BY <1>3, <3>1, <3>4
      <3>6. CASE r # run
        <4>1. s3'[r] = s3[r]
          BY <3>6 DEF Steps
        <4>2. s2'[j] = d => s2[j] = d
          BY <1>4, <3>2
        <4>3. QED
          BY <3>1, <3>2, <3>5, <4>1, <4>2
      <3>7. CASE r = run /\ j # i
        <4>1. s3'[r].stage[j] = s3[r].stage[j] /\ s3'[r].adopted[j] = s3[r].adopted[j]
          BY <3>7
        <4>2. s2'[j] = s2[j]
          BY <1>4, <3>7
        <4>3. QED
          BY <3>1, <3>2, <3>5, <4>1, <4>2
      <3>8. CASE r = run /\ j = i
        BY <1>3, <1>4, <3>2, <3>8
      <3>9. QED
        BY <3>6, <3>7, <3>8
    <2>3. QED
      BY <1>3, <2>1, <2>2
  <1>13. QED
    BY <1>6, <1>7, <1>8, <1>10, <1>11, <1>12 DEF I!ClassificationInv

\* Where the step of a program leads.
LEMMA Gone ==
  ASSUME I!Typed, NEW p \in I!Programs, NEW q \in I!ProcRows, I!Go(p, q)
  PROVE  /\ s6' \in [I!Programs -> I!ProcRows] /\ s6'[p] = q
         /\ \A r \in I!Programs : r # p => s6'[r] = s6[r]
  BY DEF I!Typed, I!Go

\* Move: only the place in the program changes.
LEMMA MovedTo ==
  ASSUME I!Typed, NEW p \in I!Programs, NEW place,
         [s6[p] EXCEPT !.pc = place] \in I!ProcRows, I!Move(p, place)
  PROVE  I!Go(p, [s6[p] EXCEPT !.pc = place])
  BY DEF I!Typed, I!Go, I!Move

\* An idle program knows nothing.
LEMMA IdleKnows ==
  ASSUME NEW p \in I!Programs, s6'[p] = I!Idle
  PROVE  I!Knows(p)'
  <1>1. I!Idle.pc = "idle" /\ I!Idle.run = <<"backfill">>
    BY DEF I!Idle
  <1>2. QED
    BY <1>1 DEF I!Knows, I!Programs

\* Loop: the program is back at the head of its loop.
LEMMA LoopTyped ==
  ASSUME I!Typed, NEW p \in I!Programs, NEW place \in {"process", "claim"}, I!Loop(p, place)
  PROVE  /\ s6' \in [I!Programs -> I!ProcRows]
         /\ \A q \in I!Programs : q # p => s6'[q] = s6[q]
         /\ s6'[p].pc = place /\ s6'[p].run = s6[p].run /\ s6'[p].item = s6[p].item
  <1> DEFINE row == [I!Idle EXCEPT !.pc = place, !.run = s6[p].run, !.item = s6[p].item]
  <1>1. I!Idle \in I!ProcRows /\ s6[p].run \in I!RunIds /\ s6[p].item \in Entries
    BY RestTyped, AtRest
  <1>2. row \in I!ProcRows /\ row.pc = place /\ row.run = s6[p].run /\ row.item = s6[p].item
    BY <1>1 DEF I!ProcRows
  <1>3. s6' = [s6 EXCEPT ![p] = row]
    BY DEF I!Loop, I!Go
  <1>4. QED
    BY <1>2, <1>3 DEF I!Typed

\* A fault is counted.
LEMMA Faulted ==
  ASSUME I!Typed, I!Fault, UNCHANGED I!archive
  PROVE  ArchiveTyped'
  <1>1. s7' \in [changes : 0..MaxChanges, faults : Nat] /\ s7'.changes = s7.changes
    <2>1. s7 \in [changes : 0..MaxChanges, faults : Nat]
          /\ s7' = [s7 EXCEPT !.faults = @ + 1]
      BY DEF I!Typed, I!Fault
    <2>2. s7' = [changes |-> s7.changes, faults |-> s7.faults + 1]
      BY <2>1
    <2>3. QED
      BY <2>1, <2>2
  <1>2. QED
    BY <1>1 DEF I!Typed, ArchiveTyped, I!archive

\* The two runs that have no item in their name.
LEMMA OnlyRuns == <<"backfill">> \in I!RunIds /\ <<"semantic">> \in I!RunIds
  BY DEF I!RunIds

\* A step that changes no table.
LEMMA StillStep ==
  ASSUME I!ClassificationInv, UNCHANGED I!tables,
         NEW p \in I!Programs, s6' \in [I!Programs -> I!ProcRows],
         \A q \in I!Programs : q # p => s6'[q] = s6[q], I!Knows(p)', ArchiveTyped'
  PROVE  I!ClassificationInv'
  <1> PICK run \in I!RunIds : run = <<"backfill">>
    BY OnlyRuns
  <1>1. I!Typed /\ I!RunIsSound(run)
    BY DEF I!ClassificationInv
  <1>2. UNCHANGED <<s1, s2, s3>>
    BY DEF I!tables
  <1>3. Grows /\ Harmless(run)
    BY <1>2 DEF Grows, I!Ids, Harmless
  <1>4. I!RunIsSound(run)'
    BY <1>1, <1>2, <1>3, RunKept
  <1>5. Steps(p, run)
    BY <1>1, <1>2, <1>3, <1>4 DEF Steps, I!Typed, Seals
  <1>6. Owning(run)
    BY <1>2, OwnsKept
  <1>7. QED
    BY <1>2, <1>5, <1>6, QuietStep

-----------------------------------------------------------------------------
(* The loop over a run: Claim, Decide, Keep, Adopt, Fail.                  *)
\* Fail: a failed attempt.
LEMMA FailStep ==
  ASSUME I!ClassificationInv, NEW p \in {"pipeline", "backfill"}, I!Fail(p)
  PROVE  I!ClassificationInv'
  <1>0. p \in I!Programs /\ I!Typed
    BY DEF I!ClassificationInv, I!Programs
  <1> PICK run \in I!RunIds, i \in Entries : run = s6[p].run /\ i = s6[p].item
    BY <1>0, AtRest
  <1>1. p \in I!Programs /\ I!Typed /\ I!Knows(p) /\ I!RunIsSound(run)
    BY <1>0 DEF I!ClassificationInv
  <1>2. I!Attempts(s6[p]) /\ run[1] = Kind(p) /\ run # <<"semantic">>
    BY <1>1, OwnRun DEF I!Fail, I!Knows, Kind, Loose
  <1>3. I!SetStage(run, i, "failed") /\ I!Loop(p, "process")
        /\ UNCHANGED <<s1, s2, I!archive>>
        /\ I!Fault
    BY DEF I!Fail
  <1>4. /\ s3' \in [I!RunIds -> I!RunRows]
        /\ \A r \in I!RunIds : r # run => s3'[r] = s3[r]
        /\ s3'[run].status = s3[run].status /\ s3'[run].why = s3[run].why
        /\ s3'[run].stage = [s3[run].stage EXCEPT ![i] = "failed"]
        /\ s3'[run].adopted = s3[run].adopted
    BY <1>1, <1>3, Staged DEF I!StageNames
  <1>5. Grows
    BY <1>3, <1>4 DEF Grows, I!Ids
  <1>6. s3[run].stage \in [Entries -> I!StageNames]
    BY <1>1 DEF I!Typed, I!RunRows
  <1>7. s3[run].status \notin {"none", "completed"}
    BY <1>2 DEF I!Attempts
  <1>8. I!RunIsSound(run)'
    BY <1>1, <1>4, <1>5, <1>6, <1>7, RunSound
  <1>9. /\ s6' \in [I!Programs -> I!ProcRows]
        /\ \A q \in I!Programs : q # p => s6'[q] = s6[q]
        /\ s6'[p].pc = "process" /\ s6'[p].run = run
    BY <1>1, <1>3, LoopTyped
  <1>10. I!Knows(p)'
    BY <1>1, <1>2, <1>4, <1>7, <1>9 DEF I!Knows, Kind
  <1>11. Steps(p, run)
    BY <1>2, <1>4, <1>7, <1>8, <1>9, <1>10 DEF Steps, Seals
  <1>12. ArchiveTyped'
    BY <1>1, <1>3, Faulted
  <1>13. Owning(run)
    BY <1>2, <1>4, <1>6, OwnsKept DEF I!Attempts
  <1>14. QED
    BY <1>1, <1>3, <1>11, <1>12, <1>13, QuietStep

\* Claim: an item is claimed, or none is left.
LEMMA ClaimStep ==
  ASSUME I!ClassificationInv, NEW p, NEW after, I!Claim(p, after),
         <<p, after>> \in {<<"pipeline", "refine">>, <<"backfill", "report">>}
  PROVE  I!ClassificationInv'
  <1>0. p \in I!Programs /\ I!Typed
    BY DEF I!ClassificationInv, I!Programs
  <1> PICK run \in I!RunIds, i \in Entries : run = s6[p].run /\ i = s6[p].item
    BY <1>0, AtRest
  <1>1. I!Knows(p) /\ I!RunIsSound(run) /\ I!Chained
    BY <1>0 DEF I!ClassificationInv
  <1>2. run[1] = Kind(p) /\ run # <<"semantic">> /\ s3[run].status # "none"
    <2>1. s6[p].pc = "process" /\ p \in {"pipeline", "backfill"}
      BY DEF I!Claim, I!At
    <2>2. run[1] = Kind(p)
      BY <1>0, <1>1, <2>1, OwnRun DEF Loose
    <2>3. s3[run].status # "none"
      BY <1>1, <2>1 DEF I!Knows
    <2>4. QED
      BY <2>1, <2>2, <2>3 DEF Kind
  <1>3. UNCHANGED <<s1, s2, I!archive, s7>> /\ s6[p] \in I!ProcRows
    BY <1>0 DEF I!Claim, I!Typed
  <1>4. /\ s3[run].status \in I!RunStatuses /\ s3[run].stage \in [Entries -> I!StageNames]
        /\ s3[run].why \in [Entries -> I!Whys]
    BY <1>0 DEF I!Typed, I!RunRows
  <1>5. ArchiveTyped'
    BY <1>0, <1>3 DEF I!Typed, ArchiveTyped, I!archive
  <1>6. CASE I!NoNext(run)
    <2>0. PICK s \in I!RunStatuses :
            s = IF s3[run].status = "created" THEN "running" ELSE s3[run].status
      BY <1>4 DEF I!RunStatuses
    <2>1. SetStatus(run, s) /\ I!Move(p, after)
      BY <1>6, <2>0 DEF I!Claim, SetStatus
    <2>2. /\ s3' \in [I!RunIds -> I!RunRows]
          /\ \A r \in I!RunIds : r # run => s3'[r] = s3[r]
          /\ s3'[run].status = s /\ s3'[run].why = s3[run].why
          /\ s3'[run].stage = s3[run].stage /\ s3'[run].adopted = s3[run].adopted
          /\ s3'[run].sealed = s3[run].sealed
      BY <1>0, <2>1, Statused
    <2>3. Grows
      BY <1>3, <1>2, <2>0, <2>2 DEF Grows, I!Ids
    <2>4. I!RunIsSound(run)'
      <3>1. s3'[run].status = "completed" => I!Closed(run)'
        <4>1. s3[run].status = "completed" => I!Closed(run)
          BY <1>1 DEF I!RunIsSound
        <4>2. s = "completed" => s3[run].status = "completed"
          BY <2>0
        <4>3. QED
          BY <1>0, <1>1, <2>2, <2>3, <4>1, <4>2, ClosedKept
      <3>2. s3'[run].status # "none"
        BY <1>2, <2>0, <2>2
      <3>3. QED
        BY <1>0, <1>1, <2>2, <2>3, <3>1, <3>2, RunSound
    <2>5. [s6[p] EXCEPT !.pc = after] \in I!ProcRows
      BY <1>3 DEF I!ProcRows
    <2>6. /\ s6' \in [I!Programs -> I!ProcRows]
          /\ \A q \in I!Programs : q # p => s6'[q] = s6[q]
          /\ s6'[p] = [s6[p] EXCEPT !.pc = after]
      BY <1>0, <2>1, <2>5, MovedTo, Gone
    <2>7. s6'[p].pc = after /\ s6'[p].run = run
      BY <1>3, <2>6 DEF I!ProcRows
    <2>8. I!Knows(p)'
      <3>1. (p = "pipeline" /\ after = "refine") \/ (p = "backfill" /\ after = "report")
        OBVIOUS
      <3>2. s3'[run].status # "none"
        BY <1>2, <2>0, <2>2
      <3>3. p = "backfill" => run = <<"backfill">>
        BY <1>1 DEF I!Knows
      <3>4. QED
        BY <2>7, <3>1, <3>2, <3>3 DEF I!Knows
    <2>9. Steps(p, run)
      BY <1>2, <2>0, <2>2, <2>4, <2>6, <2>8 DEF Steps, Seals
    <2>10. Owning(run)
      BY <2>2, OwnsKept
    <2>11. QED
      BY <1>0, <1>3, <1>5, <2>9, <2>10, QuietStep
  <1>7. CASE ~I!NoNext(run)
    <2>0. PICK j \in I!InStage(run, "queued") :
            /\ s3' = [s3 EXCEPT ![run].status = "running", ![run].stage[j] = "metadata"]
            /\ I!Go(p, [s6[p] EXCEPT !.pc = "decide", !.item = j])
      BY <1>7 DEF I!Claim
    <2>1. ClaimIn(run, j, "metadata") /\ j \in Entries /\ s3[run].why[j] # "none"
          /\ s3[run].stage[j] = "queued"
      BY <2>0 DEF ClaimIn, I!InStage, I!Frozen
    <2>2. /\ s3' \in [I!RunIds -> I!RunRows]
          /\ \A r \in I!RunIds : r # run => s3'[r] = s3[r]
          /\ s3'[run].status = "running" /\ s3'[run].why = s3[run].why
          /\ s3'[run].stage = [s3[run].stage EXCEPT ![j] = "metadata"]
          /\ s3'[run].adopted = s3[run].adopted
      BY <1>0, <2>1, Claimed DEF I!StageNames
    <2>3. Grows
      BY <1>2, <1>3, <2>2 DEF Grows, I!Ids
    <2>4. I!RunIsSound(run)'
      BY <1>0, <1>1, <1>2, <1>4, <2>2, <2>3, RunSound
    <2>5. [s6[p] EXCEPT !.pc = "decide", !.item = j] \in I!ProcRows
      BY <1>3, <2>1 DEF I!ProcRows
    <2>6. /\ s6' \in [I!Programs -> I!ProcRows]
          /\ \A q \in I!Programs : q # p => s6'[q] = s6[q]
          /\ s6'[p] = [s6[p] EXCEPT !.pc = "decide", !.item = j]
      BY <1>0, <2>0, <2>5, Gone
    <2>7. s6'[p].pc = "decide" /\ s6'[p].run = run /\ s6'[p].item = j
      BY <1>3, <2>6 DEF I!ProcRows
    <2>8. s3[run].why[j] \in {"target", "excluded"}
      BY <1>1, <1>2, <1>4, <2>1 DEF I!RunIsSound, I!Whys
    <2>9. I!Knows(p)'
      BY <1>1, <1>2, <1>4, <2>1, <2>2, <2>7, <2>8 DEF I!Knows, I!Attempts, Kind
    <2>10. Steps(p, run)
      BY <1>2, <2>2, <2>4, <2>6, <2>9 DEF Steps, Seals
    <2>11. Owning(run)
      BY <1>4, <2>1, <2>2, OwnsKept
    <2>12. QED
      BY <1>0, <1>3, <1>5, <2>10, <2>11, QuietStep
  <1>8. QED
    BY <1>6, <1>7

\* Decide: the current decision stands, or a new one is considered.
LEMMA DecideStep ==
  ASSUME I!ClassificationInv, NEW p \in {"pipeline", "backfill"}, I!Decide(p)
  PROVE  I!ClassificationInv'
  <1>0. p \in I!Programs /\ I!Typed
    BY DEF I!ClassificationInv, I!Programs
  <1> PICK run \in I!RunIds, i \in Entries : run = s6[p].run /\ i = s6[p].item
    BY <1>0, AtRest
  <1>1. I!Knows(p) /\ I!RunIsSound(run) /\ I!Chained
    BY <1>0 DEF I!ClassificationInv
  <1>2. /\ I!Attempts(s6[p]) /\ run[1] = Kind(p) /\ run # <<"semantic">>
        /\ s3[run].status \notin {"none", "completed"}
        /\ s3[run].why[i] \in {"target", "excluded"}
    <2>1. s6[p].pc = "decide"
      BY DEF I!Decide, I!At
    <2>2. run[1] = Kind(p)
      BY <1>0, <1>1, <2>1, OwnRun DEF Loose
    <2>3. I!Attempts(s6[p])
      BY <1>1, <2>1 DEF I!Knows
    <2>4. QED
      BY <2>2, <2>3 DEF Kind, I!Attempts
  <1>3. UNCHANGED <<s1, s2, s3, I!archive, s7>> /\ s6[p] \in I!ProcRows
    BY <1>0 DEF I!Decide, I!Typed, I!tables
  <1>4. ArchiveTyped'
    BY <1>0, <1>3 DEF I!Typed, ArchiveTyped, I!archive
  <1>5. /\ s2[i] \in Nat /\ s5[i] \in Nat
        /\ s2[i] # 0 => /\ s2[i] \in I!Ids /\ s1[s2[i]].item = i
                         /\ I!Sound(s1[s2[i]])
    BY <1>0, <1>1 DEF I!Typed, I!Chained, I!ClassificationInv
  <1>6. CASE I!KeepsCurrent(i, run)
    <2>1. s2[i] # 0 /\ I!Matches(s1[s2[i]], s3[run].why[i])
      <3>1. s2[i] # 0
        BY <1>6 DEF I!KeepsCurrent, I!Has
      <3>2. CASE s3[run].why[i] = "target" /\ I!CurrentOf(i).locked
        BY <1>5, <3>1, <3>2 DEF I!Sound, I!CurrentOf, I!Matches
      <3>3. CASE I!CurrentOf(i).input = I!decision_input(i, run)
        <4>1. /\ I!decision_input(i, run)[1] = "metadata"
              /\ I!decision_input(i, run)[2] = s3[run].why[i]
          BY DEF I!decision_input
        <4>2. QED
          BY <1>5, <3>1, <3>3, <4>1 DEF I!Sound, I!CurrentOf
      <3>4. QED
        BY <1>6, <3>1, <3>2, <3>3 DEF I!KeepsCurrent
    <2> DEFINE row == [s6[p] EXCEPT !.pc = "keep", !.seen = s2[i]]
    <2>2. I!Go(p, row)
      BY <1>6 DEF I!Decide
    <2>3. /\ row \in I!ProcRows /\ row.pc = "keep" /\ row.run = run /\ row.item = i
          /\ row.seen = s2[i]
      BY <1>3, <1>5 DEF I!ProcRows
    <2> HIDE DEF row
    <2>4. /\ s6' \in [I!Programs -> I!ProcRows]
          /\ \A q \in I!Programs : q # p => s6'[q] = s6[q]
          /\ s6'[p] = row
      BY <1>0, <2>2, <2>3, Gone
    <2>5. I!Ids' = I!Ids /\ UNCHANGED <<s1, s2, s3>>
      BY <1>3 DEF I!Ids
    <2>6. /\ I!Saw(s6[p])' /\ I!Attempts(s6[p])'
          /\ I!Matches(s1'[s6'[p].seen], s3'[run].why[i])
      BY <1>2, <1>5, <2>1, <2>3, <2>4, <2>5 DEF I!Saw, I!Attempts, I!Matches
    <2>7. I!Knows(p)'
      BY <1>1, <1>2, <2>3, <2>4, <2>6 DEF I!Knows, Kind
    <2>8. QED
      BY <1>0, <1>3, <1>4, <2>4, <2>5, <2>7, StillStep DEF I!tables
  <1>7. CASE ~I!KeepsCurrent(i, run)
    <2>0. PICK status \in IF s3[run].why[i] = "excluded" THEN {"excluded"}
                         ELSE {"classified", "needs_review"} :
            I!Go(p, [s6[p] EXCEPT !.pc = "swap", !.seen = s2[i],
                                   !.material = s5[i], !.status = status])
      BY <1>7 DEF I!Decide
    <2>1. UNCHANGED s3
      BY <1>3
    <2> DEFINE row == [s6[p] EXCEPT !.pc = "swap", !.seen = s2[i],
                                       !.material = s5[i], !.status = status]
    <2>2. row \in I!ProcRows
      BY <1>2, <1>3, <1>5, <2>0 DEF I!ProcRows, I!Statuses
    <2>3. /\ s6' \in [I!Programs -> I!ProcRows]
          /\ \A q \in I!Programs : q # p => s6'[q] = s6[q]
          /\ s6'[p] = row
      BY <1>0, <2>0, <2>2, Gone
    <2>4. /\ s6'[p].pc = "swap" /\ s6'[p].run = run /\ s6'[p].item = i
          /\ s6'[p].seen = s2[i] /\ s6'[p].status = status
      BY <1>3, <2>3 DEF I!ProcRows
    <2>5. status # "none" /\ I!Matches(s6'[p], s3[run].why[i])
      BY <1>2, <2>0, <2>4 DEF I!Matches
    <2>6. s2[i] # 0 /\ s1[s2[i]].locked => status = "excluded"
      BY <1>2, <1>7, <2>0 DEF I!KeepsCurrent, I!Has, I!CurrentOf
    <2>7. I!Knows(p)'
      BY <1>1, <1>2, <1>3, <1>5, <2>1, <2>4, <2>5, <2>6
         DEF I!Knows, I!Attempts, Kind, I!Matches, I!Ids
    <2>8. QED
      BY <1>0, <1>3, <1>4, <2>3, <2>7, StillStep DEF I!tables
  <1>8. QED
    BY <1>6, <1>7

\* A decision from the metadata has the reason that its run froze.
LEMMA AdoptedInput ==
  ASSUME NEW a, NEW b, NEW c, NEW d, NEW e, NEW f
  PROVE  [<<a, b, c, d, e>> EXCEPT ![4] = f] = <<a, b, c, f, e>>
  OBVIOUS

\* A decision that is made and adopted for an item of a run.
LEMMA MadeAndSettled ==
  ASSUME I!ClassificationInv, NEW run \in I!RunIds, NEW i \in Entries, NEW x \in I!DecisionRows,
         I!Swap(i, x), I!Settle(run, i, Len(s1) + 1), x.item = i,
         s3[run].status # "completed",
         run = <<"backfill">> => I!Matches(x, s3[run].why[i])
  PROVE  /\ Grows /\ I!RunIsSound(run)'
         /\ s3' \in [I!RunIds -> I!RunRows]
         /\ \A r \in I!RunIds : r # run => s3'[r] = s3[r]
         /\ s3'[run].status = s3[run].status /\ s3'[run].why = s3[run].why
         /\ s3'[run].stage = [s3[run].stage EXCEPT ![i] = "decided"]
         /\ s3'[run].stage[i] = "decided" /\ s3'[run].adopted[i] = Len(s1) + 1
         /\ \A j \in Entries : j # i => /\ s3'[run].stage[j] = s3[run].stage[j]
                                       /\ s3'[run].adopted[j] = s3[run].adopted[j]
  <1>1. I!Typed /\ I!RunIsSound(run)
    BY DEF I!ClassificationInv
  <1>2. s1' = Append(s1, x)
        /\ s2' = [s2 EXCEPT ![i] = Len(s1) + 1]
    BY DEF I!Swap
  <1>3. /\ Len(s1) \in Nat /\ I!Ids' = I!Ids \cup {Len(s1) + 1} /\ Len(s1) + 1 \notin I!Ids
        /\ \A d \in I!Ids : s1'[d] = s1[d]
        /\ s1'[Len(s1) + 1] = x
    BY <1>1, <1>2, Appended
  <1>4. /\ s2'[i] = Len(s1) + 1
        /\ \A j \in Entries : j # i => s2'[j] = s2[j]
    BY <1>1, <1>2, <1>3 DEF I!Typed
  <1>5. PICK n \in Nat : n = Len(s1) + 1
    BY <1>3
  <1>5a. I!Settle(run, i, n)
    BY <1>5
  <1>5b. /\ s3' \in [I!RunIds -> I!RunRows]
         /\ \A r \in I!RunIds : r # run => s3'[r] = s3[r]
         /\ s3'[run].status = s3[run].status /\ s3'[run].why = s3[run].why
         /\ s3'[run].stage = [s3[run].stage EXCEPT ![i] = "decided"]
         /\ s3'[run].adopted = [s3[run].adopted EXCEPT ![i] = n]
    BY <1>1, <1>5a, Settled, SMT
  <1>6. Grows
    BY <1>3, <1>4, <1>5b DEF Grows
  <1>7. s3[run].stage \in [Entries -> I!StageNames] /\ s3[run].adopted \in [Entries -> Nat]
    BY <1>1 DEF I!Typed, I!RunRows
  <1>8. \A j \in Entries :
           \/ s3'[run].adopted[j] = s3[run].adopted[j]
           \/ /\ s3'[run].adopted[j] \in I!Ids' \ {0}
              /\ s1'[s3'[run].adopted[j]].item = j
              /\ run = <<"backfill">> =>
                     I!Matches(s1'[s3'[run].adopted[j]], s3[run].why[j])
    BY <1>3, <1>5, <1>5b, <1>7
  <1>9. \A j \in Entries :
           \/ s3'[run].stage[j] = s3[run].stage[j]
           \/ s3'[run].stage[j] = "decided" /\ s3'[run].adopted[j] # 0
    BY <1>3, <1>5, <1>5b, <1>7
  <1>10. I!RunIsSound(run)'
    BY <1>1, <1>5b, <1>6, <1>8, <1>9, RunSound
  <1>11. QED
    BY <1>5, <1>5b, <1>6, <1>7, <1>10

\* Adopt: the decision succeeds the one that was read, or the attempt fails.
LEMMA AdoptStep ==
  ASSUME I!ClassificationInv, NEW p \in {"pipeline", "backfill"}, I!Adopt(p)
  PROVE  I!ClassificationInv'
  <1>0. p \in I!Programs /\ I!Typed
    BY DEF I!ClassificationInv, I!Programs
  <1> PICK run \in I!RunIds, i \in Entries : run = s6[p].run /\ i = s6[p].item
    BY <1>0, AtRest
  <1>1. I!Knows(p) /\ I!RunIsSound(run) /\ I!Chained
    BY <1>0 DEF I!ClassificationInv
  <1>2. /\ run[1] = Kind(p) /\ run # <<"semantic">>
        /\ s3[run].status \notin {"none", "completed"}
        /\ s3[run].why[i] \in {"target", "excluded"} /\ s3[run].stage[i] = "metadata"
        /\ s6[p].seen # 0 => /\ s6[p].seen \in I!Ids
                             /\ s1[s6[p].seen].locked =>
                                   s6[p].status = "excluded"
        /\ s6[p].status # "none" /\ I!Matches(s6[p], s3[run].why[i])
    <2>1. s6[p].pc = "swap"
      BY DEF I!Adopt, I!At
    <2>2. run[1] = Kind(p)
      BY <1>0, <1>1, <2>1, OwnRun DEF Loose
    <2>3. /\ I!Attempts(s6[p])
          /\ s6[p].seen # 0 => /\ s6[p].seen \in I!Ids
                               /\ s1[s6[p].seen].locked =>
                                   s6[p].status = "excluded"
          /\ s6[p].status # "none" /\ I!Matches(s6[p], s3[run].why[i])
      BY <1>1, <2>1 DEF I!Knows
    <2>4. QED
      BY <2>2, <2>3 DEF Kind, I!Attempts
  <1>3. UNCHANGED <<I!archive, s7>> /\ I!Loop(p, "process") /\ s6[p] \in I!ProcRows
    BY <1>0 DEF I!Adopt, I!Typed
  <1>4. ArchiveTyped'
    BY <1>0, <1>3 DEF I!Typed, ArchiveTyped, I!archive
  <1>5. /\ s6' \in [I!Programs -> I!ProcRows]
        /\ \A q \in I!Programs : q # p => s6'[q] = s6[q]
        /\ s6'[p].pc = "process" /\ s6'[p].run = run
    BY <1>0, <1>3, LoopTyped
  <1>6. CASE I!Swappable(i, s6[p].seen)
    <2>0. PICK input : input = [I!decision_input(i, run) EXCEPT ![4] = s6[p].material]
      OBVIOUS
    <2>1. PICK x : x = I!Decision(i, run, s6[p].status, input, s6[p].seen)
      OBVIOUS
    <2>2. I!Swap(i, x) /\ I!Settle(run, i, Len(s1) + 1)
      BY <1>6, <2>0, <2>1 DEF I!Adopt
    <2>3. /\ s6[p].status \in I!Statuses /\ s6[p].seen \in Nat /\ s6[p].material \in Nat
          /\ s4[i] \in BOOLEAN /\ s3[run].why[i] \in I!Whys /\ I!Rules(run) \in I!RuleNames
      BY <1>0, <1>2, <1>3 DEF I!ProcRows, I!Typed, I!Rules, I!RuleNames, Kind, I!Whys
    <2>4. input = <<"metadata", s3[run].why[i], s4[i], s6[p].material, I!Rules(run)>>
      BY <2>0, AdoptedInput DEF I!decision_input
    <2>5. input \in I!InputKinds /\ input[1] = "metadata" /\ input[2] = s3[run].why[i]
      BY <2>3, <2>4 DEF I!InputKinds
    <2>6. /\ x \in I!DecisionRows /\ x.item = i /\ x.run = run /\ x.base = s6[p].seen
          /\ x.locked = FALSE /\ x.status = s6[p].status /\ x.input = input
      BY <2>1, <2>3, <2>5 DEF I!Decision, I!DecisionRows
    <2>7. s2[i] = s6[p].seen
      BY <1>6 DEF I!Swappable
    <2>8. I!Matches(x, s3[run].why[i])
      BY <1>2, <2>6 DEF I!Matches
    <2>9. /\ I!RunIsSound(run)' /\ s3' \in [I!RunIds -> I!RunRows]
          /\ \A r \in I!RunIds : r # run => s3'[r] = s3[r]
          /\ s3'[run].status = s3[run].status /\ s3'[run].why = s3[run].why
          /\ s3'[run].stage[i] = "decided" /\ s3'[run].adopted[i] = Len(s1) + 1
          /\ \A j \in Entries : j # i => /\ s3'[run].stage[j] = s3[run].stage[j]
                                        /\ s3'[run].adopted[j] = s3[run].adopted[j]
      BY <1>2, <2>2, <2>6, <2>8, MadeAndSettled
    <2>10. I!Knows(p)'
      BY <1>1, <1>2, <1>5, <2>9 DEF I!Knows, Kind
    <2>11. Steps(p, run)
      BY <1>2, <1>5, <2>9, <2>10 DEF Steps, Seals
    <2>12. /\ s2[i] # 0 /\ s1[s2[i]].locked => x.locked \/ x.status = "excluded"
           /\ x.input[1] = "metadata" => I!Matches(x, x.input[2])
      BY <1>2, <2>5, <2>6, <2>7, <2>8
    <2>13. /\ s3'[x.run].status # "none"
           /\ x.run = <<"backfill">> => I!Matches(x, s3'[x.run].why[i])
      BY <1>2, <2>6, <2>8, <2>9
    <2>14. QED
      BY <1>0, <1>4, <2>2, <2>6, <2>7, <2>9, <2>11, <2>12, <2>13, MadeStep
  <1>7. CASE ~I!Swappable(i, s6[p].seen)
    <2>1. I!SetStage(run, i, "failed") /\ UNCHANGED <<s1, s2>>
      BY <1>7 DEF I!Adopt
    <2>2. /\ s3' \in [I!RunIds -> I!RunRows]
          /\ \A r \in I!RunIds : r # run => s3'[r] = s3[r]
          /\ s3'[run].status = s3[run].status /\ s3'[run].why = s3[run].why
          /\ s3'[run].stage = [s3[run].stage EXCEPT ![i] = "failed"]
          /\ s3'[run].adopted = s3[run].adopted
      BY <1>0, <2>1, Staged DEF I!StageNames
    <2>3. Grows
      BY <2>1, <2>2 DEF Grows, I!Ids
    <2>4. s3[run].stage \in [Entries -> I!StageNames]
      BY <1>0 DEF I!Typed, I!RunRows
    <2>5. I!RunIsSound(run)'
      BY <1>0, <1>1, <1>2, <2>2, <2>3, <2>4, RunSound
    <2>6. I!Knows(p)'
      BY <1>1, <1>2, <1>5, <2>2 DEF I!Knows, Kind
    <2>7. Steps(p, run)
      BY <1>2, <1>5, <2>2, <2>5, <2>6 DEF Steps, Seals
    <2>8. Owning(run)
      BY <1>2, <2>2, <2>4, OwnsKept
    <2>9. QED
      BY <1>0, <1>4, <2>1, <2>7, <2>8, QuietStep
  <1>8. QED
    BY <1>6, <1>7

\* A decision that is kept and adopted for an item of a run.
LEMMA KeptAndSettled ==
  ASSUME I!ClassificationInv, NEW run \in I!RunIds, NEW i \in Entries, NEW d \in I!Ids,
         s1[d].item = i, I!Settle(run, i, d), UNCHANGED <<s1, s2>>,
         s3[run].status \notin {"none", "completed"}, s3[run].stage[i] # "decided",
         run = <<"backfill">> => I!Matches(s1[d], s3[run].why[i])
  PROVE  /\ I!RunIsSound(run)' /\ Owning(run)
         /\ s3' \in [I!RunIds -> I!RunRows]
         /\ \A r \in I!RunIds : r # run => s3'[r] = s3[r]
         /\ s3'[run].status = s3[run].status /\ s3'[run].why = s3[run].why
         /\ s3'[run].stage = [s3[run].stage EXCEPT ![i] = "decided"]
  <1>1. I!Typed /\ I!RunIsSound(run) /\ d \in Nat \ {0} /\ I!Ids' = I!Ids
    BY InIds DEF I!ClassificationInv, I!Ids
  <1>2. /\ s3' \in [I!RunIds -> I!RunRows]
        /\ \A r \in I!RunIds : r # run => s3'[r] = s3[r]
        /\ s3'[run].status = s3[run].status /\ s3'[run].why = s3[run].why
        /\ s3'[run].stage = [s3[run].stage EXCEPT ![i] = "decided"]
        /\ s3'[run].adopted = [s3[run].adopted EXCEPT ![i] = d]
    BY <1>1, Settled
  <1>3. s3[run].stage \in [Entries -> I!StageNames] /\ s3[run].adopted \in [Entries -> Nat]
    BY <1>1 DEF I!Typed, I!RunRows
  <1>4. Grows
    BY <1>1, <1>2 DEF Grows
  <1>5. \A j \in Entries :
           \/ s3'[run].adopted[j] = s3[run].adopted[j]
           \/ /\ s3'[run].adopted[j] \in I!Ids' \ {0}
              /\ s1'[s3'[run].adopted[j]].item = j
              /\ run = <<"backfill">> =>
                     I!Matches(s1'[s3'[run].adopted[j]], s3[run].why[j])
    BY <1>1, <1>2, <1>3
  <1>6. \A j \in Entries :
           \/ s3'[run].stage[j] = s3[run].stage[j]
           \/ s3'[run].stage[j] = "decided" /\ s3'[run].adopted[j] # 0
    BY <1>1, <1>2, <1>3
  <1>7. I!RunIsSound(run)'
    BY <1>1, <1>2, <1>4, <1>5, <1>6, RunSound
  <1>8. Owning(run)
    BY <1>2, <1>3, OwnsKept
  <1>9. QED
    BY <1>2, <1>7, <1>8

\* Keep: the decision that was read is the one of the run.
LEMMA KeepStep ==
  ASSUME I!ClassificationInv, NEW p \in {"pipeline", "backfill"}, I!Keep(p, "process")
  PROVE  I!ClassificationInv'
  <1>0. p \in I!Programs /\ I!Typed
    BY DEF I!ClassificationInv, I!Programs
  <1> PICK run \in I!RunIds, i \in Entries : run = s6[p].run /\ i = s6[p].item
    BY <1>0, AtRest
  <1>1. I!Knows(p) /\ s6[p].pc = "keep"
    BY <1>0 DEF I!ClassificationInv, I!Keep, I!At
  <1>2. PICK d \in I!Ids : d = s6[p].seen /\ s1[d].item = i
    BY <1>1 DEF I!Knows, I!Saw
  <1>3. /\ run[1] = Kind(p) /\ run # <<"semantic">>
        /\ s3[run].status \notin {"none", "completed"} /\ s3[run].stage[i] = "metadata"
        /\ run = <<"backfill">> => I!Matches(s1[d], s3[run].why[i])
    <2>1. run[1] = Kind(p)
      BY <1>0, <1>1, OwnRun DEF Loose
    <2>2. I!Attempts(s6[p]) /\ (run = <<"backfill">> => I!Matches(s1[d], s3[run].why[i]))
      BY <1>1, <1>2 DEF I!Knows
    <2>3. QED
      BY <2>1, <2>2 DEF Kind, I!Attempts
  <1>4. I!Settle(run, i, d) /\ I!Loop(p, "process") /\ UNCHANGED <<s1, s2, I!archive, s7>>
    BY <1>2 DEF I!Keep
  <1>5. /\ I!RunIsSound(run)' /\ Owning(run) /\ s3' \in [I!RunIds -> I!RunRows]
        /\ \A r \in I!RunIds : r # run => s3'[r] = s3[r]
        /\ s3'[run].status = s3[run].status /\ s3'[run].why = s3[run].why
    BY <1>2, <1>3, <1>4, KeptAndSettled
  <1>6. /\ s6' \in [I!Programs -> I!ProcRows]
        /\ \A q \in I!Programs : q # p => s6'[q] = s6[q]
        /\ s6'[p].pc = "process" /\ s6'[p].run = run
    BY <1>0, <1>4, LoopTyped
  <1>7. I!Knows(p)'
    BY <1>1, <1>3, <1>5, <1>6 DEF I!Knows, Kind
  <1>8. Steps(p, run)
    BY <1>3, <1>5, <1>6, <1>7 DEF Steps, Seals
  <1>9. ArchiveTyped'
    BY <1>0, <1>4 DEF I!Typed, ArchiveTyped, I!archive
  <1>10. QED
    BY <1>0, <1>4, <1>5, <1>8, <1>9, QuietStep

-----------------------------------------------------------------------------
(* The backfill.                                                           *)
\* create_run: a new run, or the same one again.
LEMMA CreatedSound ==
  ASSUME I!Typed, NEW run \in I!RunIds, run # <<"semantic">>, I!RunIsSound(run),
         NEW targets \in SUBSET Entries, I!create_run(run, targets),
         UNCHANGED <<s1, s2>>
  PROVE  /\ Grows /\ I!RunIsSound(run)' /\ s3' \in [I!RunIds -> I!RunRows]
         /\ \A r \in I!RunIds : r # run => s3'[r] = s3[r]
         /\ s3'[run].status # "none"
         /\ s3[run].status # "none" => s3'[run].why = s3[run].why
         /\ s3[run].status = "none" \/ s3'[run] = s3[run]
         /\ Seals(run)
  <1>1. CASE s3[run].status = "none"
    <2> DEFINE row == I!Created(targets)
    <2>1. s3' = [s3 EXCEPT ![run] = row]
      BY <1>1 DEF I!create_run
    <2>2. PICK w, g :
            /\ w = [i \in Entries |-> IF i \in targets THEN I!inclusion_reason(i) ELSE "none"]
            /\ g = [i \in Entries |-> IF i \in targets THEN "queued" ELSE "none"]
      OBVIOUS
    <2>2a. row = [I!Absent EXCEPT !.status = "created", !.why = w, !.stage = g]
      BY <2>2 DEF I!Created
    <2>2b. row = [status |-> "created", why |-> w, stage |-> g,
                  adopted |-> [i \in Entries |-> 0], sealed |-> [i \in Entries |-> 0]]
      BY <2>2a DEF I!Absent
    <2>3. \A i \in Entries : I!inclusion_reason(i) \in {"target", "excluded"}
      BY DEF I!inclusion_reason
    <2> HIDE DEF row
    <2>4. /\ w \in [Entries -> I!Whys] /\ g \in [Entries -> I!StageNames]
          /\ \A i \in Entries : w[i] # "semantic_review" /\ g[i] # "decided"
      BY <2>2, <2>3 DEF I!Whys, I!StageNames
    <2>5. row \in I!RunRows
      BY <2>2b, <2>4 DEF I!RunRows, I!RunStatuses
    <2>6. /\ s3' \in [I!RunIds -> I!RunRows] /\ s3'[run] = row
          /\ \A r \in I!RunIds : r # run => s3'[r] = s3[r]
      BY <2>1, <2>5 DEF I!Typed
    <2>7. Grows
      BY <1>1, <2>6 DEF Grows, I!Ids
    <2>8. I!RunIsSound(run)'
      BY <2>2b, <2>4, <2>6 DEF I!RunIsSound
    <2>9. QED
      BY <1>1, <2>2b, <2>6, <2>7, <2>8 DEF Seals
  <1>2. CASE s3[run].status # "none"
    <2>1. UNCHANGED s3
      BY <1>2 DEF I!create_run
    <2>2. Grows
      BY <2>1 DEF Grows, I!Ids
    <2>3. I!RunIsSound(run)'
      BY <2>1, <2>2, RunKept
    <2>4. QED
      BY <1>2, <2>1, <2>2, <2>3 DEF I!Typed, Seals
  <1>3. QED
    BY <1>1, <1>2

\* StartBackfill: the run over all items.
LEMMA StartBackfillStep ==
  ASSUME I!ClassificationInv, I!StartBackfill
  PROVE  I!ClassificationInv'
  <1>0. "backfill" \in I!Programs /\ I!Typed
    BY DEF I!ClassificationInv, I!Programs
  <1> PICK run \in I!RunIds : run = <<"backfill">>
    BY OnlyRuns
  <1>1. I!RunIsSound(run) /\ run # <<"semantic">> /\ run[1] = Kind("backfill")
    BY <1>0 DEF I!ClassificationInv, Kind
  <1>2. PICK row : row = [I!Idle EXCEPT !.pc = "process", !.run = <<"backfill">>]
    OBVIOUS
  <1>3. /\ I!create_run(run, Entries) /\ I!Go("backfill", row)
        /\ UNCHANGED <<s1, s2, I!archive, s7>>
    BY <1>2 DEF I!StartBackfill
  <1>4. /\ I!RunIsSound(run)' /\ s3' \in [I!RunIds -> I!RunRows]
        /\ \A r \in I!RunIds : r # run => s3'[r] = s3[r]
        /\ s3'[run].status # "none"
        /\ s3[run].status # "none" => s3'[run].why = s3[run].why
        /\ s3[run].status = "none" \/ s3'[run] = s3[run]
        /\ Seals(run)
    BY <1>0, <1>1, <1>3, CreatedSound
  <1>5. row \in I!ProcRows /\ row.pc = "process" /\ row.run = run
    BY <1>2, RestTyped DEF I!ProcRows, I!ClassificationInv
  <1>6. /\ s6' \in [I!Programs -> I!ProcRows] /\ s6'["backfill"] = row
        /\ \A q \in I!Programs : q # "backfill" => s6'[q] = s6[q]
    BY <1>0, <1>3, <1>5, Gone
  <1>7. I!Knows("backfill")'
    BY <1>4, <1>5, <1>6 DEF I!Knows
  <1>8. Steps("backfill", run)
    BY <1>1, <1>4, <1>6, <1>7 DEF Steps
  <1>9. ArchiveTyped'
    BY <1>0, <1>3 DEF I!Typed, ArchiveTyped, I!archive
  <1>10. Owning(run)
    BY <1>4, OwnsKept
  <1>11. QED
    BY <1>0, <1>3, <1>8, <1>9, <1>10, QuietStep

\* Resume: what failed is queued again.
LEMMA ResumeStep ==
  ASSUME I!ClassificationInv, I!Resume
  PROVE  I!ClassificationInv'
  <1>0. "backfill" \in I!Programs /\ I!Typed
    BY DEF I!ClassificationInv, I!Programs
  <1> PICK run \in I!RunIds : run = <<"backfill">>
    BY OnlyRuns
  <1>1. I!RunIsSound(run) /\ run # <<"semantic">> /\ run[1] = Kind("backfill")
    BY <1>0 DEF I!ClassificationInv, Kind
  <1>2. PICK row : row = [I!Idle EXCEPT !.pc = "process", !.run = run]
    OBVIOUS
  <1>3. PICK f : f = [i \in Entries |-> IF s3[run].stage[i] = "failed" THEN "queued"
                                      ELSE s3[run].stage[i]]
    OBVIOUS
  <1>4. /\ I!Go("backfill", row) /\ s3[run].status # "none"
        /\ UNCHANGED <<s1, s2, I!archive, s7>>
    BY <1>2 DEF I!Resume
  <1>5. Restage(run, f)
    BY <1>0, <1>3 DEF I!Resume, Restage, I!Typed
  <1>6. /\ f \in [Entries -> I!StageNames]
        /\ \A i \in Entries : f[i] \in {s3[run].stage[i], "queued"}
    BY <1>0, <1>3 DEF I!Typed, I!RunRows, I!StageNames
  <1>7. /\ s3' \in [I!RunIds -> I!RunRows]
        /\ \A r \in I!RunIds : r # run => s3'[r] = s3[r]
        /\ s3'[run].status = s3[run].status /\ s3'[run].why = s3[run].why
        /\ s3'[run].stage = f /\ s3'[run].adopted = s3[run].adopted
        /\ s3'[run].sealed = s3[run].sealed
    BY <1>0, <1>5, <1>6, Restaged
  <1>8. Grows
    BY <1>4, <1>7 DEF Grows, I!Ids
  <1>9. s3'[run].status = "completed" => I!Closed(run)'
    <2>1. s3[run].status = "completed" =>
             I!Closed(run) /\ \A j \in I!Frozen(run) : f[j] = s3[run].stage[j]
      BY <1>1, <1>3 DEF I!RunIsSound, I!Closed, I!Frozen
    <2>2. QED
      BY <1>0, <1>1, <1>7, <1>8, <2>1, ClosedKept
  <1>10. I!RunIsSound(run)'
    BY <1>0, <1>1, <1>4, <1>6, <1>7, <1>8, <1>9, RunSound
  <1>11. row \in I!ProcRows /\ row.pc = "process" /\ row.run = run
    BY <1>2, RestTyped DEF I!ProcRows, I!ClassificationInv
  <1>12. /\ s6' \in [I!Programs -> I!ProcRows] /\ s6'["backfill"] = row
         /\ \A q \in I!Programs : q # "backfill" => s6'[q] = s6[q]
    BY <1>0, <1>4, <1>11, Gone
  <1>13. I!Knows("backfill")'
    BY <1>4, <1>7, <1>11, <1>12 DEF I!Knows
  <1>14. Steps("backfill", run)
    BY <1>1, <1>4, <1>7, <1>10, <1>12, <1>13 DEF Steps, Seals
  <1>15. ArchiveTyped'
    BY <1>0, <1>4 DEF I!Typed, ArchiveTyped, I!archive
  <1>16. Owning(run)
    BY <1>3, <1>7, OwnsKept
  <1>17. QED
    BY <1>0, <1>4, <1>14, <1>15, <1>16, QuietStep

\* Every input belongs to some rules.
LEMMA RulesOf ==
  ASSUME NEW run \in I!RunIds
  PROVE  I!Rules(run) \in I!RuleNames
  <1>1. run[1] \in {"backfill", "semantic", "manual", "pipeline"}
    BY DEF I!RunIds
  <1>2. QED
    BY <1>1 DEF I!Rules, I!RuleNames

\* BuildReport: what is to be closed has everything decided.
LEMMA BuildReportStep ==
  ASSUME I!ClassificationInv, I!BuildReport
  PROVE  I!ClassificationInv'
  <1> PICK run \in I!RunIds : run = <<"backfill">>
    BY OnlyRuns
  <1>0. PICK p \in I!Programs : p = "backfill"
    BY DEF I!Programs
  <1>1. I!Typed /\ I!Knows(p) /\ s6[p] \in I!ProcRows /\ s6[p].pc = "report"
    BY <1>0 DEF I!ClassificationInv, I!BuildReport, I!At, I!Typed
  <1>2. s6[p].run = run /\ s3[run].status # "none"
    BY <1>0, <1>1 DEF I!Knows
  <1>3. UNCHANGED <<I!tables, I!archive, s7>>
    BY DEF I!BuildReport
  <1>4. UNCHANGED s3 /\ ArchiveTyped'
    BY <1>1, <1>3 DEF I!Typed, ArchiveTyped, I!archive, I!tables
  <1>5. CASE s3[run].status # "completed" /\ I!Completable(run)
    <2>1. I!Move(p, "close")
      BY <1>0, <1>5 DEF I!BuildReport
    <2>2. [s6[p] EXCEPT !.pc = "close"] \in I!ProcRows
      BY <1>1 DEF I!ProcRows
    <2>3. /\ s6' \in [I!Programs -> I!ProcRows] /\ s6'[p] = [s6[p] EXCEPT !.pc = "close"]
          /\ \A q \in I!Programs : q # p => s6'[q] = s6[q]
      BY <1>1, <2>1, <2>2, MovedTo, Gone
    <2>4. s6'[p].pc = "close" /\ s6'[p].run = run
      BY <1>1, <1>2, <2>3 DEF I!ProcRows
    <2>5. (I!InStage(run, "decided") = I!Frozen(run))'
      BY <1>4, <1>5 DEF I!Completable, I!InStage, I!Frozen
    <2>6. I!Knows(p)'
      BY <1>0, <1>2, <1>4, <1>5, <2>4, <2>5 DEF I!Knows
    <2>7. QED
      BY <1>3, <1>4, <2>3, <2>6, StillStep
  <1>6. CASE ~(s3[run].status # "completed" /\ I!Completable(run))
    <2>1. I!Go(p, I!Idle)
      BY <1>0, <1>6 DEF I!BuildReport, I!Return
    <2>2. /\ s6' \in [I!Programs -> I!ProcRows] /\ s6'[p] = I!Idle
          /\ \A q \in I!Programs : q # p => s6'[q] = s6[q]
      BY <1>1, <2>1, RestTyped, Gone
    <2>3. QED
      BY <1>3, <1>4, <2>2, IdleKnows, StillStep
  <1>7. QED
    BY <1>5, <1>6

\* Complete: the run is closed.
LEMMA CompleteStep ==
  ASSUME I!ClassificationInv, I!Complete
  PROVE  I!ClassificationInv'
  <1> PICK run \in I!RunIds : run = <<"backfill">>
    BY OnlyRuns
  <1>0. PICK p \in I!Programs : p = "backfill"
    BY DEF I!Programs
  <1>1. I!Typed /\ I!Knows(p) /\ I!RunIsSound(run) /\ s6[p].pc = "close"
    BY <1>0 DEF I!ClassificationInv, I!Complete, I!At
  <1>2. s6[p].run = run /\ I!InStage(run, "decided") = I!Frozen(run)
    BY <1>0, <1>1 DEF I!Knows
  <1>3. Seal(run, "completed") /\ I!Go(p, I!Idle) /\ UNCHANGED <<s1, s2, I!archive, s7>>
    BY <1>0 DEF I!Complete, Seal, I!Return
  <1>4. /\ s3' \in [I!RunIds -> I!RunRows]
        /\ \A r \in I!RunIds : r # run => s3'[r] = s3[r]
        /\ s3'[run].status = "completed" /\ s3'[run].why = s3[run].why
        /\ s3'[run].stage = s3[run].stage /\ s3'[run].adopted = s3[run].adopted
        /\ s3'[run].sealed = s3[run].adopted
    BY <1>1, <1>3, Sealed DEF I!RunStatuses
  <1>5. Grows
    BY <1>3, <1>4 DEF Grows, I!Ids
  <1>6. \A j \in I!Frozen(run) : s3'[run].stage[j] = "decided"
    BY <1>2, <1>4 DEF I!InStage
  <1>7. I!RunIsSound(run)'
    <2>1. \A j \in I!Frozen(run) : s3[run].adopted[j] # 0
      BY <1>1, <1>4, <1>6 DEF I!RunIsSound, I!Frozen
    <2>2. I!Closed(run)'
      BY <1>4, <1>6, <2>1 DEF I!Closed, I!Completing, I!Frozen
    <2>3. QED
      BY <1>1, <1>4, <1>5, <2>2, RunSound
  <1>8. /\ s6' \in [I!Programs -> I!ProcRows] /\ s6'[p] = I!Idle
        /\ \A q \in I!Programs : q # p => s6'[q] = s6[q]
    BY <1>1, <1>3, RestTyped, Gone
  <1>9. run[1] = Kind(p)
    BY <1>0 DEF Kind
  <1>10. Steps(p, run)
    BY <1>4, <1>7, <1>8, <1>9, IdleKnows DEF Steps, Seals
  <1>11. ArchiveTyped'
    BY <1>1, <1>3 DEF I!Typed, ArchiveTyped, I!archive
  <1>12. Owning(run)
    BY <1>4, OwnsKept
  <1>13. QED
    BY <1>3, <1>10, <1>11, <1>12, QuietStep

-----------------------------------------------------------------------------
(* The pipeline.                                                           *)
\* Look: what the pipeline makes of an item.
LEMMA LookStep ==
  ASSUME I!ClassificationInv, MaxChanges \in Nat, NEW i \in Entries, I!Look(i)
  PROVE  I!ClassificationInv'
  <1>0. PICK p \in I!Programs : p = "pipeline"
    BY DEF I!Programs
  <1>1. I!Typed /\ UNCHANGED <<I!tables, I!archive, s7>>
    BY DEF I!ClassificationInv, I!Look
  <1>2. PICK place \in {"refine", "create"} : place = IF I!UpToDate(i) THEN "refine" ELSE "create"
    OBVIOUS
  <1>3. PICK run : run = <<"pipeline", i, IF I!Has(i) THEN s5[i] ELSE 0>>
    OBVIOUS
  <1>4. run \in I!RunIds /\ run[1] = "pipeline"
    <2>1. PICK m : m = IF I!Has(i) THEN s5[i] ELSE 0
      OBVIOUS
    <2>2. m \in 0..MaxChanges + 1
      BY <1>1, <2>1 DEF I!Typed
    <2>3. QED
      BY <1>3, <2>1, <2>2 DEF I!RunIds
  <1>5. PICK row : row = [I!Idle EXCEPT !.item = i, !.pc = place, !.run = run]
    OBVIOUS
  <1>6. I!Go(p, row)
    BY <1>0, <1>2, <1>3, <1>5 DEF I!Look
  <1>7. row \in I!ProcRows /\ row.pc = place /\ row.run = run
    BY <1>2, <1>4, <1>5, RestTyped DEF I!ProcRows, I!ClassificationInv
  <1>8. /\ s6' \in [I!Programs -> I!ProcRows] /\ s6'[p] = row
        /\ \A q \in I!Programs : q # p => s6'[q] = s6[q]
    BY <1>1, <1>6, <1>7, Gone
  <1>9. I!Knows(p)'
    BY <1>0, <1>2, <1>4, <1>7, <1>8 DEF I!Knows
  <1>10. ArchiveTyped'
    BY <1>1 DEF I!Typed, ArchiveTyped, I!archive
  <1>11. QED
    BY <1>1, <1>8, <1>9, <1>10, StillStep

\* CreatePipelineRun: a run of its own for the item.
LEMMA CreatePipelineRunStep ==
  ASSUME I!ClassificationInv, I!CreatePipelineRun
  PROVE  I!ClassificationInv'
  <1>0. PICK p \in I!Programs : p = "pipeline"
    BY DEF I!Programs
  <1>t. I!Typed /\ I!Knows(p) /\ s6[p].pc = "create" /\ s6[p] \in I!ProcRows
    BY <1>0 DEF I!ClassificationInv, I!CreatePipelineRun, I!At, I!Typed
  <1> PICK run \in I!RunIds, i \in Entries : run = s6[p].run /\ i = s6[p].item
    BY <1>t, AtRest
  <1>1. I!RunIsSound(run) /\ run[1] = "pipeline" /\ run[1] = Kind(p) /\ run # <<"semantic">>
    BY <1>0, <1>t DEF I!ClassificationInv, I!Knows, Kind
  <1>2. UNCHANGED <<s1, s2, I!archive, s7>>
    BY DEF I!CreatePipelineRun
  <1>3. ArchiveTyped'
    BY <1>t, <1>2 DEF I!Typed, ArchiveTyped, I!archive
  <1>4. \/ UNCHANGED s3 /\ I!Go(p, I!Idle)
        \/ I!create_run(run, {i}) /\ I!Move(p, "process")
    BY <1>0 DEF I!CreatePipelineRun, I!Return
  <1>5. CASE UNCHANGED s3 /\ I!Go(p, I!Idle)
    <2>1. /\ s6' \in [I!Programs -> I!ProcRows] /\ s6'[p] = I!Idle
          /\ \A q \in I!Programs : q # p => s6'[q] = s6[q]
      BY <1>t, <1>5, RestTyped, Gone
    <2>2. UNCHANGED I!tables
      BY <1>2, <1>5 DEF I!tables
    <2>3. QED
      BY <1>3, <2>1, <2>2, IdleKnows, StillStep
  <1>6. CASE I!create_run(run, {i}) /\ I!Move(p, "process")
    <2>1. /\ I!RunIsSound(run)' /\ s3' \in [I!RunIds -> I!RunRows]
          /\ \A r \in I!RunIds : r # run => s3'[r] = s3[r]
          /\ s3'[run].status # "none"
          /\ s3[run].status # "none" => s3'[run].why = s3[run].why
          /\ s3[run].status = "none" \/ s3'[run] = s3[run]
          /\ Seals(run)
      BY <1>t, <1>1, <1>2, <1>6, CreatedSound
    <2>2. [s6[p] EXCEPT !.pc = "process"] \in I!ProcRows
      BY <1>t DEF I!ProcRows
    <2>3. /\ s6' \in [I!Programs -> I!ProcRows]
          /\ s6'[p] = [s6[p] EXCEPT !.pc = "process"]
          /\ \A q \in I!Programs : q # p => s6'[q] = s6[q]
      BY <1>t, <1>6, <2>2, MovedTo, Gone
    <2>4. s6'[p].pc = "process" /\ s6'[p].run = run
      BY <1>t, <2>3 DEF I!ProcRows
    <2>5. I!Knows(p)'
      BY <1>0, <1>1, <2>1, <2>4 DEF I!Knows
    <2>6. Steps(p, run)
      BY <1>1, <2>1, <2>3, <2>5 DEF Steps
    <2>7. Owning(run)
      BY <2>1, OwnsKept
    <2>8. QED
      BY <1>2, <1>3, <2>6, <2>7, QuietStep
  <1>7. QED
    BY <1>4, <1>5, <1>6

\* Refine: the evidence of the item is looked at.
LEMMA RefineStep ==
  ASSUME I!ClassificationInv, I!Refine
  PROVE  I!ClassificationInv'
  <1>0. PICK p \in I!Programs : p = "pipeline"
    BY DEF I!Programs
  <1>t. I!Typed /\ s6[p] \in I!ProcRows
    BY <1>0 DEF I!ClassificationInv, I!Typed
  <1> PICK i \in Entries : i = s6[p].item
    BY <1>t, AtRest
  <1>1. UNCHANGED <<I!tables, I!archive, s7>>
    BY DEF I!Refine
  <1>2. ArchiveTyped'
    BY <1>t, <1>1 DEF I!Typed, ArchiveTyped, I!archive
  <1>3. \/ I!Go(p, I!Idle)
        \/ /\ s2[i] # 0
           /\ \E status \in {"classified", "needs_review"} :
                  I!Go(p, [s6[p] EXCEPT !.pc = "refined", !.seen = s2[i],
                                         !.material = s5[i], !.status = status])
    BY <1>0 DEF I!Refine, I!Return, I!Has
  <1>4. CASE I!Go(p, I!Idle)
    <2>1. /\ s6' \in [I!Programs -> I!ProcRows] /\ s6'[p] = I!Idle
          /\ \A q \in I!Programs : q # p => s6'[q] = s6[q]
      BY <1>t, <1>4, RestTyped, Gone
    <2>2. QED
      BY <1>1, <1>2, <2>1, IdleKnows, StillStep
  <1>5. ASSUME s2[i] # 0, NEW status \in {"classified", "needs_review"},
               I!Go(p, [s6[p] EXCEPT !.pc = "refined", !.seen = s2[i],
                                      !.material = s5[i], !.status = status])
        PROVE  I!ClassificationInv'
    <2>1. PICK row : row = [s6[p] EXCEPT !.pc = "refined", !.seen = s2[i],
                                            !.material = s5[i], !.status = status]
      OBVIOUS
    <2>2. s2[i] \in Nat /\ s5[i] \in Nat
      BY <1>t DEF I!Typed
    <2>3. /\ row \in I!ProcRows /\ row.pc = "refined" /\ row.seen = s2[i]
          /\ row.status = status
      BY <1>t, <2>1, <2>2 DEF I!ProcRows, I!Statuses
    <2>4. I!Go(p, row)
      BY <1>5, <2>1
    <2>5. /\ s6' \in [I!Programs -> I!ProcRows] /\ s6'[p] = row
          /\ \A q \in I!Programs : q # p => s6'[q] = s6[q]
      BY <1>t, <2>3, <2>4, Gone
    <2>6. I!Knows(p)'
      BY <1>0, <1>5, <2>3, <2>5 DEF I!Knows
    <2>7. QED
      BY <1>1, <1>2, <2>5, <2>6, StillStep
  <1>6. QED
    BY <1>3, <1>4, <1>5

\* CheckRefined: the refinement is for the run of what it refines, if that is open.
LEMMA CheckRefinedStep ==
  ASSUME I!ClassificationInv, I!CheckRefined
  PROVE  I!ClassificationInv'
  <1>0. PICK p \in I!Programs : p = "pipeline"
    BY DEF I!Programs
  <1>1. I!Typed /\ I!Knows(p) /\ I!Chained /\ s6[p].pc = "refined" /\ s6[p] \in I!ProcRows
    BY <1>0 DEF I!ClassificationInv, I!CheckRefined, I!At, I!Typed
  <1> PICK i \in Entries : i = s6[p].item
    BY <1>1, AtRest
  <1>2. UNCHANGED <<I!tables, I!archive, s7>>
    BY DEF I!CheckRefined
  <1>3. ArchiveTyped'
    BY <1>1, <1>2 DEF I!Typed, ArchiveTyped, I!archive
  <1>4. PICK input : input = <<"dossier", s6[p].material>>
    OBVIOUS
  <1>5. CASE ~I!Refinable(i, s6[p].seen, input)
    <2>1. I!Go(p, I!Idle)
      BY <1>0, <1>4, <1>5 DEF I!CheckRefined, I!Return
    <2>2. /\ s6' \in [I!Programs -> I!ProcRows] /\ s6'[p] = I!Idle
          /\ \A q \in I!Programs : q # p => s6'[q] = s6[q]
      BY <1>1, <2>1, RestTyped, Gone
    <2>3. QED
      BY <1>2, <1>3, <2>2, IdleKnows, StillStep
  <1>6. CASE I!Refinable(i, s6[p].seen, input)
    <2>1. /\ s2[i] = s6[p].seen /\ ~I!CurrentOf(i).locked
          /\ I!CurrentOf(i).status # "excluded"
          /\ s3[I!CurrentOf(i).run].status # "completed"
      BY <1>6 DEF I!Refinable
    <2>2. s6[p].seen # 0 /\ s6[p].status \in {"classified", "needs_review"}
      BY <1>1 DEF I!Knows
    <2>3. s2[i] \in I!Ids /\ s1[s2[i]].item = i /\ s1[s2[i]] \in I!DecisionRows
      BY <1>1, <2>1, <2>2, InIds DEF I!Chained
    <2>4. PICK run \in I!RunIds : run = s1[s2[i]].run
      BY <2>3 DEF I!DecisionRows
    <2> DEFINE row == [s6[p] EXCEPT !.pc = "adopt", !.run = run]
    <2>5. I!Go(p, row)
      BY <1>0, <1>4, <1>6, <2>4 DEF I!CheckRefined, I!CurrentOf
    <2>6. /\ row \in I!ProcRows /\ row.pc = "adopt" /\ row.run = run /\ row.item = i
          /\ row.seen = s2[i] /\ row.status = s6[p].status
      BY <1>1, <2>1 DEF I!ProcRows
    <2> HIDE DEF row
    <2>7. /\ s6' \in [I!Programs -> I!ProcRows] /\ s6'[p] = row
          /\ \A q \in I!Programs : q # p => s6'[q] = s6[q]
      BY <1>1, <2>5, <2>6, Gone
    <2>8. UNCHANGED <<s1, s2, s3>> /\ I!Ids' = I!Ids
      BY <1>2 DEF I!tables, I!Ids
    <2>9. I!Knows(p)'
      <3>1. I!Saw(s6[p])'
        BY <2>3, <2>6, <2>7, <2>8 DEF I!Saw
      <3>2. /\ ~s1'[s6'[p].seen].locked /\ s1'[s6'[p].seen].run = s6'[p].run
            /\ s1'[s6'[p].seen].status # "excluded" /\ s6'[p].status \in {"classified", "needs_review"}
            /\ s3'[s6'[p].run].status # "completed" /\ s6'[p].pc = "adopt"
        BY <2>1, <2>2, <2>4, <2>6, <2>7, <2>8 DEF I!CurrentOf
      <3>3. QED
        BY <1>0, <3>1, <3>2 DEF I!Knows
    <2>10. QED
      BY <1>2, <1>3, <2>7, <2>9, StillStep
  <1>7. QED
    BY <1>5, <1>6

\* AdoptRefined: the refined decision joins the run of the one it refines.
LEMMA AdoptRefinedStep ==
  ASSUME I!ClassificationInv, I!AdoptRefined
  PROVE  I!ClassificationInv'
  <1>0. PICK p \in I!Programs : p = "pipeline"
    BY DEF I!Programs
  <1>1. /\ I!Typed /\ I!Knows(p) /\ I!Chained /\ I!Owned /\ s6[p].pc = "adopt"
        /\ s6[p] \in I!ProcRows /\ \A d \in I!Ids : I!Sound(s1[d])
    BY <1>0 DEF I!ClassificationInv, I!AdoptRefined, I!At, I!Typed
  <1> PICK i \in Entries, run \in I!RunIds : i = s6[p].item /\ run = s6[p].run
    BY <1>1, AtRest
  <1>2. /\ UNCHANGED <<I!archive, s7>> /\ I!Go(p, I!Idle)
        /\ s6[p].status \in {"classified", "needs_review"}
    BY <1>0, <1>1 DEF I!AdoptRefined, I!Return, I!Knows
  <1>3. ArchiveTyped'
    BY <1>1, <1>2 DEF I!Typed, ArchiveTyped, I!archive
  <1>4. /\ s6' \in [I!Programs -> I!ProcRows] /\ s6'[p] = I!Idle
        /\ \A q \in I!Programs : q # p => s6'[q] = s6[q]
    BY <1>1, <1>2, RestTyped, Gone
  <1>5. I!Knows(p)'
    BY <1>4, IdleKnows
  <1>6. PICK input : input = <<"dossier", s6[p].material>>
    OBVIOUS
  <1>7. CASE ~I!Swappable(i, s6[p].seen)
    <2>1. UNCHANGED I!tables
      BY <1>0, <1>7 DEF I!AdoptRefined
    <2>2. QED
      BY <1>3, <1>4, <1>5, <2>1, StillStep
  <1>8. CASE I!Swappable(i, s6[p].seen)
    <2>1. PICK b \in I!Ids : b = s6[p].seen
      BY <1>1 DEF I!Knows, I!Saw
    <2>2. /\ s2[i] = b /\ s1[b].item = i /\ s1[b].run = run /\ ~s1[b].locked
          /\ s1[b].status # "excluded"
          /\ s3[run].status = "completed" => s3[run].sealed[i] = b
      BY <1>0, <1>1, <1>8, <2>1 DEF I!Swappable, I!Knows, I!Saw
    <2>3. /\ I!Sound(s1[b]) /\ s1[b] \in I!DecisionRows
          /\ s3[run].stage[i] = "decided" /\ s3[run].adopted[i] = b
      BY <1>1, <2>2, InIds DEF I!Owned
    <2>5. /\ s3[run].status # "none"
          /\ run = <<"backfill">> => I!Matches(s1[b], s3[run].why[i])
      BY <2>2, <2>3 DEF I!Sound
    <2>6. PICK x : x = [I!Decision(i, run, s6[p].status, input, s6[p].seen)
                           EXCEPT !.material = s6[p].material]
      OBVIOUS
    <2>7. PICK n \in Nat : n = Len(s1) + 1
      BY <1>1 DEF I!Typed
    <2>8. I!Swap(i, x) /\ Readopt(run, i, n)
      BY <1>0, <1>6, <1>8, <2>6, <2>7 DEF I!AdoptRefined, Readopt
    <2>9. /\ s6[p].status \in I!Statuses /\ s6[p].seen \in Nat /\ s6[p].material \in Nat
          /\ I!Rules(run) \in I!RuleNames
      BY <1>1, <1>2, RulesOf DEF I!ProcRows, I!Statuses
    <2>10. input \in I!InputKinds /\ input[1] = "dossier"
      BY <1>6, <2>9 DEF I!InputKinds
    <2>11. /\ x \in I!DecisionRows /\ x.item = i /\ x.run = run /\ x.base = b
           /\ x.locked = FALSE /\ x.status = s6[p].status /\ x.input = input
      BY <2>1, <2>6, <2>9, <2>10 DEF I!Decision, I!DecisionRows
    <2>12. run = <<"backfill">> => I!Matches(x, s3[run].why[i])
      BY <1>2, <2>2, <2>5, <2>11 DEF I!Matches
    <2>13. /\ s3' \in [I!RunIds -> I!RunRows]
           /\ \A r \in I!RunIds : r # run => s3'[r] = s3[r]
           /\ s3'[run].status = s3[run].status /\ s3'[run].why = s3[run].why
           /\ s3'[run].stage = s3[run].stage
           /\ s3'[run].adopted = [s3[run].adopted EXCEPT ![i] = n]
           /\ s3'[run].sealed = s3[run].sealed
      BY <1>1, <2>8, Readopted
    <2>14. s1' = Append(s1, x) /\ s2' = [s2 EXCEPT ![i] = n]
      BY <2>7, <2>8 DEF I!Swap
    <2>15. /\ I!Ids' = I!Ids \cup {n} /\ n # 0 /\ n \notin I!Ids /\ s1'[n] = x
           /\ \A e \in I!Ids : s1'[e] = s1[e]
      <3>1. /\ Len(s1) \in Nat /\ I!Ids' = I!Ids \cup {Len(s1) + 1}
            /\ s1'[Len(s1) + 1] = x /\ Len(s1) + 1 \notin I!Ids
            /\ \A e \in I!Ids : s1'[e] = s1[e]
        BY <1>1, <2>11, <2>14, Appended
      <3>2. QED
        BY <2>7, <3>1
    <2>16. \A j \in Entries : /\ s2[j] # 0 => s2'[j] # 0
                              /\ s2'[j] \in I!Ids => s2'[j] = s2[j]
      BY <1>1, <2>14, <2>15 DEF I!Typed
    <2>17. Grows
      BY <2>13, <2>15, <2>16 DEF Grows
    <2>18. I!RunIsSound(run) /\ s3[run].adopted \in [Entries -> Nat]
      BY <1>1 DEF I!ClassificationInv, I!Typed, I!RunRows
    <2>19. \A j \in Entries :
             \/ s3'[run].adopted[j] = s3[run].adopted[j]
             \/ /\ s3'[run].adopted[j] \in I!Ids' \ {0}
                /\ s1'[s3'[run].adopted[j]].item = j
                /\ run = <<"backfill">> =>
                       I!Matches(s1'[s3'[run].adopted[j]], s3[run].why[j])
      BY <2>11, <2>12, <2>13, <2>15, <2>18
    <2>20. s3'[run].status = "completed" => I!Closed(run)'
      <3> SUFFICES ASSUME s3[run].status = "completed"
                   PROVE  I!Closed(run)'
        BY <2>13
      <3>1. I!Closed(run) /\ s3[run].sealed[i] = b /\ I!Frozen(run)' = I!Frozen(run)
        <4>1. I!Closed(run)
          BY <2>18 DEF I!RunIsSound
        <4>2. s3[run].sealed[i] = b
          BY <2>2
        <4>3. I!Frozen(run)' = I!Frozen(run)
          BY <2>13 DEF I!Frozen
        <4>4. QED
          BY <4>1, <4>2, <4>3
      <3>2. ASSUME NEW j \in I!Frozen(run), j # i
            PROVE  /\ s3'[run].adopted[j] = s3[run].adopted[j] /\ s3[run].adopted[j] # 0
                   /\ s1'[s3[run].adopted[j]] = s1[s3[run].adopted[j]]
        <4>1. j \in Entries /\ s3[run].adopted[j] # 0
          BY <3>1 DEF I!Closed, I!Frozen
        <4>2. s3[run].adopted[j] \in I!Ids
          BY <2>18, <4>1 DEF I!RunIsSound
        <4>3. QED
          BY <2>13, <2>15, <2>18, <3>2, <4>1, <4>2
      <3>3. s3'[run].adopted[i] = n /\ s1'[n].input[1] = "dossier" /\ s1'[n].base = s3[run].sealed[i]
        BY <2>10, <2>11, <2>13, <2>15, <2>18, <3>1
      <3>4. ASSUME NEW j \in I!Frozen(run)
            PROVE  /\ \/ s3'[run].stage[j] = "decided"
                      \/ run = <<"semantic">> /\ s3'[run].stage[j] = "queued"
                   /\ s3'[run].adopted[j] # 0
                   /\ \/ s3'[run].adopted[j] = s3'[run].sealed[j]
                      \/ /\ s1'[s3'[run].adopted[j]].input[1] = "dossier"
                         /\ s1'[s3'[run].adopted[j]].base = s3'[run].sealed[j]
        <4>1. CASE j = i
          BY <2>3, <2>13, <2>15, <3>3, <4>1
        <4>2. CASE j # i
          <5>1. s3'[run].stage[j] = s3[run].stage[j] /\ s3'[run].sealed[j] = s3[run].sealed[j]
            BY <2>13
          <5>2. /\ s3'[run].adopted[j] = s3[run].adopted[j] /\ s3[run].adopted[j] # 0
                /\ s1'[s3[run].adopted[j]] = s1[s3[run].adopted[j]]
            BY <3>2, <4>2
          <5>3. /\ \/ s3[run].stage[j] = "decided"
                   \/ run = <<"semantic">> /\ s3[run].stage[j] = "queued"
                /\ \/ s3[run].adopted[j] = s3[run].sealed[j]
                   \/ /\ s1[s3[run].adopted[j]].input[1] = "dossier"
                      /\ s1[s3[run].adopted[j]].base = s3[run].sealed[j]
            BY <3>1 DEF I!Closed, I!Refined
          <5>4. QED
            BY <5>1, <5>2, <5>3
        <4>3. QED
          BY <4>1, <4>2
      <3>5. QED
        BY <3>1, <3>4 DEF I!Closed, I!Refined
    <2>21. I!RunIsSound(run)' /\ Harmless(run) /\ Seals(run)
      <3>1. I!RunIsSound(run)'
        BY <1>1, <2>5, <2>13, <2>17, <2>18, <2>19, <2>20, RunSound
      <3>2. QED
        BY <2>13, <3>1 DEF Harmless, Seals
    <2>22. Steps(p, run)
      BY <1>4, <1>5, <2>5, <2>13, <2>21 DEF Steps
    <2>23. /\ ~(s2[i] # 0 /\ s1[s2[i]].locked) /\ x.base = s2[i]
           /\ s3'[run].stage[i] = "decided" /\ s3'[run].adopted[i] = Len(s1) + 1
           /\ \A j \in Entries : j # i => /\ s3'[run].stage[j] = s3[run].stage[j]
                                         /\ s3'[run].adopted[j] = s3[run].adopted[j]
      BY <2>2, <2>3, <2>7, <2>11, <2>13, <2>18
    <2>24. /\ s3'[x.run].status # "none" /\ x.locked = FALSE /\ x.input[1] # "metadata"
           /\ x.run = <<"backfill">> => I!Matches(x, s3'[x.run].why[i])
      BY <2>5, <2>10, <2>11, <2>12, <2>13
    <2>25. QED
      BY <1>3, <2>8, <2>11, <2>22, <2>23, <2>24, MadeStep
  <1>9. QED
    BY <1>7, <1>8

-----------------------------------------------------------------------------
(* The semantic review.                                                    *)
\* StartReview: the run is created, or what a dead program held is queued again.
LEMMA StartReviewStep ==
  ASSUME I!ClassificationInv, I!StartReview
  PROVE  I!ClassificationInv'
  <1> PICK run \in I!RunIds : run = <<"semantic">>
    BY OnlyRuns
  <1>0. PICK p \in I!Programs : p = "semantic"
    BY DEF I!Programs
  <1>1. I!Typed /\ I!RunIsSound(run) /\ I!Chained /\ run[1] = Kind(p)
    BY <1>0 DEF I!ClassificationInv, Kind
  <1>2. PICK row : row = [I!Idle EXCEPT !.pc = "claim", !.run = run]
    OBVIOUS
  <1>3. I!Go(p, row) /\ UNCHANGED <<s1, s2, I!archive, s7>>
    BY <1>0, <1>2 DEF I!StartReview
  <1>4. row \in I!ProcRows /\ row.pc = "claim" /\ row.run = run
    BY <1>2, RestTyped DEF I!ProcRows, I!ClassificationInv
  <1>5. /\ s6' \in [I!Programs -> I!ProcRows] /\ s6'[p] = row
        /\ \A q \in I!Programs : q # p => s6'[q] = s6[q]
    BY <1>1, <1>3, <1>4, Gone
  <1>6. ArchiveTyped'
    BY <1>1, <1>3 DEF I!Typed, ArchiveTyped, I!archive
  <1>7. CASE s3[run].status = "none"
    <2>1. PICK targets \in SUBSET Entries :
            targets = {i \in Entries : I!Has(i) /\ I!CurrentOf(i).status = "needs_review"
                                                /\ ~I!CurrentOf(i).locked /\ ~s4[i]}
      OBVIOUS
    <2>2. PICK w, g, v :
            /\ w = [i \in Entries |-> IF i \in targets THEN "semantic_review" ELSE "none"]
            /\ g = [i \in Entries |-> IF i \in targets THEN "queued" ELSE "none"]
            /\ v = [i \in Entries |-> IF i \in targets THEN I!inclusion_reason(i) ELSE "none"]
      OBVIOUS
    <2>3. PICK fresh : fresh = [status |-> "created", why |-> w, stage |-> g,
                                adopted |-> [i \in Entries |-> 0],
                                sealed |-> [i \in Entries |-> 0]]
      OBVIOUS
    <2>4. s3' = [s3 EXCEPT ![run] = fresh]
      <3>1. I!Created(targets) =
               [[I!Absent EXCEPT !.status = "created"] EXCEPT !.why = v, !.stage = g]
        BY <2>2 DEF I!Created
      <3>2. I!Created(targets) = [status |-> "created", why |-> v, stage |-> g,
                                adopted |-> [i \in Entries |-> 0],
                                sealed |-> [i \in Entries |-> 0]]
        BY <3>1 DEF I!Absent
      <3>3. fresh = [I!Created(targets) EXCEPT !.why = w]
        BY <2>3, <3>2
      <3>4. I!semantic_target_keys = targets
        BY <2>1 DEF I!semantic_target_keys
      <3>5. QED
        BY <1>7, <2>2, <3>3, <3>4 DEF I!StartReview
    <2>5. /\ w \in [Entries -> I!Whys] /\ g \in [Entries -> I!StageNames]
          /\ \A i \in Entries :
                /\ w[i] \in {"none", "semantic_review"} /\ g[i] \in {"none", "queued"}
                /\ w[i] # "none" => s2[i] # 0 /\ g[i] = "queued"
      BY <2>1, <2>2 DEF I!Whys, I!StageNames, I!Has
    <2>6. fresh \in I!RunRows
      BY <2>3, <2>5 DEF I!RunRows, I!RunStatuses
    <2>7. /\ s3' \in [I!RunIds -> I!RunRows] /\ s3'[run] = fresh
          /\ \A r \in I!RunIds : r # run => s3'[r] = s3[r]
      BY <1>1, <2>4, <2>6 DEF I!Typed
    <2>8. I!RunIsSound(run)'
      BY <1>3, <2>3, <2>5, <2>7 DEF I!RunIsSound
    <2>9. I!InStage(run, "content")' = {}
      BY <2>3, <2>5, <2>7 DEF I!InStage, I!Frozen
    <2>10. I!Knows(p)'
      BY <1>0, <1>4, <1>5, <2>3, <2>7, <2>9 DEF I!Knows
    <2>11. Steps(p, run)
      BY <1>1, <1>5, <1>7, <2>3, <2>7, <2>8, <2>10 DEF Steps, Seals
    <2>12. Owning(run)
      BY <1>7, OwnsKept
    <2>13. QED
      BY <1>3, <1>6, <2>11, <2>12, QuietStep
  <1>8. CASE s3[run].status # "none"
    <2>1. PICK f : f = [i \in Entries |-> IF s3[run].stage[i] = "content" THEN "queued"
                                        ELSE s3[run].stage[i]]
      OBVIOUS
    <2>2. Restage(run, f)
      BY <1>1, <1>8, <2>1 DEF I!StartReview, Restage, I!Typed
    <2>3. /\ f \in [Entries -> I!StageNames]
          /\ \A i \in Entries : f[i] \in {s3[run].stage[i], "queued"} /\ f[i] # "content"
      BY <1>1, <2>1 DEF I!Typed, I!RunRows, I!StageNames
    <2>4. /\ s3' \in [I!RunIds -> I!RunRows]
          /\ \A r \in I!RunIds : r # run => s3'[r] = s3[r]
          /\ s3'[run].status = s3[run].status /\ s3'[run].why = s3[run].why
          /\ s3'[run].stage = f /\ s3'[run].adopted = s3[run].adopted
          /\ s3'[run].sealed = s3[run].sealed
      BY <1>1, <2>2, <2>3, Restaged
    <2>5. Grows
      BY <1>3, <2>4 DEF Grows, I!Ids
    <2>6. s3'[run].status = "completed" => I!Closed(run)'
      <3>1. s3[run].status = "completed" =>
               I!Closed(run) /\ \A j \in I!Frozen(run) : f[j] = s3[run].stage[j]
        BY <1>1, <2>1 DEF I!RunIsSound, I!Closed, I!Frozen
      <3>2. QED
        BY <1>1, <2>4, <2>5, <3>1, ClosedKept
    <2>7. I!RunIsSound(run)'
      BY <1>1, <1>8, <2>3, <2>4, <2>5, <2>6, RunSound
    <2>8. I!InStage(run, "content")' = {}
      BY <2>3, <2>4 DEF I!InStage, I!Frozen
    <2>9. I!Knows(p)'
      BY <1>0, <1>4, <1>5, <1>8, <2>4, <2>8 DEF I!Knows
    <2>10. Steps(p, run)
      BY <1>1, <1>5, <1>8, <2>4, <2>7, <2>9 DEF Steps, Seals
    <2>11. Owning(run)
      BY <2>1, <2>4, OwnsKept
    <2>12. QED
      BY <1>3, <1>6, <2>10, <2>11, QuietStep
  <1>9. QED
    BY <1>7, <1>8

\* ClaimReview: an item is claimed, or the run is done.
LEMMA ClaimReviewStep ==
  ASSUME I!ClassificationInv, I!ClaimReview
  PROVE  I!ClassificationInv'
  <1> PICK run \in I!RunIds : run = <<"semantic">>
    BY OnlyRuns
  <1>0. PICK p \in I!Programs : p = "semantic"
    BY DEF I!Programs
  <1>1. /\ I!Typed /\ I!RunIsSound(run) /\ I!Knows(p) /\ s6[p].pc = "claim" /\ run[1] = Kind(p)
        /\ s6[p] \in I!ProcRows
    BY <1>0 DEF I!ClassificationInv, I!ClaimReview, I!At, Kind, I!Typed
  <1>2. /\ s6[p].run = run /\ s3[run].status # "none" /\ I!InStage(run, "content") = {}
        /\ s3[run].status \in I!RunStatuses /\ s3[run].stage \in [Entries -> I!StageNames]
    BY <1>0, <1>1 DEF I!Knows, I!Typed, I!RunRows
  <1>3. UNCHANGED <<s1, s2, I!archive, s7>>
    BY DEF I!ClaimReview
  <1>4. ArchiveTyped'
    BY <1>1, <1>3 DEF I!Typed, ArchiveTyped, I!archive
  <1>5. CASE I!InStage(run, "queued") = {}
    <2>1. I!Go(p, I!Idle)
      BY <1>0, <1>5 DEF I!ClaimReview, I!Return
    <2>2. /\ s6' \in [I!Programs -> I!ProcRows] /\ s6'[p] = I!Idle
          /\ \A q \in I!Programs : q # p => s6'[q] = s6[q]
      BY <1>1, <2>1, RestTyped, Gone
    <2>3. CASE UNCHANGED s3
      BY <1>3, <1>4, <2>2, <2>3, IdleKnows, StillStep DEF I!tables
    <2>4. CASE I!InStage(run, "failed") = {} /\ Seal(run, "completed")
      <3>1. /\ s3' \in [I!RunIds -> I!RunRows]
            /\ \A r \in I!RunIds : r # run => s3'[r] = s3[r]
            /\ s3'[run].status = "completed" /\ s3'[run].why = s3[run].why
            /\ s3'[run].stage = s3[run].stage /\ s3'[run].adopted = s3[run].adopted
            /\ s3'[run].sealed = s3[run].adopted
        BY <1>1, <2>4, Sealed DEF I!RunStatuses
      <3>2. Grows
        BY <1>3, <3>1 DEF Grows, I!Ids
      <3>3. \A j \in I!Frozen(run) : s3[run].stage[j] = "decided"
        BY <1>1, <1>2, <1>5, <2>4 DEF I!RunIsSound, I!Frozen, I!InStage
      <3>4. \A j \in I!Frozen(run) : s3[run].adopted[j] # 0
        BY <1>1, <3>3 DEF I!RunIsSound, I!Frozen
      <3>5. I!Closed(run)'
        BY <3>1, <3>3, <3>4 DEF I!Closed, I!Completing, I!Frozen
      <3>6. I!RunIsSound(run)'
        BY <1>1, <3>1, <3>2, <3>5, RunSound
      <3>7. Steps(p, run) /\ Owning(run)
        BY <1>1, <2>2, <3>1, <3>6, IdleKnows, OwnsKept DEF Steps, Seals
      <3>8. QED
        BY <1>3, <1>4, <3>7, QuietStep
    <2>5. QED
      BY <1>0, <1>5, <2>3, <2>4 DEF I!ClaimReview, Seal
  <1>6. CASE I!InStage(run, "queued") # {}
    <2>0. PICK j \in I!InStage(run, "queued") :
            /\ s3' = [s3 EXCEPT ![run].status = "running", ![run].stage[j] = "content"]
            /\ I!Go(p, [s6[p] EXCEPT !.pc = "gate", !.item = j])
      BY <1>0, <1>6 DEF I!ClaimReview
    <2>1. ClaimIn(run, j, "content") /\ j \in Entries /\ j \in I!Frozen(run)
          /\ s3[run].stage[j] = "queued"
      BY <2>0 DEF ClaimIn, I!InStage, I!Frozen
    <2>2. /\ s3' \in [I!RunIds -> I!RunRows]
          /\ \A r \in I!RunIds : r # run => s3'[r] = s3[r]
          /\ s3'[run].status = "running" /\ s3'[run].why = s3[run].why
          /\ s3'[run].stage = [s3[run].stage EXCEPT ![j] = "content"]
          /\ s3'[run].adopted = s3[run].adopted
      BY <1>1, <2>1, Claimed DEF I!StageNames
    <2>3. Grows
      BY <1>3, <2>2 DEF Grows, I!Ids
    <2>4. I!RunIsSound(run)'
      BY <1>1, <1>2, <2>2, <2>3, RunSound
    <2>5. [s6[p] EXCEPT !.pc = "gate", !.item = j] \in I!ProcRows
      BY <1>1, <2>1 DEF I!ProcRows
    <2>6. /\ s6' \in [I!Programs -> I!ProcRows]
          /\ \A q \in I!Programs : q # p => s6'[q] = s6[q]
          /\ s6'[p] = [s6[p] EXCEPT !.pc = "gate", !.item = j]
      BY <1>1, <2>0, <2>5, Gone
    <2>7. s6'[p].pc = "gate" /\ s6'[p].run = run /\ s6'[p].item = j
      BY <1>1, <1>2, <2>6 DEF I!ProcRows
    <2>8. I!InStage(run, "content")' = {j}
      BY <1>2, <2>1, <2>2 DEF I!InStage, I!Frozen
    <2>9. I!Knows(p)'
      BY <1>0, <2>2, <2>7, <2>8 DEF I!Knows
    <2>10. Steps(p, run)
      BY <1>1, <2>2, <2>4, <2>6, <2>9 DEF Steps, Seals
    <2>11. Owning(run)
      BY <1>2, <2>1, <2>2, OwnsKept
    <2>12. QED
      BY <1>3, <1>4, <2>10, <2>11, QuietStep
  <1>7. QED
    BY <1>5, <1>6

\* What is known while an item is reviewed.
LEMMA Reviewing ==
  ASSUME I!ClassificationInv, NEW p \in I!Programs, p = "semantic",
         NEW run \in I!RunIds, run = <<"semantic">>, s6[p].pc \in Reviews,
         NEW i \in Entries, i = s6[p].item
  PROVE  /\ I!Typed /\ I!RunIsSound(run) /\ run[1] = Kind(p) /\ s6[p] \in I!ProcRows
         /\ s6[p].run = run /\ s3[run].status = "running" /\ I!InStage(run, "content") = {i}
         /\ s2[i] \in I!Ids /\ s2[i] \in Nat \ {0} /\ s1[s2[i]].item = i
         /\ s6[p].pc = "thinking" => ~s1[s2[i]].locked
         /\ s3[run].stage \in [Entries -> I!StageNames] /\ s3[run].adopted \in [Entries -> Nat]
  <1>1. I!Typed /\ I!RunIsSound(run) /\ I!Knows(p) /\ I!Chained
    BY DEF I!ClassificationInv
  <1>2. run[1] = Kind(p)
    BY DEF Kind
  <1>3. /\ s6[p] \in I!ProcRows /\ s2[i] \in Nat
        /\ s3[run].stage \in [Entries -> I!StageNames] /\ s3[run].adopted \in [Entries -> Nat]
    BY <1>1 DEF I!Typed, I!RunRows
  <1>4. /\ s6[p].run = run /\ s3[run].status = "running" /\ I!InStage(run, "content") = {i}
        /\ s6[p].pc = "thinking" => ~s1[s2[i]].locked
    BY <1>1 DEF I!Knows, I!CurrentOf, Reviews
  <1>5. s2[i] \in I!Ids /\ s1[s2[i]].item = i
    BY Thinking
  <1>6. QED
    BY <1>1, <1>2, <1>3, <1>4, <1>5, InIds

\* Back to the queue of the review, the item being settled or failed.
LEMMA ReviewedKnows ==
  ASSUME I!ClassificationInv, NEW p \in I!Programs, p = "semantic",
         NEW run \in I!RunIds, run = <<"semantic">>, s6[p].pc \in Reviews,
         NEW i \in Entries, i = s6[p].item,
         s3'[run].status = s3[run].status, s3'[run].why = s3[run].why,
         s3'[run].stage[i] # "content",
         \A j \in Entries : j # i => s3'[run].stage[j] = s3[run].stage[j],
         I!Loop(p, "claim")
  PROVE  /\ s6' \in [I!Programs -> I!ProcRows]
         /\ \A q \in I!Programs : q # p => s6'[q] = s6[q]
         /\ I!Knows(p)'
  <1>1. /\ I!Typed /\ s6[p].run = run /\ s3[run].status = "running"
        /\ I!InStage(run, "content") = {i} /\ s3[run].stage \in [Entries -> I!StageNames]
    BY Reviewing
  <1>2. /\ s6' \in [I!Programs -> I!ProcRows]
        /\ \A q \in I!Programs : q # p => s6'[q] = s6[q]
        /\ s6'[p].pc = "claim" /\ s6'[p].run = run
    BY <1>1, LoopTyped
  <1>3. I!InStage(run, "content")' = {}
    BY <1>1 DEF I!InStage, I!Frozen
  <1>4. I!Knows(p)'
    BY <1>1, <1>2, <1>3 DEF I!Knows
  <1>5. QED
    BY <1>2, <1>4

\* The review goes on with an item, and with what it read of it.
LEMMA ReviewingOn ==
  ASSUME I!ClassificationInv, NEW p \in I!Programs, p = "semantic",
         s6[p].pc \in {"gate", "thinking"}, NEW row \in I!ProcRows, I!Go(p, row),
         row.run = s6[p].run, row.item = s6[p].item,
         \/ row.pc = "thinking" /\ ~I!CurrentOf(row.item).locked
         \/ row.pc = "keep" /\ row.seen = s2[row.item]
         \/ row.pc = "adopt" /\ row.seen = s2[row.item] /\ ~I!CurrentOf(row.item).locked,
         UNCHANGED <<I!tables, I!archive, s7>>
  PROVE  I!ClassificationInv'
  <1> PICK run \in I!RunIds : run = <<"semantic">>
    BY OnlyRuns
  <1>1. I!Typed
    BY DEF I!ClassificationInv
  <1> PICK i \in Entries : i = s6[p].item
    BY <1>1, AtRest
  <1>2. /\ s6[p].run = run /\ s3[run].status = "running" /\ I!InStage(run, "content") = {i}
        /\ s2[i] \in I!Ids /\ s1[s2[i]].item = i
    BY Reviewing DEF Reviews
  <1>3. UNCHANGED <<s1, s2, s3>> /\ I!Ids' = I!Ids
    BY DEF I!tables, I!Ids
  <1>4. ArchiveTyped'
    BY <1>1 DEF I!Typed, ArchiveTyped, I!archive
  <1>5. /\ s6' \in [I!Programs -> I!ProcRows] /\ s6'[p] = row
        /\ \A q \in I!Programs : q # p => s6'[q] = s6[q]
    BY <1>1, Gone
  <1>6. I!InStage(run, "content")' = {i} /\ I!CurrentOf(i)' = I!CurrentOf(i)
    BY <1>2, <1>3 DEF I!InStage, I!Frozen, I!CurrentOf
  <1>7. row.pc \in {"keep", "adopt"} => I!Saw(s6[p])'
    BY <1>2, <1>3, <1>5 DEF I!Saw
  <1>8. row.pc = "adopt" => ~s1'[s6'[p].seen].locked
    BY <1>3, <1>5 DEF I!CurrentOf
  <1>9. I!Knows(p)'
    <2>1. /\ s6'[p].pc = row.pc /\ s6'[p].run = run /\ s6'[p].item = i
          /\ row.pc \in {"thinking", "keep", "adopt"}
      BY <1>2, <1>5
    <2>2. s3'[run].status = "running" /\ I!InStage(run, "content")' = {i}
      BY <1>2, <1>3, <1>6
    <2>3. row.pc \in {"keep", "adopt"} => s6'[p].seen \in I!Ids' /\ s1'[s6'[p].seen].item = i
      BY <1>7, <2>1 DEF I!Saw
    <2>4. row.pc = "thinking" => ~I!CurrentOf(i)'.locked
      BY <1>2, <1>5, <1>6, <2>1
    <2>5. QED
      BY <1>8, <2>1, <2>2, <2>3, <2>4 DEF I!Knows, I!Saw
  <1>10. QED
    BY <1>4, <1>5, <1>9, StillStep

\* Gate: the item is to keep its decision, or the model is asked.
LEMMA GateStep ==
  ASSUME I!ClassificationInv, I!Gate
  PROVE  I!ClassificationInv'
  <1>0. PICK p \in I!Programs : p = "semantic"
    BY DEF I!Programs
  <1>1. I!Typed /\ s6[p].pc = "gate" /\ s6[p] \in I!ProcRows
    BY <1>0 DEF I!ClassificationInv, I!Gate, I!At, I!Typed
  <1> PICK i \in Entries : i = s6[p].item
    BY <1>1, AtRest
  <1>2. UNCHANGED <<I!tables, I!archive, s7>> /\ s2[i] \in Nat
    BY <1>1 DEF I!Gate, I!Typed
  <1>3. CASE I!Go(p, [s6[p] EXCEPT !.pc = "keep", !.seen = s2[i]])
    <2>1. PICK row : row = [s6[p] EXCEPT !.pc = "keep", !.seen = s2[i]]
      OBVIOUS
    <2>2. /\ row \in I!ProcRows /\ row.pc = "keep" /\ row.seen = s2[row.item]
          /\ row.run = s6[p].run /\ row.item = s6[p].item
      BY <1>1, <1>2, <2>1 DEF I!ProcRows
    <2>3. I!Go(p, row)
      BY <1>3, <2>1
    <2>4. QED
      BY <1>0, <1>1, <1>2, <2>2, <2>3, ReviewingOn
  <1>4. CASE ~I!CurrentOf(i).locked /\ I!Move(p, "thinking")
    <2>1. PICK row : row = [s6[p] EXCEPT !.pc = "thinking"]
      OBVIOUS
    <2>2. /\ row \in I!ProcRows /\ row.pc = "thinking"
          /\ row.run = s6[p].run /\ row.item = s6[p].item
      BY <1>1, <2>1 DEF I!ProcRows
    <2>3. I!Go(p, row)
      BY <1>1, <1>4, <2>1, <2>2, MovedTo
    <2>4. QED
      BY <1>0, <1>1, <1>2, <1>4, <2>2, <2>3, ReviewingOn
  <1>5. QED
    BY <1>0, <1>3, <1>4 DEF I!Gate

\* Answer: the answer of the model is to be adopted, or the item to keep its own.
LEMMA AnswerStep ==
  ASSUME I!ClassificationInv, I!Answer
  PROVE  I!ClassificationInv'
  <1>0. PICK p \in I!Programs : p = "semantic"
    BY DEF I!Programs
  <1>1. I!Typed /\ I!Knows(p) /\ s6[p].pc = "thinking" /\ s6[p] \in I!ProcRows
    BY <1>0 DEF I!ClassificationInv, I!Answer, I!At, I!Typed
  <1> PICK i \in Entries : i = s6[p].item
    BY <1>1, AtRest
  <1>2. UNCHANGED <<I!tables, I!archive, s7>> /\ s2[i] \in Nat /\ ~I!CurrentOf(i).locked
    BY <1>0, <1>1 DEF I!Answer, I!Typed, I!Knows
  <1>3. PICK place \in {"adopt", "keep"} :
            I!Go(p, [s6[p] EXCEPT !.pc = place, !.seen = s2[i]])
    BY <1>0 DEF I!Answer
  <1>4. PICK row : row = [s6[p] EXCEPT !.pc = place, !.seen = s2[i]]
    OBVIOUS
  <1>5. /\ row \in I!ProcRows /\ row.pc = place /\ row.seen = s2[row.item]
        /\ row.run = s6[p].run /\ row.item = s6[p].item
    BY <1>1, <1>2, <1>4 DEF I!ProcRows
  <1>6. I!Go(p, row)
    BY <1>3, <1>4
  <1>7. QED
    BY <1>0, <1>1, <1>2, <1>5, <1>6, ReviewingOn

\* What the review read of the item it is about to settle.
LEMMA Read ==
  ASSUME I!ClassificationInv, NEW p \in I!Programs, p = "semantic",
         s6[p].pc \in {"keep", "adopt"}
  PROVE  /\ I!Saw(s6[p])
         /\ s6[p].pc = "adopt" => ~s1[s6[p].seen].locked
         /\ s3[<<"semantic">>].stage[s6[p].item] = "content"
  <1>1. I!Knows(p)
    BY DEF I!ClassificationInv
  <1>2. I!Saw(s6[p]) /\ (s6[p].pc = "adopt" => ~s1[s6[p].seen].locked)
    BY <1>1 DEF I!Knows
  <1>3. I!InStage(<<"semantic">>, "content") = {s6[p].item}
    BY <1>1 DEF I!Knows
  <1>4. QED
    BY <1>2, <1>3 DEF I!InStage

\* Keep: the decision that was read is the one of the review.
LEMMA KeepReviewStep ==
  ASSUME I!ClassificationInv, I!Keep("semantic", "claim")
  PROVE  I!ClassificationInv'
  <1> PICK run \in I!RunIds : run = <<"semantic">>
    BY OnlyRuns
  <1>0. PICK p \in I!Programs : p = "semantic"
    BY DEF I!Programs
  <1>t. I!Typed /\ s6[p].pc = "keep" /\ s6[p].pc \in Reviews
    BY <1>0 DEF I!ClassificationInv, I!Keep, I!At, Reviews
  <1> PICK i \in Entries : i = s6[p].item
    BY <1>t, AtRest
  <1>1. /\ run[1] = Kind(p) /\ s6[p].run = run /\ s3[run].status = "running"
        /\ s3[run].stage \in [Entries -> I!StageNames]
    BY <1>0, <1>t, Reviewing
  <1>2. PICK d \in I!Ids : d = s6[p].seen /\ s1[d].item = i
    BY <1>0, <1>t, Read DEF I!Saw
  <1>3. s3[run].stage[i] = "content"
    BY <1>0, <1>t, Read
  <1>4. /\ I!Settle(run, i, d) /\ I!Loop(p, "claim")
        /\ UNCHANGED <<s1, s2, I!archive, s7>>
    BY <1>0, <1>1, <1>2 DEF I!Keep
  <1>5. /\ I!RunIsSound(run)' /\ Owning(run) /\ s3' \in [I!RunIds -> I!RunRows]
        /\ \A r \in I!RunIds : r # run => s3'[r] = s3[r]
        /\ s3'[run].status = s3[run].status /\ s3'[run].why = s3[run].why
        /\ s3'[run].stage = [s3[run].stage EXCEPT ![i] = "decided"]
    BY <1>1, <1>2, <1>3, <1>4, KeptAndSettled
  <1>6. /\ s6' \in [I!Programs -> I!ProcRows]
        /\ \A q \in I!Programs : q # p => s6'[q] = s6[q]
        /\ I!Knows(p)'
    <2>1. /\ s3'[run].status = s3[run].status /\ s3'[run].why = s3[run].why
          /\ s3'[run].stage[i] # "content"
          /\ \A j \in Entries : j # i => s3'[run].stage[j] = s3[run].stage[j]
      BY <1>1, <1>5
    <2>2. QED
      BY <1>0, <1>t, <1>4, <2>1, ReviewedKnows
  <1>7. Steps(p, run)
    BY <1>1, <1>5, <1>6 DEF Steps, Seals
  <1>8. ArchiveTyped'
    BY <1>t, <1>4 DEF I!Typed, ArchiveTyped, I!archive
  <1>9. QED
    BY <1>4, <1>5, <1>7, <1>8, QuietStep

\* AdoptAnswer: the answer succeeds the decision that was read, or the item fails.
LEMMA AdoptAnswerStep ==
  ASSUME I!ClassificationInv, I!AdoptAnswer
  PROVE  I!ClassificationInv'
  <1> PICK run \in I!RunIds : run = <<"semantic">>
    BY OnlyRuns
  <1>0. PICK p \in I!Programs : p = "semantic"
    BY DEF I!Programs
  <1>t. I!Typed /\ s6[p].pc = "adopt" /\ s6[p].pc \in Reviews
    BY <1>0 DEF I!ClassificationInv, I!AdoptAnswer, I!At, Reviews
  <1> PICK i \in Entries : i = s6[p].item
    BY <1>t, AtRest
  <1>1. /\ I!RunIsSound(run) /\ run[1] = Kind(p) /\ s6[p].run = run
        /\ s3[run].status = "running" /\ s3[run].stage \in [Entries -> I!StageNames]
    BY <1>0, <1>t, Reviewing
  <1>2. PICK d \in I!Ids : d = s6[p].seen /\ s1[d].item = i /\ ~s1[d].locked
    BY <1>0, <1>t, Read DEF I!Saw
  <1>3. s3[run].stage[i] = "content" /\ d \in Nat \ {0}
    BY <1>0, <1>t, Read, InIds
  <1>4. I!Loop(p, "claim") /\ UNCHANGED <<I!archive, s7>>
    BY <1>0 DEF I!AdoptAnswer
  <1>5. ArchiveTyped'
    BY <1>t, <1>4 DEF I!Typed, ArchiveTyped, I!archive
  <1>6. CASE I!Swappable(i, s6[p].seen)
    <2>1. PICK x : x = I!Decision(i, run, "classified", <<"semantic">>, d)
      OBVIOUS
    <2>2. I!Swap(i, x) /\ I!Settle(run, i, Len(s1) + 1) /\ s2[i] = d
      BY <1>0, <1>2, <1>6, <2>1 DEF I!AdoptAnswer, I!Swappable
    <2>3. PICK input : input = <<"semantic">>
      OBVIOUS
    <2>4. input \in I!InputKinds /\ input[1] = "semantic" /\ I!Rules(run) \in I!RuleNames
      BY <2>3, RulesOf DEF I!InputKinds
    <2>5. /\ x \in I!DecisionRows /\ x.item = i /\ x.run = run /\ x.base = s2[i]
          /\ x.locked = FALSE /\ x.status = "classified" /\ x.input = input
      BY <1>3, <2>1, <2>2, <2>3, <2>4 DEF I!Decision, I!DecisionRows, I!Statuses
    <2>6. s3[run].status # "completed" /\ run # <<"backfill">>
      BY <1>1
    <2>7. /\ I!RunIsSound(run)' /\ s3' \in [I!RunIds -> I!RunRows]
          /\ \A r \in I!RunIds : r # run => s3'[r] = s3[r]
          /\ s3'[run].status = s3[run].status /\ s3'[run].why = s3[run].why
          /\ s3'[run].stage = [s3[run].stage EXCEPT ![i] = "decided"]
          /\ s3'[run].stage[i] = "decided" /\ s3'[run].adopted[i] = Len(s1) + 1
          /\ \A j \in Entries : j # i => /\ s3'[run].stage[j] = s3[run].stage[j]
                                        /\ s3'[run].adopted[j] = s3[run].adopted[j]
      BY <2>2, <2>5, <2>6, MadeAndSettled
    <2>8. /\ s6' \in [I!Programs -> I!ProcRows]
          /\ \A q \in I!Programs : q # p => s6'[q] = s6[q]
          /\ I!Knows(p)'
      <3>1. /\ s3'[run].status = s3[run].status /\ s3'[run].why = s3[run].why
            /\ s3'[run].stage[i] # "content"
            /\ \A j \in Entries : j # i => s3'[run].stage[j] = s3[run].stage[j]
        BY <2>7
      <3>2. QED
        BY <1>0, <1>t, <1>4, <3>1, ReviewedKnows
    <2>9. Steps(p, run)
      BY <1>1, <2>7, <2>8 DEF Steps, Seals
    <2>10. /\ s3'[x.run].status # "none" /\ x.run # <<"backfill">> /\ x.input[1] # "metadata"
           /\ ~(s2[i] # 0 /\ s1[s2[i]].locked)
      BY <1>1, <1>2, <2>2, <2>4, <2>5, <2>6, <2>7
    <2>11. /\ s3'[run].stage[i] = "decided" /\ s3'[run].adopted[i] = Len(s1) + 1
           /\ \A j \in Entries : j # i => /\ s3'[run].stage[j] = s3[run].stage[j]
                                         /\ s3'[run].adopted[j] = s3[run].adopted[j]
      BY <2>7
    <2>12. QED
      BY <1>0, <1>5, <2>2, <2>5, <2>9, <2>10, <2>11, MadeStep
  <1>7. CASE ~I!Swappable(i, s6[p].seen)
    <2>1. I!SetStage(run, i, "failed") /\ UNCHANGED <<s1, s2>>
      BY <1>0, <1>7 DEF I!AdoptAnswer
    <2>2. /\ s3' \in [I!RunIds -> I!RunRows]
          /\ \A r \in I!RunIds : r # run => s3'[r] = s3[r]
          /\ s3'[run].status = s3[run].status /\ s3'[run].why = s3[run].why
          /\ s3'[run].stage = [s3[run].stage EXCEPT ![i] = "failed"]
          /\ s3'[run].adopted = s3[run].adopted
      BY <1>t, <2>1, Staged DEF I!StageNames
    <2>3. Grows
      BY <2>1, <2>2 DEF Grows, I!Ids
    <2>4. I!RunIsSound(run)'
      BY <1>t, <1>1, <2>2, <2>3, RunSound
    <2>5. /\ s6' \in [I!Programs -> I!ProcRows]
          /\ \A q \in I!Programs : q # p => s6'[q] = s6[q]
          /\ I!Knows(p)'
      BY <1>0, <1>t, <1>1, <1>4, <2>2, ReviewedKnows
    <2>6. Steps(p, run) /\ Owning(run)
      BY <1>1, <1>3, <2>2, <2>4, <2>5, OwnsKept DEF Steps, Seals
    <2>7. QED
      BY <1>5, <2>1, <2>6, QuietStep
  <1>8. QED
    BY <1>6, <1>7

\* RetryRejected: what was refused is queued again, in a closed run too.
LEMMA RetryRejectedStep ==
  ASSUME I!ClassificationInv, NEW rejected \in SUBSET Entries, I!RetryRejected(rejected)
  PROVE  I!ClassificationInv'
  <1> PICK run \in I!RunIds : run = <<"semantic">>
    BY OnlyRuns
  <1>0. PICK p \in I!Programs : p = "semantic"
    BY DEF I!Programs
  <1>1. I!Typed /\ I!RunIsSound(run) /\ I!Knows(p) /\ run[1] = Kind(p)
    BY <1>0 DEF I!ClassificationInv, Kind
  <1>2. UNCHANGED <<s1, s2, I!archive, s6, s7>>
    BY DEF I!RetryRejected
  <1>3. \A i \in rejected : /\ s3[run].stage[i] = "decided" /\ s3[run].why[i] # "none"
                         /\ s1[s3[run].adopted[i]].run # run
    BY DEF I!RetryRejected, I!InStage, I!Frozen
  <1>4. PICK f : f = [i \in Entries |-> IF i \in rejected THEN "queued" ELSE s3[run].stage[i]]
    OBVIOUS
  <1>5. Restage(run, f)
    BY <1>1, <1>4 DEF I!RetryRejected, Restage, I!Typed
  <1>6. /\ f \in [Entries -> I!StageNames]
        /\ \A i \in Entries : f[i] \in {s3[run].stage[i], "queued"}
    BY <1>1, <1>4 DEF I!Typed, I!RunRows, I!StageNames
  <1>7. /\ s3' \in [I!RunIds -> I!RunRows]
        /\ \A r \in I!RunIds : r # run => s3'[r] = s3[r]
        /\ s3'[run].status = s3[run].status /\ s3'[run].why = s3[run].why
        /\ s3'[run].stage = f /\ s3'[run].adopted = s3[run].adopted
        /\ s3'[run].sealed = s3[run].sealed
    BY <1>1, <1>5, <1>6, Restaged
  <1>8. Grows
    BY <1>2, <1>7 DEF Grows, I!Ids
  <1>9. I!Frozen(run)' = I!Frozen(run)
    BY <1>7 DEF I!Frozen
  <1>10. s3'[run].status = "completed" => I!Closed(run)'
    <2> SUFFICES ASSUME s3[run].status = "completed"
                 PROVE  I!Closed(run)'
      BY <1>7
    <2>1. I!Closed(run)
      BY <1>1 DEF I!RunIsSound
    <2>2. \A i \in I!Frozen(run) : f[i] \in {s3[run].stage[i], "queued"}
      BY <1>6 DEF I!Frozen
    <2>3. QED
      BY <1>2, <1>7, <1>9, <2>1, <2>2 DEF I!Closed, I!Refined
  <1>11. I!RunIsSound(run)'
    BY <1>1, <1>6, <1>7, <1>8, <1>10, RunSound
  <1>12. I!InStage(run, "content")' = I!InStage(run, "content")
    BY <1>3, <1>4, <1>7, <1>9 DEF I!InStage, I!Frozen
  <1>13. I!Knows(p)'
    <2>1. I!Ids' = I!Ids /\ I!CurrentOf(s6[p].item)' = I!CurrentOf(s6[p].item)
      BY <1>2 DEF I!Ids, I!CurrentOf
    <2>2. QED
      BY <1>0, <1>1, <1>2, <1>7, <1>12, <2>1 DEF I!Knows, I!Saw
  <1>14. Steps(p, run)
    BY <1>1, <1>2, <1>7, <1>11, <1>13 DEF Steps, Seals, I!Typed
  <1>15. Owning(run)
    BY <1>3, <1>4, <1>7, OwnsKept
  <1>16. ArchiveTyped'
    BY <1>1, <1>2 DEF I!Typed, ArchiveTyped, I!archive
  <1>17. QED
    BY <1>2, <1>14, <1>15, <1>16, QuietStep

\* FailReview: an item fails.
LEMMA FailReviewStep ==
  ASSUME I!ClassificationInv, I!FailReview
  PROVE  I!ClassificationInv'
  <1> PICK run \in I!RunIds : run = <<"semantic">>
    BY OnlyRuns
  <1>0. PICK p \in I!Programs : p = "semantic"
    BY DEF I!Programs
  <1>t. I!Typed /\ I!Knows(p) /\ s6[p].pc \in Reviews
    BY <1>0 DEF I!ClassificationInv, I!FailReview, Reviews
  <1> PICK i \in Entries : i = s6[p].item
    BY <1>t, AtRest
  <1>1. /\ I!RunIsSound(run) /\ run[1] = Kind(p) /\ s3[run].status = "running"
        /\ s3[run].stage \in [Entries -> I!StageNames] /\ I!InStage(run, "content") = {i}
    BY <1>0, <1>t, Reviewing
  <1>2. /\ I!SetStage(run, i, "failed") /\ I!Loop(p, "claim")
        /\ UNCHANGED <<s1, s2, I!archive>>
        /\ I!Fault
    BY <1>0 DEF I!FailReview
  <1>3. /\ s3' \in [I!RunIds -> I!RunRows]
        /\ \A r \in I!RunIds : r # run => s3'[r] = s3[r]
        /\ s3'[run].status = s3[run].status /\ s3'[run].why = s3[run].why
        /\ s3'[run].stage = [s3[run].stage EXCEPT ![i] = "failed"]
        /\ s3'[run].adopted = s3[run].adopted
    BY <1>t, <1>2, Staged DEF I!StageNames
  <1>4. Grows
    BY <1>2, <1>3 DEF Grows, I!Ids
  <1>5. I!RunIsSound(run)'
    BY <1>t, <1>1, <1>3, <1>4, RunSound
  <1>6. /\ s6' \in [I!Programs -> I!ProcRows]
        /\ \A q \in I!Programs : q # p => s6'[q] = s6[q]
        /\ I!Knows(p)'
    <2>1. /\ s3'[run].status = s3[run].status /\ s3'[run].why = s3[run].why
          /\ s3'[run].stage[i] # "content"
          /\ \A j \in Entries : j # i => s3'[run].stage[j] = s3[run].stage[j]
      BY <1>1, <1>3
    <2>2. QED
      BY <1>0, <1>t, <1>2, <2>1, ReviewedKnows
  <1>7. Steps(p, run)
    BY <1>1, <1>3, <1>5, <1>6 DEF Steps, Seals
  <1>8. ArchiveTyped'
    BY <1>t, <1>2, Faulted
  <1>9. Owning(run)
    <2>1. s3[run].stage[i] = "content"
      BY <1>1 DEF I!InStage
    <2>2. QED
      BY <1>1, <1>3, <2>1, OwnsKept
  <1>10. QED
    BY <1>2, <1>7, <1>8, <1>9, QuietStep

-----------------------------------------------------------------------------
(* The console, the archive, and crashes.                                  *)
\* A change leaves the bounds as they are.
LEMMA Changed ==
  ASSUME I!Typed, I!Change, MaxChanges \in Nat
  PROVE  /\ s7' \in [changes : 0..MaxChanges, faults : Nat]
         /\ s7'.changes = s7.changes + 1
         /\ s7.changes \in Nat /\ s7.changes + 1 \in 1..MaxChanges
  <1>1. s7 \in [changes : 0..MaxChanges, faults : Nat] /\ s7.changes < MaxChanges
        /\ s7' = [s7 EXCEPT !.changes = @ + 1]
    BY DEF I!Typed, I!Change
  <1>2. s7.changes \in Nat /\ s7.changes + 1 \in 1..MaxChanges
    BY <1>1
  <1>3. QED
    BY <1>1, <1>2

\* StartManual: a run of its own for each manual decision.
LEMMA StartManualStep ==
  ASSUME I!ClassificationInv, MaxChanges \in Nat, NEW i \in Entries, I!StartManual(i)
  PROVE  I!ClassificationInv'
  <1>0. PICK p \in I!Programs : p = "web"
    BY DEF I!Programs
  <1>1. I!Typed /\ UNCHANGED <<s1, s2, I!archive>> /\ I!Change
    BY DEF I!ClassificationInv, I!StartManual
  <1>2. ArchiveTyped' /\ s7.changes + 1 \in 1..MaxChanges
    BY <1>1, Changed DEF I!Typed, ArchiveTyped, I!archive
  <1>a. PICK n \in 1..MaxChanges : n = s7.changes + 1
    BY <1>2
  <1>b. <<"manual", n>> \in I!RunIds
    BY DEF I!RunIds
  <1>3. PICK run \in I!RunIds : run = <<"manual", s7.changes + 1>>
    BY <1>a, <1>b
  <1>4. run[1] = "manual" /\ run[1] = Kind(p) /\ run # <<"semantic">> /\ I!RunIsSound(run)
    BY <1>0, <1>3 DEF I!ClassificationInv, Kind
  <1>5. PICK row : row = [I!Idle EXCEPT !.pc = "set", !.run = run, !.item = i]
    OBVIOUS
  <1>6. I!create_run(run, {i}) /\ I!Go(p, row)
    BY <1>0, <1>3, <1>5 DEF I!StartManual
  <1>7. /\ I!RunIsSound(run)' /\ s3' \in [I!RunIds -> I!RunRows]
        /\ \A r \in I!RunIds : r # run => s3'[r] = s3[r]
        /\ s3'[run].status # "none"
        /\ s3[run].status # "none" => s3'[run].why = s3[run].why
        /\ s3[run].status = "none" \/ s3'[run] = s3[run]
        /\ Seals(run)
    BY <1>1, <1>4, <1>6, CreatedSound
  <1>8. row \in I!ProcRows /\ row.pc = "set" /\ row.run = run
    BY <1>5, RestTyped DEF I!ProcRows, I!ClassificationInv
  <1>9. /\ s6' \in [I!Programs -> I!ProcRows] /\ s6'[p] = row
        /\ \A q \in I!Programs : q # p => s6'[q] = s6[q]
    BY <1>1, <1>6, <1>8, Gone
  <1>10. I!Knows(p)'
    BY <1>0, <1>4, <1>7, <1>8, <1>9 DEF I!Knows
  <1>11. Steps(p, run)
    BY <1>4, <1>7, <1>9, <1>10 DEF Steps
  <1>12. Owning(run)
    BY <1>7, OwnsKept
  <1>13. QED
    BY <1>1, <1>2, <1>11, <1>12, QuietStep

\* SetManual: the manual decision.
LEMMA SetManualStep ==
  ASSUME I!ClassificationInv, I!SetManual, MaxChanges \in Nat
  PROVE  I!ClassificationInv'
  <1>0. PICK p \in I!Programs : p = "web"
    BY DEF I!Programs
  <1>t. I!Typed /\ I!Knows(p) /\ s6[p].pc = "set" /\ I!Chained
    BY <1>0 DEF I!ClassificationInv, I!SetManual, I!At
  <1> PICK run \in I!RunIds, i \in Entries : run = s6[p].run /\ i = s6[p].item
    BY <1>t, AtRest
  <1>1. /\ run[1] = "manual" /\ run[1] = Kind(p) /\ s3[run].status # "none" /\ I!RunIsSound(run)
        /\ run \notin I!Completing
    BY <1>0, <1>t DEF I!ClassificationInv, I!Knows, Kind, I!Completing
  <1>2. PICK x : x = [I!Decision(i, run, "classified", run, s2[i]) EXCEPT !.locked = TRUE]
    OBVIOUS
  <1>3. /\ I!Swap(i, x) /\ I!Settle(run, i, Len(s1) + 1) /\ I!Go(p, I!Idle)
        /\ UNCHANGED <<I!archive, s7>> /\ s6["semantic"].pc # "thinking"
    BY <1>0, <1>2 DEF I!SetManual, I!Return
  <1>4. ArchiveTyped'
    BY <1>t, <1>3 DEF I!Typed, ArchiveTyped, I!archive
  <1>5. run \in I!InputKinds /\ I!Rules(run) \in I!RuleNames /\ s2[i] \in Nat
    <2>1. run \in {"manual"} \X Nat
      BY <1>1 DEF I!RunIds
    <2>2. QED
      BY <1>t, <2>1, RulesOf DEF I!InputKinds, I!Typed
  <1>6. /\ x \in I!DecisionRows /\ x.item = i /\ x.run = run /\ x.base = s2[i]
        /\ x.locked = TRUE /\ x.status = "classified" /\ x.input = run
    BY <1>2, <1>5 DEF I!Decision, I!DecisionRows, I!Statuses
  <1>7. s3[run].status # "completed" /\ run # <<"backfill">>
    BY <1>1 DEF I!RunIsSound, I!Closed, I!Completing
  <1>8. /\ I!RunIsSound(run)' /\ s3' \in [I!RunIds -> I!RunRows]
        /\ \A r \in I!RunIds : r # run => s3'[r] = s3[r]
        /\ s3'[run].status = s3[run].status /\ s3'[run].why = s3[run].why
        /\ s3'[run].stage[i] = "decided" /\ s3'[run].adopted[i] = Len(s1) + 1
        /\ \A j \in Entries : j # i => /\ s3'[run].stage[j] = s3[run].stage[j]
                                      /\ s3'[run].adopted[j] = s3[run].adopted[j]
    <2>1. x \in I!DecisionRows /\ x.item = i
      BY <1>6
    <2>2. I!Swap(i, x) /\ I!Settle(run, i, Len(s1) + 1)
      BY <1>3
    <2>3. QED
      BY <1>7, <2>1, <2>2, MadeAndSettled
  <1>9. /\ s6' \in [I!Programs -> I!ProcRows] /\ s6'[p] = I!Idle
        /\ \A q \in I!Programs : q # p => s6'[q] = s6[q]
    BY <1>t, <1>3, RestTyped, Gone
  <1>10. Steps(p, run)
    BY <1>1, <1>7, <1>8, <1>9, IdleKnows DEF Steps, Seals
  <1>11. s3'[x.run].status # "none" /\ x.run # <<"backfill">> /\ x.input[1] # "metadata"
    BY <1>1, <1>6, <1>7, <1>8
  <1>12. QED
    BY <1>3, <1>4, <1>6, <1>8, <1>10, <1>11, MadeStep

\* Recapture and ChangePolicy change only the archive.
LEMMA ArchiveChangeStep ==
  ASSUME I!ClassificationInv, MaxChanges \in Nat, NEW i \in Entries,
         I!Recapture(i) \/ I!ChangePolicy(i)
  PROVE  I!ClassificationInv'
  <1>0. PICK p \in I!Programs : p = "web"
    BY DEF I!Programs
  <1>1. I!Typed /\ I!Knows(p) /\ UNCHANGED <<I!tables, s6>> /\ I!Change
    BY DEF I!ClassificationInv, I!Recapture, I!ChangePolicy
  <1>2. UNCHANGED <<s1, s2, s3, s6>>
    BY <1>1 DEF I!tables
  <1>5. \A j \in Entries : s5[j] \in Nat /\ s5[j] <= s7.changes + 1
    BY <1>1 DEF I!Typed
  <1>6. ArchiveTyped'
    <2>1. /\ s7' \in [changes : 0..MaxChanges, faults : Nat]
          /\ s7'.changes = s7.changes + 1 /\ s7.changes \in Nat
      BY <1>1, Changed
    <2>2. CASE UNCHANGED s4 /\ s5' = [s5 EXCEPT ![i] = @ + 1]
      BY <1>1, <1>5, <2>1, <2>2 DEF I!Typed, ArchiveTyped
    <2>3. CASE UNCHANGED s5 /\ s4' = [s4 EXCEPT ![i] = ~@]
      <3>1. s4' \in [Entries -> BOOLEAN]
        BY <1>1, <2>3 DEF I!Typed
      <3>2. QED
        BY <1>1, <1>5, <2>1, <2>3, <3>1 DEF I!Typed, ArchiveTyped
    <2>4. QED
      BY <2>2, <2>3 DEF I!Recapture, I!ChangePolicy
  <1>7. Grows /\ Harmless(s6[p].run)
    BY <1>2 DEF Grows, I!Ids, Harmless
  <1>8. I!Knows(p)'
    BY <1>0, <1>1, <1>2, <1>7, KnowsKept DEF Refining
  <1>9. QED
    BY <1>1, <1>2, <1>6, <1>8, StillStep DEF I!Typed

\* A crash: the program starts again.
LEMMA CrashStep ==
  ASSUME I!ClassificationInv, NEW p \in I!Programs, I!Crash(p)
  PROVE  I!ClassificationInv'
  <1>1. I!Typed /\ I!Go(p, I!Idle) /\ UNCHANGED <<I!tables, I!archive>>
    BY DEF I!ClassificationInv, I!Crash, I!Return
  <1>3. ArchiveTyped'
    BY <1>1, Faulted DEF I!Crash
  <1>4. /\ s6' \in [I!Programs -> I!ProcRows] /\ s6'[p] = I!Idle
        /\ \A q \in I!Programs : q # p => s6'[q] = s6[q]
    BY <1>1, RestTyped, Gone
  <1>5. QED
    BY <1>1, <1>3, <1>4, IdleKnows, StillStep

-----------------------------------------------------------------------------
(* The invariant.                                                          *)
\* The invariant holds at first, where there is an item to classify.
LEMMA ClassificationInit ==
  ASSUME I!Init, Entries # {}, MaxChanges \in Nat
  PROVE  I!ClassificationInv
  <1>1. \A run \in I!RunIds : s3[run] = I!Absent
    BY DEF I!Init
  <1>2. I!Absent \in I!RunRows /\ I!Absent.status = "none"
        /\ \A i \in Entries : I!Absent.adopted[i] = 0 /\ I!Absent.stage[i] = "none"
                            /\ I!Absent.why[i] = "none"
    BY DEF I!Absent, I!RunRows, I!RunStatuses, I!Whys, I!StageNames
  <1>3. s1 \in Seq(I!DecisionRows) /\ I!Ids = {}
    BY DEF I!Init, I!Ids
  <1>4. I!Typed
    <2>1. /\ s3 \in [I!RunIds -> I!RunRows] /\ s6 \in [I!Programs -> I!ProcRows]
          /\ s4 \in [Entries -> BOOLEAN]
      BY <1>2, IdleTyped DEF I!Init
    <2>2. QED
      BY <1>3, <2>1 DEF I!Init, I!Typed
  <1>5. I!Chained
    BY <1>3 DEF I!Init, I!Chained, I!LocksHold, I!OneChain
  <1>6. \A run \in I!RunIds : I!RunIsSound(run)
    BY <1>1, <1>2 DEF I!RunIsSound
  <1>7. \A p \in I!Programs : I!Knows(p)
    <2>1. /\ \A p \in I!Programs : s6[p] = I!Idle
          /\ I!Idle.pc = "idle" /\ I!Idle.run = <<"backfill">>
      BY DEF I!Init, I!Idle
    <2>2. QED
      BY <2>1 DEF I!Knows, I!Programs
  <1>8. QED
    BY <1>3, <1>4, <1>5, <1>6, <1>7 DEF I!ClassificationInv, I!Owned

\* It holds after a step that changes nothing.
LEMMA ClassificationStutter ==
  ASSUME I!ClassificationInv, UNCHANGED I!vars
  PROVE  I!ClassificationInv'
  <1>0. PICK p \in I!Programs : p = "web"
    BY DEF I!Programs
  <1>1. I!Typed /\ I!Knows(p) /\ UNCHANGED <<I!tables, I!archive, s6, s7>>
    BY DEF I!ClassificationInv, I!vars
  <1>2. UNCHANGED <<s1, s2, s3>>
    BY <1>1 DEF I!tables
  <1>3. ArchiveTyped'
    BY <1>1 DEF I!Typed, ArchiveTyped, I!archive
  <1>4. Grows /\ Harmless(s6[p].run)
    BY <1>2 DEF Grows, I!Ids, Harmless
  <1>5. I!Knows(p)'
    BY <1>0, <1>1, <1>2, <1>4, KnowsKept DEF Refining
  <1>6. QED
    BY <1>1, <1>3, <1>5, StillStep DEF I!Typed

\* It holds after every step, while no person decides as a model thinks.
LEMMA ClassificationNext ==
  ASSUME I!ClassificationInv, [I!Next]_(I!vars), MaxChanges \in Nat
  PROVE  I!ClassificationInv'
  <1>1. CASE I!Claim("pipeline", "refine") \/ I!Claim("backfill", "report")
    BY <1>1, ClaimStep
  <1>2. ASSUME NEW p \in {"pipeline", "backfill"}, I!Decide(p) \/ I!Adopt(p) \/ I!Fail(p)
        PROVE  I!ClassificationInv'
    BY <1>2, DecideStep, AdoptStep, FailStep
  <1>3. CASE I!StartBackfill \/ I!Resume \/ I!BuildReport \/ I!Complete
    BY <1>3, StartBackfillStep, ResumeStep, BuildReportStep, CompleteStep
  <1>4. ASSUME NEW i \in Entries,
               I!Look(i) \/ I!StartManual(i) \/ I!Recapture(i) \/ I!ChangePolicy(i)
        PROVE  I!ClassificationInv'
    BY <1>4, LookStep, StartManualStep, ArchiveChangeStep
  <1>5. CASE I!CreatePipelineRun \/ I!Refine \/ I!CheckRefined \/ I!AdoptRefined
    BY <1>5, CreatePipelineRunStep, RefineStep, CheckRefinedStep, AdoptRefinedStep
  <1>6. CASE I!StartReview \/ I!ClaimReview \/ I!Gate \/ I!Answer \/ I!AdoptAnswer \/ I!FailReview
    BY <1>6, StartReviewStep, ClaimReviewStep, GateStep, AnswerStep, AdoptAnswerStep, FailReviewStep
  <1>7. CASE I!SetManual
    BY <1>7, SetManualStep
  <1>8. ASSUME NEW p \in I!Programs, I!Crash(p)
        PROVE  I!ClassificationInv'
    BY <1>8, CrashStep
  <1>9. CASE I!Keep("pipeline", "process") \/ I!Keep("backfill", "process")
             \/ I!Keep("semantic", "claim")
    BY <1>9, KeepStep, KeepReviewStep
  <1>10. ASSUME NEW rejected \in SUBSET Entries, I!RetryRejected(rejected)
         PROVE  I!ClassificationInv'
    BY <1>10, RetryRejectedStep
  <1>11. CASE UNCHANGED I!vars
    BY <1>11, ClassificationStutter
  <1>12. QED
    BY <1>1, <1>2, <1>3, <1>4, <1>5, <1>6, <1>7, <1>8, <1>9, <1>10, <1>11 DEF I!Next

\* And it implies what it is for.
LEMMA ClassificationHolds ==
  ASSUME I!ClassificationInv
  PROVE  I!ClassificationIsSound
  <1>1. I!LocksHold /\ I!OneChain
    BY DEF I!ClassificationInv, I!Chained
  <1>2. ASSUME NEW run \in I!RunIds, s3[run].status = "completed", NEW i \in I!Frozen(run)
        PROVE  LET r == s3[run]
                   d == s1[r.adopted[i]]
               IN  /\ r.stage[i] = "decided" \/ (run = <<"semantic">> /\ r.stage[i] = "queued")
                   /\ r.adopted[i] \in I!Ids /\ d.item = i
                   /\ r.adopted[i] = r.sealed[i] \/ (d.input[1] = "dossier" /\ d.base = r.sealed[i])
                   /\ run = <<"backfill">> => (d.status = "excluded") = (r.why[i] = "excluded")
    <2>1. I!RunIsSound(run) /\ I!Closed(run) /\ i \in Entries
      BY <1>2 DEF I!ClassificationInv, I!RunIsSound, I!Frozen
    <2>2. QED
      BY <2>1 DEF I!RunIsSound, I!Closed, I!Refined, I!Matches
  <1>3. I!CompletedRunsStand
    BY <1>2 DEF I!CompletedRunsStand
  <1>4. QED
    BY <1>1, <1>3 DEF I!ClassificationIsSound


(***************************************************************************)
(* The rules of the metadata.                                              *)
(***************************************************************************)
LEMMA SizesOfValues ==
  \A S : MR!Cardinality(S) = Cardinality(S) /\ (MR!IsFiniteSet(S) <=> IsFiniteSet(S))
  BY DEF MR!Cardinality, Cardinality, MR!IsFiniteSet, IsFiniteSet

\* What all of some evidence agrees on, a piece of it says.
LEMMA AgreedIsSaid ==
  ASSUME NEW W, NEW field, MR!Agreed(W, field) # "none"
  PROVE  \E e \in W : e[field] = MR!Agreed(W, field)
  <1> DEFINE values == MR!Values(W, field)
  <1>1. /\ MR!Cardinality(values) = 1
        /\ MR!Agreed(W, field) = CHOOSE v \in values : TRUE
    BY DEF MR!Agreed
  <1>2. values # {}
    BY <1>1, FS_EmptySet, SizesOfValues
  <1>3. (CHOOSE v \in values : TRUE) \in values
    BY <1>2
  <1>4. QED
    BY <1>1, <1>3 DEF MR!Values

\* The issuers an item names.
NamedBy(i) ==
    {rule.issuer : rule \in i.rules} \cup {i.issuer}
      \cup {template.issuer : template \in i.templates}

\* Every piece of evidence has a rank; an issuer it brings is one the item
\* names, and if it is a person the evidence blocks.
LEMMA EvidenceOfItem ==
  ASSUME NEW i, NEW e \in MR!collect_metadata_evidence(i)
  PROVE  /\ e.priority \in Nat
         /\ e.issuer # "none" => e.issuer \in NamedBy(i) /\ (e.issuer \in Persons => e.blocks)
  <1>1. CASE \E rule \in i.rules : e = MR!document_evidence(rule)
    <2>1. PICK rule \in i.rules : e = MR!document_evidence(rule)
      BY <1>1
    <2>2. e.priority = 1 /\ e.issuer \in {"none", rule.issuer}
      BY <2>1 DEF MR!document_evidence, MR!Says
    <2>3. e.blocks = (rule.issuer \in Persons)
      BY <2>1 DEF MR!document_evidence, MR!Says
    <2>4. rule.issuer \in Persons => e.blocks
      BY <2>3, Zenon
    <2>5. QED
      BY <2>2, <2>4 DEF NamedBy
  <1>2. CASE e = MR!issuer_evidence(i.issuer)
    BY <1>2, Zenon DEF MR!issuer_evidence, MR!Says, NamedBy
  <1>3. CASE e = [MR!Says("file_transfer", 2, 95) EXCEPT
                    !.origin = "external", !.flow = "transfer"]
    BY <1>3 DEF MR!Says
  <1>4. CASE \E template \in i.templates : e = MR!template_evidence(template)
    <2>1. PICK template \in i.templates : e = MR!template_evidence(template)
      BY <1>4
    <2>2. e.priority \in Nat /\ e.issuer \in {"none", template.issuer}
      BY <2>1 DEF MR!template_evidence, MR!Says
    <2>3. template.origin = "external" => e.blocks = (template.issuer \in Persons)
      BY <2>1 DEF MR!template_evidence, MR!Says
    <2>4. template.origin # "external" => e.issuer = "none"
      BY <2>1 DEF MR!template_evidence, MR!Says
    <2>5. QED
      BY <2>2, <2>3, <2>4, Zenon DEF NamedBy
  <1>5. CASE e = MR!initiator_evidence(i.initiator)
    BY <1>5 DEF MR!initiator_evidence, MR!Says
  <1>6. CASE \E n \in DOMAIN i.hops : e = MR!transfer_evidence(i.hops[n])
    BY <1>6 DEF MR!transfer_evidence, MR!Says
  <1>7. QED
    BY <1>1, <1>2, <1>3, <1>4, <1>5, <1>6 DEF MR!collect_metadata_evidence

\* The initiator is one of the people the evidence names.
LEMMA InitiatorIsNamed ==
  ASSUME NEW i, i.initiator.id # "none"
  PROVE  i.initiator.id \in MR!Values(MR!collect_metadata_evidence(i), "person")
  <1>1. MR!initiator_evidence(i.initiator) \in MR!collect_metadata_evidence(i)
    BY DEF MR!collect_metadata_evidence
  <1>2. MR!initiator_evidence(i.initiator)["person"] = i.initiator.id
    BY DEF MR!initiator_evidence, MR!Says
  <1>3. QED
    BY <1>1, <1>2 DEF MR!Values

\* What the metadata decides, or leaves open.
LEMMA MetadataOutcome ==
  ASSUME NEW evidence, NEW attached
  PROVE  LET o == MR!classify_from_metadata(evidence, attached)
             issuer == MR!Agreed(MR!Winners(evidence), "issuer")
             category == MR!Agreed(MR!Winners(evidence), "category")
         IN  \/ \E origin \in {"none", "external", "internal"} :
                    o = MR!Unresolved(attached, origin)
             \/ /\ ~MR!Conflict(MR!Winners(evidence))
                /\ o.origin = "external" =>
                       issuer # "none" /\ issuer \notin MR!Values(evidence, "person")
                /\ o.origin = "internal" => category # "none"
                /\ o = MR!Outcome("classified", o.origin,
                                  IF o.origin = "external" THEN issuer ELSE "none",
                                  IF o.origin = "internal" THEN category ELSE "none",
                                  "metadata_rule", "resolved")
  <1> DEFINE W == MR!Winners(evidence)
             origin == MR!Agreed(W, "origin")
             issuer == MR!Agreed(W, "issuer")
             category == MR!Agreed(W, "category")
             o == MR!classify_from_metadata(evidence, attached)
  <1>1. CASE W = {} \/ MR!Conflict(W)
    <2>1. o = MR!Unresolved(attached, "none")
      BY <1>1 DEF MR!classify_from_metadata
    <2>2. QED
      BY <2>1
  <1>2. CASE /\ ~(W = {} \/ MR!Conflict(W))
             /\ origin = "external" /\ issuer \in {"none"} \cup MR!Values(evidence, "person")
    <2>1. o = MR!Unresolved(attached, IF \E e \in W : e.code = "file_transfer"
                                      THEN "external" ELSE "none")
      BY <1>2 DEF MR!classify_from_metadata
    <2>2. QED
      BY <2>1
  <1>3. CASE /\ ~(W = {} \/ MR!Conflict(W))
             /\ origin = "internal" /\ category = "none"
    <2>1. o = MR!Unresolved(attached, "internal")
      BY <1>3 DEF MR!classify_from_metadata
    <2>2. QED
      BY <2>1
  <1>4. CASE /\ ~(W = {} \/ MR!Conflict(W))
             /\ ~(origin = "external" /\ issuer \in {"none"} \cup MR!Values(evidence, "person"))
             /\ ~(origin = "internal" /\ category = "none")
    <2>1. o = MR!Outcome("classified", origin, IF origin = "external" THEN issuer ELSE "none",
                         IF origin = "internal" THEN category ELSE "none", "metadata_rule",
                         "resolved")
      BY <1>4 DEF MR!classify_from_metadata
    <2>2. o.origin = origin
      BY <2>1 DEF MR!Outcome
    <2>3. /\ ~MR!Conflict(W)
          /\ o.origin = "external" =>
                 issuer # "none" /\ issuer \notin MR!Values(evidence, "person")
          /\ o.origin = "internal" => category # "none"
      BY <1>4, <2>2
    <2>4. o = MR!Outcome("classified", o.origin,
                         IF o.origin = "external" THEN issuer ELSE "none",
                         IF o.origin = "internal" THEN category ELSE "none", "metadata_rule",
                         "resolved")
      BY <2>1, <2>2
    <2>5. QED
      BY <2>3, <2>4
  <1>5. QED
    BY <1>1, <1>2, <1>3, <1>4

\* Evidence weaker than the strongest is no candidate for the decision.
LEMMA WeakerIsNoWinner ==
  ASSUME NEW evidence, \A e \in evidence : e.priority \in Nat, NEW e \in evidence,
         NEW f \in evidence, f.origin # "none" \/ f.blocks, f.priority < e.priority
  PROVE  MR!Winners(evidence \ {e}) = MR!Winners(evidence)
  <1> DEFINE full == MR!package_candidates(evidence)
             less == MR!package_candidates(evidence \ {e})
  <1>1. less = full \ {e}
    BY DEF MR!package_candidates
  <1>2. f \in full /\ f \in less /\ \A g \in full : g.priority \in Nat
    BY DEF MR!package_candidates
  <1>3. e.priority \in Nat
    OBVIOUS
  <1> HIDE DEF full, less
  <1>4. ASSUME NEW w \in less, \A g \in less : w.priority <= g.priority
        PROVE  w \in full /\ \A g \in full : w.priority <= g.priority
    BY <1>1, <1>2, <1>3, <1>4
  <1>5. ASSUME NEW w \in full, \A g \in full : w.priority <= g.priority
        PROVE  w \in less /\ \A g \in less : w.priority <= g.priority
    BY <1>1, <1>2, <1>3, <1>5
  <1>6. /\ MR!Winners(evidence \ {e}) =
              {w \in less : \A g \in less : w.priority <= g.priority}
        /\ MR!Winners(evidence) = {w \in full : \A g \in full : w.priority <= g.priority}
    BY DEF MR!Winners, full, less
  <1>7. QED
    BY <1>4, <1>5, <1>6, Zenon

\* And without it only a person may be missing.
LEMMA WeakerNamesPeople ==
  ASSUME NEW evidence, NEW e \in evidence, NEW attached,
         MR!Winners(evidence \ {e}) = MR!Winners(evidence)
  PROVE  LET full == MR!classify_from_metadata(evidence, attached)
             less == MR!classify_from_metadata(evidence \ {e}, attached)
         IN  less = full \/ (full.status = "needs_review" /\ less.issuer = e.person)
  <1> DEFINE W == MR!Winners(evidence)
             origin == MR!Agreed(W, "origin")
             issuer == MR!Agreed(W, "issuer")
             category == MR!Agreed(W, "category")
             few == MR!Values(evidence \ {e}, "person")
             people == MR!Values(evidence, "person")
             decided == MR!Outcome("classified", origin,
                                   IF origin = "external" THEN issuer ELSE "none",
                                   IF origin = "internal" THEN category ELSE "none",
                                   "metadata_rule", "resolved")
             open == MR!Unresolved(attached, IF \E w \in W : w.code = "file_transfer"
                                             THEN "external" ELSE "none")
             Rest(names) ==
                 IF origin = "external" /\ issuer \in {"none"} \cup names THEN open
                 ELSE IF origin = "internal" /\ category = "none"
                 THEN MR!Unresolved(attached, "internal")
                 ELSE decided
             full == MR!classify_from_metadata(evidence, attached)
             less == MR!classify_from_metadata(evidence \ {e}, attached)
  <1>1. full = IF W = {} \/ MR!Conflict(W) THEN MR!Unresolved(attached, "none") ELSE Rest(people)
    BY DEF MR!classify_from_metadata
  <1>2. less = IF W = {} \/ MR!Conflict(W) THEN MR!Unresolved(attached, "none") ELSE Rest(few)
    BY Zenon DEF MR!classify_from_metadata
  <1>3. few \subseteq people /\ people \subseteq few \cup {e["person"]}
    BY DEF MR!Values
  <1>4. open.status = "needs_review"
    BY DEF MR!Unresolved, MR!Outcome
  <1>5. origin = "external" => decided.issuer = issuer
    BY DEF MR!Outcome
  <1> HIDE DEF W, few, people, decided, open, full, less, issuer, category, origin
  <1>6. Rest(few) = Rest(people) \/ (Rest(people) = open /\ Rest(few) = decided
                                     /\ origin = "external" /\ issuer = e.person)
    BY <1>3
  <1>7. less = full
        \/ (full = open /\ less = decided /\ origin = "external" /\ issuer = e.person)
    BY <1>1, <1>2, <1>6
  <1>8. less = full \/ (full.status = "needs_review" /\ less.issuer = e.person)
    BY <1>4, <1>5, <1>7
  <1>9. QED
    BY <1>8 DEF full, less

\* The three properties of an item that the metadata decides.
LEMMA MetadataDecides ==
  ASSUME NEW i, NEW attached,
         MR!classify_from_metadata(MR!collect_metadata_evidence(i), attached).status
             = "classified"
  PROVE  LET o == MR!classify_from_metadata(MR!collect_metadata_evidence(i), attached)
         IN  /\ o.source = "metadata_rule" /\ o.action = "resolved"
             /\ o.origin = "external" =>
                    /\ o.issuer # "none" /\ o.category = "none"
                    /\ o.issuer \in NamedBy(i) /\ o.issuer \notin Persons \cup {i.initiator.id}
             /\ o.origin = "internal" => o.issuer = "none" /\ o.category # "none"
  <1> DEFINE evidence == MR!collect_metadata_evidence(i)
             W == MR!Winners(evidence)
             o == MR!classify_from_metadata(evidence, attached)
             issuer == MR!Agreed(W, "issuer")
             category == MR!Agreed(W, "category")
  <1>1. \A origin : MR!Unresolved(attached, origin).status = "needs_review"
    BY DEF MR!Unresolved, MR!Outcome
  <1>2. /\ ~MR!Conflict(W)
        /\ o.origin = "external" =>
               issuer # "none" /\ issuer \notin MR!Values(evidence, "person")
        /\ o.origin = "internal" => category # "none"
        /\ o = MR!Outcome("classified", o.origin,
                          IF o.origin = "external" THEN issuer ELSE "none",
                          IF o.origin = "internal" THEN category ELSE "none", "metadata_rule",
                          "resolved")
    BY <1>1, MetadataOutcome
  <1> HIDE DEF o, issuer, category
  <1>3. /\ o.source = "metadata_rule" /\ o.action = "resolved"
        /\ o.origin = "external" => o.issuer = issuer /\ o.category = "none"
        /\ o.origin = "internal" => o.issuer = "none" /\ o.category = category
    BY <1>2 DEF MR!Outcome
  <1>4. ASSUME issuer # "none"
        PROVE  issuer \in NamedBy(i) /\ issuer \notin Persons
    <2>1. PICK e \in W : e["issuer"] = issuer
      BY <1>4, AgreedIsSaid DEF issuer
    <2>2. e \in evidence /\ ~e.blocks
      BY <1>2 DEF MR!Conflict, MR!Winners, MR!package_candidates
    <2>3. QED
      BY <1>4, <2>1, <2>2, EvidenceOfItem
  <1>5. issuer # "none" /\ issuer \notin MR!Values(evidence, "person") => issuer # i.initiator.id
    BY InitiatorIsNamed
  <1>6. QED
    BY <1>2, <1>3, <1>4, <1>5 DEF o

\* Evidence that is not the strongest decides nothing, of any item.
LEMMA StrongestAlwaysDecides == MR!StrongestDecides
  <1> DEFINE evidence == MR!collect_metadata_evidence(s1)
  <1>1. \A e \in evidence : e.priority \in Nat
    BY EvidenceOfItem
  <1> SUFFICES ASSUME NEW e \in evidence,
                      NEW f \in {g \in evidence : g.origin # "none" \/ g.blocks},
                      f.priority < e.priority
               PROVE  LET full == MR!classify_from_metadata(evidence, s1.attached)
                          less == MR!classify_from_metadata(evidence \ {e}, s1.attached)
                      IN  less = full \/ (full.status = "needs_review" /\ less.issuer = e.person)
    BY DEF MR!StrongestDecides
  <1> HIDE DEF evidence
  <1>2. MR!Winners(evidence \ {e}) = MR!Winners(evidence)
    BY <1>1, WeakerIsNoWinner
  <1>3. QED
    BY <1>2, WeakerNamesPeople

\* Where the item is left open, its outcome only says the side it is on.
LEMMA OpenOutcome ==
  ASSUME NEW evidence, NEW attached,
         MR!classify_from_metadata(evidence, attached).status # "classified"
  PROVE  LET o == MR!classify_from_metadata(evidence, attached)
         IN  o.status = "needs_review" /\ o.origin \in {"none", "external", "internal"}
  <1>1. \A origin : /\ MR!Unresolved(attached, origin).status = "needs_review"
                    /\ MR!Unresolved(attached, origin).origin = origin
    BY DEF MR!Unresolved, MR!Outcome
  <1>2. \A a, b, c, d : MR!Outcome("classified", a, b, c, d, "resolved").status = "classified"
    BY DEF MR!Outcome
  <1>3. QED
    BY <1>1, <1>2, MetadataOutcome

\* Judge: the metadata decides, or the texts are read.
LEMMA JudgeStep ==
  ASSUME MR!MetadataInv, MR!Judge
  PROVE  MR!MetadataInv'
  <1> PICK o : o = MR!classify_from_metadata(MR!collect_metadata_evidence(s1), s1.attached)
    OBVIOUS
  <1>1. /\ s1' = s1 /\ s5' = s5 /\ s8' = s8 /\ s3' = o /\ s2 = "metadata"
        /\ IF o.action = "parse_attachment" THEN s2' = "content" ELSE s2' = "done"
    BY DEF MR!Judge
  <1>2. s1 \in ItemCases /\ s5 \in Seq(Texts) /\ s5 = <<>> /\ s8 = <<>>
    BY <1>1 DEF MR!MetadataInv
  <1>3. MR!ExternalIsConfigured'
    BY <1>1, MetadataDecides DEF MR!ExternalIsConfigured, MR!Classified, NamedBy
  <1>4. MR!SidesAreKept'
    BY <1>1, MetadataDecides DEF MR!SidesAreKept, MR!Classified
  <1>5. QED
    BY <1>1, <1>2, <1>3, <1>4 DEF MR!MetadataInv

\* Convert: another text.
LEMMA ConvertStep ==
  ASSUME MR!MetadataInv, MR!Convert
  PROVE  MR!MetadataInv'
  <1>1. /\ s1' = s1 /\ s2 = "content" /\ s2' = s2 /\ s3' = s3 /\ s8' = s8
        /\ s5' = s5 \/ \E text \in Texts : s5' = Append(s5, text)
    BY DEF MR!Convert
  <1>2. s5' \in Seq(Texts)
    BY <1>1 DEF MR!MetadataInv
  <1>3. QED
    BY <1>1, <1>2 DEF MR!MetadataInv

\* A name that a text or the title gives is there, and one of the configured.
LEMMA TextsAreRead ==
  ASSUME MR!MetadataInv
  PROVE  /\ \A n \in DOMAIN s5 : MR!IsFiniteSet(s5[n].numbers) /\ "none" \notin s5[n].numbers
         /\ "none" \notin MR!Aliases
  <1>1. \A n \in DOMAIN s5 : s5[n] \in Texts
    BY DEF MR!MetadataInv
  <1>2. s1 \in ItemCases
    BY DEF MR!MetadataInv
  <1>3. QED
    BY <1>1, <1>2, MetadataAssumption DEF MR!CasesAreRead, MR!Aliases

\* The first text with a number has no other number.
LEMMA FirstNumber ==
  ASSUME MR!MetadataInv, MR!WithNumber # {}
  PROVE  LET first == CHOOSE n \in MR!WithNumber : \A m \in MR!WithNumber : n <= m
             x == CHOOSE y \in s5[first].numbers : TRUE
         IN  first \in DOMAIN s5 /\ s5[first].numbers = {x} /\ x # "none"
  <1> DEFINE first == CHOOSE n \in MR!WithNumber : \A m \in MR!WithNumber : n <= m
             x == CHOOSE y \in s5[first].numbers : TRUE
  <1>1. MR!WithNumber \subseteq Nat
    BY DEF MR!WithNumber, MR!MetadataInv
  <1>2. PICK n \in MR!WithNumber : \A m \in MR!WithNumber : ~(<<m, n>> \in OpToRel(<, Nat))
    BY <1>1, NatLessThanWellFounded, WFMin, Zenon
  <1>3. \A m \in MR!WithNumber : n <= m
    <2> SUFFICES ASSUME NEW m \in MR!WithNumber PROVE n <= m
      OBVIOUS
    <2>1. n \in Nat /\ m \in Nat /\ ~(<<m, n>> \in OpToRel(<, Nat))
      BY <1>1, <1>2, Zenon
    <2>2. QED
      BY <2>1 DEF OpToRel
  <1>4. first \in MR!WithNumber
    BY <1>2, <1>3, Zenon
  <1> HIDE DEF first
  <1>5. first \in DOMAIN s5 /\ MR!Cardinality(s5[first].numbers) = 1
    BY <1>4 DEF MR!WithNumber, MR!OneNumber
  <1>6. PICK y : s5[first].numbers = {y}
    BY <1>5, TextsAreRead, FS_Singleton, SizesOfValues
  <1>7. x = y
    BY <1>6
  <1> HIDE DEF x
  <1>8. first \in DOMAIN s5 /\ s5[first].numbers = {x} /\ x # "none"
    BY <1>5, <1>6, <1>7, TextsAreRead
  <1>9. QED
    BY <1>8, Zenon DEF first, x

\* An item that the texts of it decide, on the side where it was.
LEMMA SettledStep ==
  ASSUME MR!MetadataInv, s2 \in {"content", "category"}, NEW origin, NEW issuer, NEW category,
         NEW source, source # "metadata_rule",
         MR!Settled(origin, issuer, category, source),
         s1' = s1, s5' = s5, s6' = s6,
         \/ /\ origin = "external" /\ s3.origin = "external"
            /\ issuer # "none" /\ category = "none"
            /\ issuer \in MR!Aliases \/ \E n \in DOMAIN s5 : s5[n].numbers = {issuer}
         \/ /\ origin = "internal" /\ s3.origin # "external"
            /\ issuer = "none" /\ category # "none"
            /\ source = "local_qwen" => s8' = <<"accepted">> /\ s5 # <<>> /\ s6 = "none"
  PROVE  MR!MetadataInv'
  <1> PICK before :
        before = MR!classify_from_metadata(MR!collect_metadata_evidence(s1), s1.attached)
    OBVIOUS
  <1>1. /\ s1 \in ItemCases /\ s5 \in Seq(Texts) /\ s3 = before
        /\ before.action = "parse_attachment"
    BY DEF MR!MetadataInv
  <1>2. /\ s2' = "done" /\ s3'.status = "classified" /\ s3'.origin = origin
        /\ s3'.issuer = issuer /\ s3'.category = category /\ s3'.source = source
    BY DEF MR!Settled, MR!Outcome
  <1>3. before.origin \in {"none", "external", "internal"}
    BY <1>1, MetadataDecides, OpenOutcome
  <1>4. MR!Aliases' = MR!Aliases
    BY DEF MR!Aliases
  <1>5. MR!ExternalIsConfigured'
    BY <1>2, <1>4 DEF MR!ExternalIsConfigured, MR!Classified
  <1>6. MR!SidesAreKept'
    BY <1>1, <1>2, <1>3 DEF MR!SidesAreKept, MR!Classified
  <1>7. QED
    BY <1>1, <1>2, <1>5, <1>6 DEF MR!MetadataInv

\* An item that stays open.
LEMMA OpenStep ==
  ASSUME MR!MetadataInv, s2 \in {"content", "issuer", "category"},
         s1' = s1, s3' = s3, s5' = s5,
         \/ s2' = "done"
         \/ s2' = "issuer" /\ s8' = s8
         \/ s2' = "category" /\ s8' = s8 /\ s6' = "none" /\ s5 # <<>> /\ s3.origin # "external"
  PROVE  MR!MetadataInv'
  <1> PICK before :
        before = MR!classify_from_metadata(MR!collect_metadata_evidence(s1), s1.attached)
    OBVIOUS
  <1>1. /\ s1 \in ItemCases /\ s5 \in Seq(Texts) /\ s3 = before /\ s8 = <<>>
        /\ before.action = "parse_attachment"
    BY DEF MR!MetadataInv
  <1>2. before.status # "classified"
    BY <1>1, MetadataDecides
  <1>3. MR!ExternalIsConfigured' /\ MR!SidesAreKept'
    BY <1>1, <1>2 DEF MR!ExternalIsConfigured, MR!SidesAreKept, MR!Classified
  <1>4. QED
    BY <1>1, <1>3 DEF MR!MetadataInv

\* ResolveExternal: a number, an alias, or the look of an issuer.
LEMMA ResolveExternalStep ==
  ASSUME MR!MetadataInv, MR!ResolveExternal
  PROVE  MR!MetadataInv'
  <1>1. /\ s2 = "content" /\ s3.origin = "external"
        /\ s1' = s1 /\ s5' = s5 /\ s6' = s6 /\ s8' = s8
    BY DEF MR!ResolveExternal
  <1>2. CASE MR!WithNumber # {}
    <2> DEFINE first == CHOOSE n \in MR!WithNumber : \A m \in MR!WithNumber : n <= m
    <2>1. PICK x : x = CHOOSE y \in s5[first].numbers : TRUE
      OBVIOUS
    <2>2. first \in DOMAIN s5 /\ s5[first].numbers = {x} /\ x # "none"
      BY <1>2, <2>1, FirstNumber, Zenon
    <2>3. MR!Settled("external", x, "none", "content_rule")
      BY <1>2, <2>1 DEF MR!ResolveExternal
    <2> HIDE DEF first
    <2>4. QED
      BY <1>1, <2>2, <2>3, SettledStep
  <1>3. CASE MR!WithNumber = {} /\ MR!Aliases # {}
    <2>1. PICK issuer \in MR!Aliases : MR!Settled("external", issuer, "none", "content_rule")
      BY <1>3 DEF MR!ResolveExternal
    <2>2. issuer # "none"
      BY TextsAreRead
    <2>3. QED
      BY <1>1, <2>1, <2>2, SettledStep
  <1>4. CASE MR!WithNumber = {} /\ MR!Aliases = {}
    <2>1. s3' = s3 /\ s2' \in {"done", "issuer"}
      BY <1>4 DEF MR!ResolveExternal
    <2>2. QED
      BY <1>1, <2>1, OpenStep
  <1>5. QED
    BY <1>2, <1>3, <1>4

\* ExtractIssuer: what the model extracts is noted.
LEMMA ExtractIssuerStep ==
  ASSUME MR!MetadataInv, MR!ExtractIssuer
  PROVE  MR!MetadataInv'
  <1>1. s2 = "issuer" /\ s2' = "done" /\ s1' = s1 /\ s3' = s3 /\ s5' = s5
    BY DEF MR!ExtractIssuer
  <1>2. QED
    BY <1>1, OpenStep

\* ResolveInternal: the subject that a rule found, or the model is asked.
LEMMA ResolveInternalStep ==
  ASSUME MR!MetadataInv, MR!ResolveInternal
  PROVE  MR!MetadataInv'
  <1>1. /\ s2 = "content" /\ s3.origin # "external"
        /\ s1' = s1 /\ s5' = s5 /\ s6' = s6 /\ s8' = s8
    BY DEF MR!ResolveInternal
  <1>2. CASE s6 # "none"
    <2>1. MR!Settled("internal", "none", s6, "content_rule")
      BY <1>2 DEF MR!ResolveInternal
    <2>2. QED
      BY <1>1, <1>2, <2>1, SettledStep
  <1>3. CASE s6 = "none"
    <2>1. s3' = s3 /\ s2' = IF s5 = <<>> THEN "done" ELSE "category"
      BY <1>3 DEF MR!ResolveInternal
    <2>2. QED
      BY <1>1, <1>3, <2>1, OpenStep
  <1>4. QED
    BY <1>2, <1>3

\* ClassifyByModel: an answer is taken or counted as rejected.
LEMMA ClassifyByModelStep ==
  ASSUME MR!MetadataInv, MR!ClassifyByModel
  PROVE  MR!MetadataInv'
  <1>1. /\ s2 = "category" /\ s1' = s1 /\ s5' = s5 /\ s6' = s6
        /\ s6 = "none" /\ s5 # <<>> /\ s3.origin # "external" /\ s8 = <<>>
    BY DEF MR!ClassifyByModel, MR!MetadataInv
  <1>2. PICK reply \in Replies :
           LET code == MR!last_rejection_code(reply)
           IN  IF code = "none"
               THEN /\ MR!Settled("internal", "none", reply.category, "local_qwen")
                    /\ s7' = s7 \cup {"local_qwen"}
                    /\ s8' = Append(s8, "accepted")
               ELSE /\ s8' = Append(s8, code)
                    /\ s2' = "done"
                    /\ UNCHANGED <<s3, s7>>
    BY DEF MR!ClassifyByModel
  <1>3. CASE MR!last_rejection_code(reply) = "none"
    <2>1. MR!Settled("internal", "none", reply.category, "local_qwen") /\ s8' = <<"accepted">>
      BY <1>1, <1>2, <1>3
    <2>2. reply.category # "none"
      BY MetadataAssumption DEF MR!CasesAreRead
    <2>3. QED
      BY <1>1, <2>1, <2>2, SettledStep
  <1>4. CASE MR!last_rejection_code(reply) # "none"
    <2>1. s2' = "done" /\ s3' = s3
      BY <1>2, <1>4
    <2>2. QED
      BY <1>1, <2>1, OpenStep
  <1>5. QED
    BY <1>3, <1>4

\* The invariant holds at first,
LEMMA MetadataInit ==
  ASSUME MR!Init
  PROVE  MR!MetadataInv
  <1>1. s1 \in ItemCases /\ s2 = "metadata" /\ s5 = <<>> /\ s8 = <<>>
        /\ s3 = MR!Unresolved(0, "none")
    BY DEF MR!Init
  <1>2. s3.status = "needs_review"
    BY <1>1 DEF MR!Unresolved, MR!Outcome
  <1>3. QED
    BY <1>1, <1>2 DEF MR!MetadataInv

\* after every step,
LEMMA MetadataNext ==
  ASSUME MR!MetadataInv, [MR!Next]_(MR!vars)
  PROVE  MR!MetadataInv'
  <1>1. CASE MR!Next
    BY <1>1, JudgeStep, ConvertStep, ResolveExternalStep, ExtractIssuerStep,
       ResolveInternalStep, ClassifyByModelStep DEF MR!Next
  <1>2. CASE UNCHANGED MR!vars
    <2>1. s1' = s1 /\ s2' = s2 /\ s3' = s3 /\ s5' = s5 /\ s6' = s6 /\ s8' = s8
      BY <1>2 DEF MR!vars
    <2>2. /\ MR!ExternalIsConfigured' = MR!ExternalIsConfigured
          /\ MR!SidesAreKept' = MR!SidesAreKept
      BY <2>1 DEF MR!ExternalIsConfigured, MR!SidesAreKept, MR!Classified, MR!Aliases
    <2>3. QED
      BY <2>1, <2>2 DEF MR!MetadataInv
  <1>3. QED
    BY <1>1, <1>2

\* and it implies what it is for.
LEMMA MetadataHolds ==
  ASSUME MR!MetadataInv
  PROVE  MR!MetadataRulesAreSound
  <1>1. s2 # "done" => s3.status # "classified"
    BY MetadataDecides DEF MR!MetadataInv
  <1>2. s2 # "done" => MR!ExternalIsConfigured /\ MR!SidesAreKept
    BY <1>1 DEF MR!MetadataInv, MR!ExternalIsConfigured, MR!SidesAreKept, MR!Classified
  <1>3. QED
    BY <1>2, StrongestAlwaysDecides DEF MR!MetadataInv, MR!MetadataRulesAreSound

-----------------------------------------------------------------------------
(***************************************************************************)
(* The rules of the dossier.                                               *)
(***************************************************************************)
LEMMA SizesOfNumbers ==
  \A S : DR!Cardinality(S) = Cardinality(S) /\ (DR!IsFiniteSet(S) <=> IsFiniteSet(S))
  BY DEF DR!Cardinality, Cardinality, DR!IsFiniteSet, IsFiniteSet

\* A single number, as CHOOSE finds it.
LEMMA OneNumber ==
  ASSUME NEW S, DR!Cardinality(S) = 1
  PROVE  (CHOOSE n \in S : TRUE) \in S
  <1>1. S # {}
    BY FS_EmptySet, SizesOfNumbers
  <1>2. QED
    BY <1>1

\* A file that the deduplication leaves out is held again.
LEMMA LeftOutIsHeldAgain ==
  ASSUME NEW fs, \A n \in DOMAIN fs : fs[n].length \in Nat,
         NEW m \in DOMAIN fs, m \notin DR!Deduplicated(fs)
  PROVE  \E k \in DOMAIN fs \ {m} : fs[k].sha = fs[m].sha /\ fs[k].length >= fs[m].length
  BY DEF DR!Deduplicated

\* The primary file is one of those, and none of them beats it.
LEMMA PrimaryIsBest ==
  ASSUME NEW hint, NEW fs, NEW among,
         DR!select_primary_attachment(hint, fs, among).primary # 0
  PROVE  LET n == DR!select_primary_attachment(hint, fs, among).primary
         IN  n \in among /\ \A m \in among : DR!Score(hint, fs[m]) <= DR!Score(hint, fs[n])
  <1> PICK best : best = {k \in among : \A m \in among :
                              DR!Score(hint, fs[m]) <= DR!Score(hint, fs[k])}
    BY Zenon
  <1> PICK n : n = CHOOSE k \in best : TRUE
    OBVIOUS
  <1>1. \A c, k : DR!Selection(k, c).primary = k
    BY DEF DR!Selection
  <1>2. DR!Cardinality(best) = 1 /\ DR!select_primary_attachment(hint, fs, among).primary = n
    <2>1. DR!select_primary_attachment(hint, fs, among) =
            IF among = {} THEN DR!Selection(0, FALSE)
            ELSE IF DR!Cardinality(best) # 1 THEN DR!Selection(0, TRUE)
            ELSE IF hint = "internal" /\ fs[n].role \notin DR!FormRoles /\ ~fs[n].form
                    /\ ~fs[n].match
            THEN DR!Selection(0, TRUE)
            ELSE DR!Selection(n, FALSE)
      BY DEF DR!select_primary_attachment
    <2>2. QED
      BY <1>1, <2>1, Zenon
  <1>3. n \in best
    BY <1>2, OneNumber
  <1>4. QED
    BY <1>2, <1>3

\* Another copy of an original leaves the candidates as they are.
LEMMA CopyIsNoCandidate ==
  ASSUME NEW i, NEW fs, DR!CaseIsRead(i, fs), NEW n \in DOMAIN fs
  PROVE  /\ DR!Deduplicated(Append(fs, fs[n])) = DR!Deduplicated(fs)
         /\ \A k \in DOMAIN fs : Append(fs, fs[n])[k] = fs[k]
         /\ fs # <<>> /\ Append(fs, fs[n]) # <<>>
  <1> DEFINE S == {fs[k] : k \in DOMAIN fs}
  <1> PICK gs : gs = Append(fs, fs[n])
    BY Zenon
  <1>1. fs \in Seq(S) /\ fs[n] \in S /\ \A k \in DOMAIN fs : fs[k].length \in Nat
    BY DEF DR!CaseIsRead
  <1> PICK l \in Nat : l = Len(fs)
    BY <1>1
  <1>2. /\ DOMAIN fs = 1..l /\ DOMAIN gs = 1..l + 1
        /\ \A k \in 1..l : gs[k] = fs[k]
        /\ gs[l + 1] = fs[n]
    BY <1>1
  <1>3. fs # <<>> /\ gs # <<>>
    BY <1>1, <1>2
  <1> HIDE DEF S
  <1>4. l + 1 \notin DR!Deduplicated(gs)
    BY <1>1, <1>2 DEF DR!Deduplicated
  <1>5. ASSUME NEW k \in 1..l
        PROVE  k \in DR!Deduplicated(gs) <=> k \in DR!Deduplicated(fs)
    <2>1. /\ k \in DR!Deduplicated(fs) <=>
                 \A m \in 1..l : fs[m].sha = fs[k].sha /\ m # k =>
                     \/ fs[m].length < fs[k].length
                     \/ fs[m].length = fs[k].length /\ k < m
          /\ k \in DR!Deduplicated(gs) <=>
                 \A m \in 1..l + 1 : gs[m].sha = gs[k].sha /\ m # k =>
                     \/ gs[m].length < gs[k].length
                     \/ gs[m].length = gs[k].length /\ k < m
      BY <1>2 DEF DR!Deduplicated
    <2>2. CASE k \in DR!Deduplicated(fs)
      <3>1. fs[n].sha = fs[k].sha => fs[n].length < fs[k].length \/ fs[n].length = fs[k].length
        BY <1>2, <2>1, <2>2
      <3>2. QED
        BY <1>2, <2>1, <2>2, <3>1
    <2>3. CASE k \in DR!Deduplicated(gs)
      BY <1>2, <2>1, <2>3
    <2>4. QED
      BY <2>2, <2>3
  <1>6. DR!Deduplicated(gs) \subseteq 1..l + 1 /\ DR!Deduplicated(fs) \subseteq 1..l
    BY <1>2 DEF DR!Deduplicated
  <1>7. DR!Deduplicated(gs) = DR!Deduplicated(fs)
    <2>1. \A k \in 1..l + 1 : k \in 1..l \/ k = l + 1
      OBVIOUS
    <2>2. QED
      BY <1>4, <1>5, <1>6, <2>1, Zenon
  <1>8. QED
    BY <1>2, <1>3, <1>7

\* So they leave the dossier as it is.
LEMMA CopyAddsNothing ==
  ASSUME NEW i, NEW fs, DR!CaseIsRead(i, fs), NEW n \in DOMAIN fs, NEW load_text
  PROVE  DR!Dossier(i, Append(fs, fs[n]), load_text) = DR!Dossier(i, fs, load_text)
  <1> PICK gs : gs = Append(fs, fs[n])
    BY Zenon
  <1> PICK among : among = DR!Deduplicated(fs)
    OBVIOUS
  <1> PICK hint : hint = DR!OriginHint(i)
    OBVIOUS
  <1>1. /\ DR!Deduplicated(gs) = among /\ fs # <<>> /\ gs # <<>>
        /\ \A k \in DOMAIN fs : gs[k] = fs[k]
    BY CopyIsNoCandidate
  <1>2. among \subseteq DOMAIN fs
    BY DEF DR!Deduplicated
  <1>3. \A k \in among : gs[k] = fs[k]
    BY <1>1, <1>2
  <1>4. {x \in among : \A m \in among : DR!Score(hint, gs[m]) <= DR!Score(hint, gs[x])} =
        {x \in among : \A m \in among : DR!Score(hint, fs[m]) <= DR!Score(hint, fs[x])}
    BY <1>3, Zenon
  <1>b. PICK best : best = {x \in among : \A m \in among :
                              DR!Score(hint, fs[m]) <= DR!Score(hint, fs[x])}
    BY Zenon
  <1> PICK k : k = CHOOSE x \in best : TRUE
    OBVIOUS
  <1>c. \A x \in best : x \in among
    BY <1>b
  <1>5. DR!Cardinality(best) = 1 => gs[k] = fs[k]
    BY <1>3, <1>c, OneNumber, Zenon
  <1> PICK selected : selected = DR!select_primary_attachment(hint, fs, among)
    OBVIOUS
  <1>6. selected = DR!select_primary_attachment(hint, gs, among)
    <2>1. ASSUME NEW hs, hs \in {fs, gs}
          PROVE  DR!select_primary_attachment(hint, hs, among) =
            IF among = {} THEN DR!Selection(0, FALSE)
            ELSE IF DR!Cardinality(best) # 1 THEN DR!Selection(0, TRUE)
            ELSE IF hint = "internal" /\ hs[k].role \notin DR!FormRoles /\ ~hs[k].form
                    /\ ~hs[k].match
            THEN DR!Selection(0, TRUE)
            ELSE DR!Selection(k, FALSE)
      <3>1. best = {x \in among :
                    \A m \in among : DR!Score(hint, hs[m]) <= DR!Score(hint, hs[x])}
        BY <1>4, <1>b, <2>1, Zenon
      <3>2. QED
        BY <3>1 DEF DR!select_primary_attachment
    <2>2. CASE DR!Cardinality(best) = 1
      BY <1>5, <2>1, <2>2, Zenon
    <2>3. CASE DR!Cardinality(best) # 1
      BY <2>1, <2>3, Zenon
    <2>4. QED
      BY <2>2, <2>3
  <1>7. selected.primary # 0 => gs[selected.primary] = fs[selected.primary]
    BY <1>3, PrimaryIsBest, Zenon
  <1>8. DR!Dossier(i, gs, load_text) = DR!Dossier(i, fs, load_text)
    BY <1>1, <1>6, <1>7, Zenon DEF DR!Dossier
  <1>9. QED
    BY <1>8

\* What was decided for an item that is attributed to somebody else.
LEMMA ExternalIsDecided ==
  ASSUME NEW i, NEW dossier, NEW doc, NEW issuer,
         doc = DR!document_match(i, dossier), issuer = DR!issuer_evidence(i, dossier),
         DR!classify_dossier(i, dossier).status = "classified",
         DR!classify_dossier(i, dossier).origin = "external"
  PROVE  /\ DR!internal_lock(i, doc, issuer) = "none"
         /\ ~DR!Unclear(i, dossier)
         /\ DR!classify_dossier(i, dossier).category = "none"
         /\ \/ doc # DR!Nothing /\ DR!classify_dossier(i, dossier).issuer = doc.issuer
            \/ /\ doc = DR!Nothing /\ issuer # DR!Nothing
               /\ DR!classify_dossier(i, dossier).issuer = issuer.issuer
  BY DEF DR!classify_dossier, DR!Review, DR!Decided

\* What was decided for an item that is kept inside.
LEMMA InternalIsDecided ==
  ASSUME NEW i, NEW dossier, NEW doc, NEW issuer,
         doc = DR!document_match(i, dossier), issuer = DR!issuer_evidence(i, dossier),
         DR!classify_dossier(i, dossier).status = "classified",
         DR!classify_dossier(i, dossier).origin = "internal"
  PROVE  /\ DR!classify_dossier(i, dossier).issuer = "none"
         /\ DR!classify_dossier(i, dossier).category # "none"
         /\ DR!Foreign(doc) \/ DR!Foreign(issuer) => DR!classify_dossier(i, dossier).conflict
  BY Zenon DEF DR!classify_dossier, DR!Review, DR!Decided

\* A conflict that the names alone show is one with the texts too.
LEMMA ConflictsStay ==
  ASSUME NEW i, NEW fs, NEW load_text \in BOOLEAN, ~DR!Dossier(i, fs, load_text).conflict
  PROVE  ~DR!Dossier(i, fs, FALSE).conflict
  BY DEF DR!Dossier

LEMMA ConflictsHold ==
  ASSUME NEW load_text \in BOOLEAN, DR!CaseIsRead(s1, s2),
         s4 = DR!classify_dossier(s1, DR!Dossier(s1, s2, load_text))
  PROVE  DR!ConflictIsNotExternal
  <1> SUFFICES ASSUME s4.status = "classified", s4.origin = "external"
               PROVE  /\ DR!Cardinality(s1.title.numbers) <= 1
                      /\ ~DR!Dossier(s1, s2, FALSE).conflict
    BY Zenon DEF DR!ConflictIsNotExternal, DR!Classified
  <1>1. ~DR!Unclear(s1, DR!Dossier(s1, s2, load_text))
    BY ExternalIsDecided
  <1>2. DR!Cardinality(s1.title.numbers) \in Nat
    BY SizesOfNumbers, FS_CardinalityType DEF DR!CaseIsRead
  <1>3. ~(DR!Cardinality(s1.title.numbers) > 1) /\ ~DR!Dossier(s1, s2, load_text).conflict
    BY <1>1 DEF DR!Unclear
  <1>4. ~DR!Dossier(s1, s2, FALSE).conflict
    BY <1>3, ConflictsStay, Zenon
  <1>5. DR!Cardinality(s1.title.numbers) <= 1
    <2>1. \A c \in Nat : ~(c > 1) => c <= 1
      OBVIOUS
    <2>2. QED
      BY <1>2, <1>3, <2>1, Zenon
  <1>6. QED
    BY <1>4, <1>5, Zenon

\* A number that is evidence is one of the item or of the text, and has an issuer.
LEMMA DocumentIsItsOwn ==
  ASSUME NEW i, NEW dossier, \A n \in DR!Numbers(i) : NumberIssuers[n] # "none",
         \A k \in dossier.text.numbers : NumberIssuers[k] # "none",
         NEW doc, doc = DR!document_match(i, dossier), doc # DR!Nothing
  PROVE  /\ doc.issuer # "none" /\ doc.source # "none"
         /\ \/ doc.issuer \in {NumberIssuers[n] : n \in DR!Numbers(i)}
            \/ doc.issuer \in {NumberIssuers[k] : k \in dossier.text.numbers}
  <1>1. \A a, b : DR!Evidence(a, b).issuer = a /\ DR!Evidence(a, b).source = b
    BY DEF DR!Evidence
  <1>2. i.number \subseteq DR!Numbers(i) /\ i.title.numbers \subseteq DR!Numbers(i)
    BY DEF DR!Numbers
  <1>3. CASE DR!Cardinality(i.number) = 1
    <2> PICK k : k = CHOOSE n \in i.number : TRUE
      OBVIOUS
    <2>1. DR!Cardinality(i.number) = 1 /\ doc = DR!Evidence(NumberIssuers[k], "document_number")
      BY <1>3 DEF DR!document_match
    <2>2. k \in i.number
      BY <2>1, OneNumber
    <2>3. k \in DR!Numbers(i)
      BY <1>2, <2>2
    <2>4. doc.issuer = NumberIssuers[k] /\ doc.source = "document_number"
      BY <1>1, <2>1
    <2>5. NumberIssuers[k] # "none"
      BY <2>3
    <2>6. doc.issuer \in {NumberIssuers[n] : n \in DR!Numbers(i)}
      BY <2>3, <2>4, Zenon
    <2>7. QED
      BY <2>4, <2>5, <2>6
  <1>4. CASE DR!Cardinality(i.number) # 1 /\ DR!Cardinality(i.title.numbers) = 1
    <2> PICK k : k = CHOOSE n \in i.title.numbers : TRUE
      OBVIOUS
    <2>1. /\ DR!Cardinality(i.title.numbers) = 1
          /\ doc = DR!Evidence(NumberIssuers[k], "document_number")
      BY <1>4 DEF DR!document_match
    <2>2. k \in i.title.numbers
      BY <2>1, OneNumber
    <2>3. k \in DR!Numbers(i)
      BY <1>2, <2>2
    <2>4. doc.issuer = NumberIssuers[k] /\ doc.source = "document_number"
      BY <1>1, <2>1
    <2>5. NumberIssuers[k] # "none"
      BY <2>3
    <2>6. doc.issuer \in {NumberIssuers[n] : n \in DR!Numbers(i)}
      BY <2>3, <2>4, Zenon
    <2>7. QED
      BY <2>4, <2>5, <2>6
  <1>5. CASE DR!Cardinality(i.number) # 1 /\ DR!Cardinality(i.title.numbers) # 1
    <2> PICK k : k = CHOOSE n \in dossier.text.numbers : TRUE
      OBVIOUS
    <2>1. /\ DR!Cardinality(dossier.text.numbers) = 1
          /\ doc = DR!Evidence(NumberIssuers[k], "document_header")
      BY <1>5 DEF DR!document_match
    <2>2. k \in dossier.text.numbers
      BY <2>1, OneNumber
    <2>3. k \in dossier.text.numbers
      BY <1>2, <2>2
    <2>4. doc.issuer = NumberIssuers[k] /\ doc.source = "document_header"
      BY <1>1, <2>1
    <2>5. NumberIssuers[k] # "none"
      BY <2>3
    <2>6. doc.issuer \in {NumberIssuers[n] : n \in dossier.text.numbers}
      BY <2>3, <2>4, Zenon
    <2>7. QED
      BY <2>4, <2>5, <2>6
  <1>6. QED
    BY <1>3, <1>4, <1>5

\* So is an organisation in the place of an issuer.
LEMMA OrganisationIsItsOwn ==
  ASSUME NEW i, NEW dossier, NEW issuer, issuer = DR!issuer_evidence(i, dossier),
         issuer # DR!Nothing
  PROVE  /\ issuer.issuer # "none" /\ issuer.source # "none"
         /\ issuer.issuer \in {i.title.issuer, dossier.name, dossier.text.issuer,
                               dossier.text.signature}
  BY DEF DR!issuer_evidence, DR!Evidence

\* The evidence of an external item does not name the company.
LEMMA ForeignWithoutLock ==
  ASSUME NEW i, NEW doc, NEW issuer, DR!internal_lock(i, doc, issuer) = "none"
  PROVE  /\ doc.source # "none" => doc.issuer # Self
         /\ doc = DR!Nothing /\ issuer.issuer # "none" /\ issuer.source # "none" =>
                issuer.issuer # Self
  BY DEF DR!internal_lock, DR!Nothing

\* The name and the text in a dossier are those of its primary file, if any.
LEMMA OneFileOnly ==
  ASSUME NEW i, NEW fs, NEW load_text, NEW n,
         n = DR!select_primary_attachment(DR!OriginHint(i), fs, DR!Deduplicated(fs)).primary
  PROVE  /\ n = 0 => /\ DR!Dossier(i, fs, load_text).name = "none"
                     /\ DR!Dossier(i, fs, load_text).text = DR!NoText
         /\ n # 0 => /\ DR!Dossier(i, fs, load_text).name = fs[n].issuer
                     /\ DR!Dossier(i, fs, load_text).text \in {DR!NoText, fs[n].text}
  BY DEF DR!Dossier

\* None of the files beats it but for one that is held again.
LEMMA PrimaryIsUnbeaten ==
  ASSUME NEW i, NEW fs, DR!CaseIsRead(i, fs), NEW n, n # 0,
         n = DR!select_primary_attachment(DR!OriginHint(i), fs, DR!Deduplicated(fs)).primary
  PROVE  /\ n \in DOMAIN fs
         /\ \A m \in DOMAIN fs :
                \/ DR!Score(DR!OriginHint(i), fs[m]) <= DR!Score(DR!OriginHint(i), fs[n])
                \/ \E k \in DOMAIN fs \ {m} :
                       fs[k].sha = fs[m].sha /\ fs[k].length >= fs[m].length
  <1>1. /\ n \in DR!Deduplicated(fs)
        /\ \A m \in DR!Deduplicated(fs) :
               DR!Score(DR!OriginHint(i), fs[m]) <= DR!Score(DR!OriginHint(i), fs[n])
    BY PrimaryIsBest
  <1>2. n \in DOMAIN fs
    BY <1>1 DEF DR!Deduplicated
  <1>3. \A m \in DOMAIN fs : fs[m].length \in Nat
    BY DEF DR!CaseIsRead
  <1>4. QED
    BY <1>1, <1>2, <1>3, LeftOutIsHeldAgain

LEMMA IssuersHold ==
  ASSUME NEW load_text, DR!CaseIsRead(s1, s2),
         s4 = DR!classify_dossier(s1, DR!Dossier(s1, s2, load_text))
  PROVE  DR!IssuerIsItsOwn
  <1> DEFINE again(m) == \E k \in DOMAIN s2 \ {m} :
                             s2[k].sha = s2[m].sha /\ s2[k].length >= s2[m].length
             best == {n \in DOMAIN s2 : \A m \in DOMAIN s2 :
                         \/ DR!Score(DR!OriginHint(s1), s2[m]) <=
                                DR!Score(DR!OriginHint(s1), s2[n])
                         \/ again(m)}
             Own(name) ==
                \/ name \in {NumberIssuers[n] : n \in DR!Numbers(s1)} \cup {s1.title.issuer}
                \/ \E n \in best :
                       name \in {s2[n].issuer, s2[n].text.issuer, s2[n].text.signature}
                                \cup {NumberIssuers[k] : k \in s2[n].text.numbers}
  <1> SUFFICES ASSUME s4.status = "classified", s4.origin = "external"
               PROVE  s4.issuer \notin {"none", Self} /\ s4.category = "none" /\ Own(s4.issuer)
    BY DEF DR!IssuerIsItsOwn, DR!Classified
  <1> PICK dossier : dossier = DR!Dossier(s1, s2, load_text)
    OBVIOUS
  <1> PICK n : n = DR!select_primary_attachment(
                       DR!OriginHint(s1), s2, DR!Deduplicated(s2)).primary
    OBVIOUS
  <1> PICK doc : doc = DR!document_match(s1, dossier)
    OBVIOUS
  <1> PICK issuer : issuer = DR!issuer_evidence(s1, dossier)
    OBVIOUS
  <1>1. /\ DR!internal_lock(s1, doc, issuer) = "none"
        /\ s4.category = "none"
        /\ \/ doc # DR!Nothing /\ s4.issuer = doc.issuer
           \/ doc = DR!Nothing /\ issuer # DR!Nothing /\ s4.issuer = issuer.issuer
    BY ExternalIsDecided
  <1>2. /\ n = 0 => dossier.name = "none" /\ dossier.text = DR!NoText
        /\ n # 0 => dossier.name = s2[n].issuer /\ dossier.text \in {DR!NoText, s2[n].text}
    BY OneFileOnly
  <1>3. n # 0 => n \in best
    BY PrimaryIsUnbeaten
  <1>4. /\ DR!NoText.numbers = {} /\ DR!NoText.issuer = "none" /\ DR!NoText.signature = "none"
        /\ DR!Nothing.issuer = "none" /\ DR!Nothing.source = "none"
    BY DEF DR!NoText, DR!Nothing
  <1>5. /\ \A m \in DR!Numbers(s1) : NumberIssuers[m] # "none"
        /\ \A m \in DOMAIN s2 : \A k \in s2[m].text.numbers : NumberIssuers[k] # "none"
    BY DEF DR!CaseIsRead
  <1>6. n # 0 => n \in DOMAIN s2
    BY <1>3
  <1> HIDE DEF best
  <1>7. \A k \in dossier.text.numbers :
            NumberIssuers[k] # "none" /\ n # 0 /\ k \in s2[n].text.numbers
    BY <1>2, <1>4, <1>5, <1>6
  <1>8. CASE doc # DR!Nothing
    <2>1. /\ doc.issuer # "none" /\ doc.source # "none"
          /\ \/ doc.issuer \in {NumberIssuers[m] : m \in DR!Numbers(s1)}
             \/ doc.issuer \in {NumberIssuers[k] : k \in dossier.text.numbers}
      BY <1>5, <1>7, <1>8, DocumentIsItsOwn
    <2>2. doc.issuer # Self
      BY <1>1, <2>1, ForeignWithoutLock
    <2>3. Own(doc.issuer)
      BY <1>3, <1>7, <2>1
    <2>4. QED
      BY <1>1, <1>8, <2>1, <2>2, <2>3
  <1>9. CASE doc = DR!Nothing
    <2>1. /\ issuer.issuer # "none" /\ issuer.source # "none" /\ s4.issuer = issuer.issuer
          /\ issuer.issuer \in {s1.title.issuer, dossier.name, dossier.text.issuer,
                                dossier.text.signature}
      BY <1>1, <1>9, OrganisationIsItsOwn
    <2>2. issuer.issuer # Self
      BY <1>1, <1>9, <2>1, ForeignWithoutLock
    <2>3. Own(issuer.issuer)
      BY <1>2, <1>3, <1>4, <2>1
    <2>4. QED
      BY <1>1, <2>1, <2>2, <2>3
  <1>10. QED
    BY <1>8, <1>9

LEMMA ContradictionsHold ==
  ASSUME NEW load_text,
         s4 = DR!classify_dossier(s1, DR!Dossier(s1, s2, load_text))
  PROVE  DR!ContradictionIsShown
  <1> PICK dossier : dossier = DR!Dossier(s1, s2, load_text)
    OBVIOUS
  <1> PICK doc : doc = DR!document_match(s1, dossier)
    OBVIOUS
  <1> PICK issuer : issuer = DR!issuer_evidence(s1, dossier)
    OBVIOUS
  <1> SUFFICES ASSUME s4.status = "classified", s4.origin = "internal"
               PROVE  /\ s4.issuer = "none" /\ s4.category # "none"
                      /\ \/ \E n \in s1.number : s1.number = {n} /\ NumberIssuers[n] # Self
                         \/ s1.title.issuer \notin {"none", Self}
                         => s4.conflict
    BY DEF DR!ContradictionIsShown, DR!Classified
  <1>1. /\ s4.issuer = "none" /\ s4.category # "none"
        /\ DR!Foreign(doc) \/ DR!Foreign(issuer) => s4.conflict
    BY InternalIsDecided
  <1>2. ASSUME NEW n \in s1.number, s1.number = {n}, NumberIssuers[n] # Self
        PROVE  DR!Foreign(doc)
    <2>1. DR!Cardinality(s1.number) = 1
      BY <1>2, SizesOfNumbers, FS_Singleton
    <2>2. (CHOOSE k \in s1.number : TRUE) = n
      BY <1>2, <2>1, OneNumber
    <2>3. doc = DR!Evidence(NumberIssuers[n], "document_number")
      BY <2>1, <2>2, Zenon DEF DR!document_match
    <2>4. QED
      BY <1>2, <2>3 DEF DR!Foreign, DR!Evidence, DR!Nothing
  <1>3. ASSUME s1.title.issuer \notin {"none", Self}
        PROVE  DR!Foreign(issuer)
    BY <1>3 DEF DR!Foreign, DR!issuer_evidence, DR!Evidence, DR!Nothing
  <1>4. QED
    BY <1>1, <1>2, <1>3

\* The invariant holds at first,
LEMMA DossierInit ==
  ASSUME DR!Init
  PROVE  DR!DossierInv
  BY DossierAssumption DEF DR!Init, DR!DossierInv, DR!CasesAreRead

\* after every step,
LEMMA DossierNext ==
  ASSUME DR!DossierInv, [DR!Next]_(DR!vars)
  PROVE  DR!DossierInv'
  <1>1. CASE DR!JudgeNames
    BY <1>1 DEF DR!JudgeNames, DR!DossierInv
  <1>2. CASE DR!JudgeTexts
    BY <1>2 DEF DR!JudgeTexts, DR!DossierInv
  <1>3. CASE UNCHANGED DR!vars
    BY <1>3, Zenon DEF DR!vars, DR!DossierInv
  <1>4. QED
    BY <1>1, <1>2, <1>3 DEF DR!Next

\* and it implies what it is for.
LEMMA DossierHolds ==
  ASSUME DR!DossierInv
  PROVE  DR!DossierRulesAreSound
  <1>1. DR!CaseIsRead(s1, s2)
    BY DEF DR!DossierInv
  <1>2. DR!CopiesAddNothing
    BY <1>1, CopyAddsNothing DEF DR!CopiesAddNothing
  <1>3. CASE s3 = "done"
    <2>1. PICK load_text \in BOOLEAN :
             s4 = DR!classify_dossier(s1, DR!Dossier(s1, s2, load_text))
      BY <1>3, Zenon DEF DR!DossierInv
    <2>2. QED
      BY <1>1, <1>2, <2>1, ConflictsHold, IssuersHold, ContradictionsHold
      DEF DR!DossierRulesAreSound
  <1>4. CASE s3 # "done"
    BY <1>2, <1>4, Zenon DEF DR!DossierRulesAreSound, DR!ConflictIsNotExternal, DR!IssuerIsItsOwn,
       DR!ContradictionIsShown, DR!Classified
  <1>5. QED
    BY <1>3, <1>4


-----------------------------------------------------------------------------
\* The pipeline, the backfill, the semantic review and the console decide items
\* in any interleaving, fail and die, while originals and policies change: the
\* current decisions of an item are one chain, a completed run stands on what it
\* had frozen, and a lock holds; nobody decides by hand while the model is asked
\* (LockWhileThinking is FALSE in I).  What the metadata decides has the origin its
\* strongest evidence says, an issuer it names and a category that was offered; what
\* the dossier decides stands in the item itself, and no conflict is ignored or
\* hidden (ClassificationIsSound; classification/service.py, metadata_rules.py,
\* per_item_classifier.py).  Assumed is that there are items, and of the cases and
\* the replies only what the parsers make of them (CasesAreRead).
THEOREM ClassificationsAreSound == ItemsSpec => []ClassificationIsSound
  <1> DEFINE Inv == /\ which = "classification" => I!ClassificationInv
                    /\ which = "metadata" => MR!MetadataInv
                    /\ which = "dossier" => DR!DossierInv
  <1>1. ItemsInit => Inv
    <2>1. ItemsInit /\ which = "classification" => I!ClassificationInv
      BY ClassificationInit, EntriesAssumption, MaxChangesAssumption DEF ItemsInit, ItemComponents
    <2>2. ItemsInit /\ which = "metadata" => MR!MetadataInv
      BY MetadataInit DEF ItemsInit, ItemComponents
    <2>3. ItemsInit /\ which = "dossier" => DR!DossierInv
      BY DossierInit DEF ItemsInit, ItemComponents
    <2>4. QED
      BY <2>1, <2>2, <2>3
  <1>2. Inv /\ [ItemsNext]_items => Inv'
    <2>1. ASSUME [ItemsNext]_items PROVE which' = which
      BY <2>1 DEF ItemsNext, items
    <2>2. ASSUME which = "classification", I!ClassificationInv, [ItemsNext]_items
          PROVE  I!ClassificationInv'
      <3>1. [I!Next]_(I!vars)
        <4>1. CASE ItemsNext
          BY <2>2, <4>1 DEF ItemsNext, ItemComponents
        <4>2. CASE UNCHANGED items
          BY <4>2 DEF items, I!vars, I!tables, I!archive, ItemComponents
        <4>3. QED
          BY <2>2, <4>1, <4>2
      <3>2. QED
        BY <2>2, <3>1, ClassificationNext, MaxChangesAssumption
    <2>3. ASSUME which = "metadata", MR!MetadataInv, [ItemsNext]_items
          PROVE  MR!MetadataInv'
      <3>1. [MR!Next]_(MR!vars)
        <4>1. CASE ItemsNext
          BY <2>3, <4>1 DEF ItemsNext, ItemComponents
        <4>2. CASE UNCHANGED items
          BY <4>2 DEF items, MR!vars
        <4>3. QED
          BY <2>3, <4>1, <4>2
      <3>2. QED
        BY <2>3, <3>1, MetadataNext
    <2>4. ASSUME which = "dossier", DR!DossierInv, [ItemsNext]_items
          PROVE  DR!DossierInv'
      <3>1. [DR!Next]_(DR!vars)
        <4>1. CASE ItemsNext
          BY <2>4, <4>1 DEF ItemsNext, ItemComponents
        <4>2. CASE UNCHANGED items
          BY <4>2 DEF items, DR!vars
        <4>3. QED
          BY <2>4, <4>1, <4>2
      <3>2. QED
        BY <2>4, <3>1, DossierNext
    <2>5. QED
      BY <2>1, <2>2, <2>3, <2>4
  <1>3. Inv => ClassificationIsSound
    BY ClassificationHolds, MetadataHolds, DossierHolds, MaxChangesAssumption
    DEF ClassificationIsSound
  <1> HIDE DEF Inv
  <1> QED
    BY <1>1, <1>2, <1>3, PTL DEF ItemsSpec

-----------------------------------------------------------------------------
(***************************************************************************)
(* The classified candidate build.                                         *)
(***************************************************************************)
RowSet == [decision : Nat, at : Nat,
           status : {"none", "queued", "package_failed"} \cup CB!Packaged]
PackageSet == [item : Candidates, at : Nat \ {0}, decision : Nat, partial : BOOLEAN]

\* What the type says of each variable.
LEMMA BuildTypes ==
  ASSUME CB!Typed
  PROVE  /\ s6 \in [Candidates -> RowSet] /\ s7 \in [Candidates -> RowSet]
         /\ s8 \subseteq PackageSet
         /\ s9 \subseteq [item : Candidates, life : {0 - 1} \cup 0..s12.crashes]
         /\ s12 = [changes |-> s12.changes, crashes |-> s12.crashes, forgot |-> s12.forgot]
         /\ s12.changes \in Nat /\ s12.crashes \in Nat /\ s12.forgot \in BOOLEAN
         /\ s10 = [pc |-> s10.pc, doing |-> s10.doing, item |-> s10.item,
                   package |-> s10.package, previous |-> s10.previous, todo |-> s10.todo]
         /\ s10.item \in Candidates /\ s10.todo \subseteq Candidates
         /\ s10.package \in PackageSet \cup {CB!NoPackage} /\ "at" \in DOMAIN s5
         /\ s10.previous \in PackageSet \cup {CB!NoPackage}
  BY DEF CB!Typed, RowSet, PackageSet

\* A package has a place, and is no directory that was left behind.
LEMMA PackagesAreRendered ==
  /\ CB!NoPackage \notin PackageSet
  /\ \A p \in PackageSet : \A i, n : p # [item |-> i, life |-> n]
  <1>1. CB!NoPackage.at = 0
    BY DEF CB!NoPackage
  <1>2. \A p \in PackageSet : p.at # 0
    BY DEF PackageSet
  <1>3. ASSUME NEW p \in PackageSet, NEW i, NEW n, p = [item |-> i, life |-> n]
        PROVE  FALSE
    <2>1. DOMAIN p = {"item", "at", "decision", "partial"}
      BY DEF PackageSet
    <2>2. DOMAIN p = {"item", "life"}
      BY <1>3
    <2>3. QED
      BY <2>1, <2>2
  <1>4. QED
    BY <1>1, <1>2, <1>3

\* At first there is nothing,
LEMMA BuildInit ==
  ASSUME Candidates # {}, CB!Init
  PROVE  CB!BuildInv
  <1>1. CB!NoPackage.item \in Candidates
    BY DEF CB!NoPackage
  <1>2. CB!Typed
    BY <1>1 DEF CB!Init, CB!Typed, CB!Idle, CB!NoRow, CB!Packaged
  <1>3. CB!HeldFits /\ CB!PackageFits
    BY DEF CB!Init, CB!HeldFits, CB!PackageFits, CB!Idle, CB!At
  <1>4. CB!PackagesStand
    BY DEF CB!Init, CB!PackagesStand, CB!Known, CB!NoRow, CB!Packaged, CB!At, CB!Idle
  <1>5. CB!NothingLiesAbout
    BY DEF CB!Init, CB!NothingLiesAbout, CB!Idle, CB!At
  <1>6. QED
    BY <1>2, <1>3, <1>4, <1>5 DEF CB!BuildInv

\* What happens outside of the programs leaves the packages alone,
LEMMA BuildQuiet ==
  ASSUME CB!BuildInv, UNCHANGED <<s6, s7, s8, s9, s10>>,
         s1' \in [Candidates -> Nat], s4' \in [Candidates -> Nat \ {0}],
         s5'.at = "none" <=> s5.at = "none", DOMAIN s5' = DOMAIN s5,
         s12' \in [changes : Nat, crashes : {s12.crashes}, forgot : {s12.forgot}]
  PROVE  CB!BuildInv'
  <1>1. s12'.crashes = s12.crashes /\ s12'.forgot = s12.forgot /\ s12'.changes \in Nat
    OBVIOUS
  <1>2. CB!Typed'
    BY <1>1 DEF CB!BuildInv, CB!Typed, CB!NoPackage, CB!Packaged
  <1>3. CB!HeldFits'
    BY DEF CB!BuildInv, CB!HeldFits, CB!At, CB!Frozen, CB!Packaged
  <1>4. CB!PackageFits'
    BY <1>1 DEF CB!BuildInv, CB!PackageFits, CB!At, CB!At1, CB!Temporary, CB!Previous,
                CB!NoPackage
  <1>5. CB!PackagesStand'
    BY <1>1 DEF CB!BuildInv, CB!PackagesStand, CB!At, CB!Frozen, CB!Known, CB!PackagesOf,
                CB!Packaged
  <1>6. CB!NothingLiesAbout'
    BY <1>1 DEF CB!BuildInv, CB!NothingLiesAbout, CB!At, CB!Known, CB!Packaged, CB!Temporary,
                CB!Previous, CB!NoPackage
  <1>7. QED
    BY <1>2, <1>3, <1>4, <1>5, <1>6 DEF CB!BuildInv

\* ... start finds nothing there,
LEMMA BuildStart ==
  ASSUME CB!BuildInv, CB!Start
  PROVE  CB!BuildInv'
  <1>1. /\ s10' = s10 /\ s8' = s8 /\ s9' = s9 /\ s7' = s7 /\ s12' = s12 /\ s1' = s1 /\ s4' = s4
        /\ s10.pc = "idle" /\ s8 = {} /\ s9 = {} /\ DOMAIN s5' = {"at", "baseline", "count"}
    BY DEF CB!Start, CB!BuildInv, CB!PackagesStand, CB!inputs, CB!At
  <1>2. s6' \in [Candidates -> RowSet] /\ \A i \in Candidates : s6'[i].status \notin CB!Packaged
    BY DEF CB!Start, CB!BuildInv, CB!Typed, RowSet, CB!NoRow, CB!Packaged
  <1>3. CB!Typed'
    BY <1>1, <1>2 DEF CB!BuildInv, CB!Typed, RowSet, CB!NoPackage, CB!Packaged
  <1>4. CB!HeldFits'
    BY <1>1 DEF CB!HeldFits, CB!At
  <1>5. CB!PackageFits'
    BY <1>1 DEF CB!BuildInv, CB!PackageFits, CB!At, CB!NoPackage
  <1>6. CB!PackagesStand'
    BY <1>1, <1>2 DEF CB!PackagesStand, CB!At, CB!Known, CB!Packaged
  <1>7. CB!NothingLiesAbout'
    BY <1>1 DEF CB!NothingLiesAbout, CB!At
  <1>8. QED
    BY <1>3, <1>4, <1>5, <1>6, <1>7 DEF CB!BuildInv

\* ... a command begins with the manifest on disk,
LEMMA BuildBegin ==
  ASSUME Candidates # {}, CB!BuildInv, s10.pc = "idle", s5.at # "none", s7' = s6,
         UNCHANGED <<s1, s4, s5, s6, s8, s9, s12>>,
         NEW doing \in {"process", "repair"}, NEW todo \in SUBSET Candidates,
         doing = "process" => \A i \in todo : s6[i].status = "queued",
         s10' = [pc |-> "pick", doing |-> doing, item |-> CB!NoPackage.item,
                 package |-> CB!NoPackage, previous |-> CB!NoPackage, todo |-> todo]
  PROVE  CB!BuildInv'
  <1>1. CB!NoPackage.item \in Candidates
    BY DEF CB!NoPackage
  <1>2. CB!Typed'
    BY <1>1 DEF CB!BuildInv, CB!Typed, CB!NoPackage, CB!Packaged, CB!Frozen
  <1>3. CB!HeldFits'
    BY DEF CB!BuildInv, CB!Typed, CB!HeldFits, CB!At, CB!Frozen
  <1>4. CB!PackageFits'
    BY DEF CB!PackageFits, CB!At, CB!NoPackage
  <1>5. CB!PackagesStand'
    BY DEF CB!BuildInv, CB!PackagesStand, CB!At, CB!Frozen, CB!Known, CB!PackagesOf, CB!Packaged
  <1>6. CB!NothingLiesAbout'
    BY DEF CB!BuildInv, CB!NothingLiesAbout, CB!At, CB!Known, CB!Packaged
  <1>7. QED
    BY <1>2, <1>3, <1>4, <1>5, <1>6 DEF CB!BuildInv

LEMMA BuildBegins ==
  ASSUME Candidates # {}, CB!BuildInv, CB!Process \/ CB!Repair
  PROVE  CB!BuildInv'
  <1>1. /\ s10.pc = "idle" /\ s5.at # "none" /\ s7' = s6
        /\ UNCHANGED <<s1, s4, s5, s6, s8, s9, s12>>
    BY DEF CB!Process, CB!Repair, CB!At, CB!inputs, CB!build
  <1>2. CASE CB!Process
    <2>1. CB!InStatus(s6, {"queued"}) \in SUBSET Candidates
      BY DEF CB!InStatus, CB!Frozen
    <2>2. \A i \in CB!InStatus(s6, {"queued"}) : s6[i].status = "queued"
      BY DEF CB!InStatus
    <2>3. s10' = [pc |-> "pick", doing |-> "process", item |-> CB!NoPackage.item,
                  package |-> CB!NoPackage, previous |-> CB!NoPackage,
                  todo |-> CB!InStatus(s6, {"queued"})]
      BY <1>2 DEF CB!Process, CB!Idle
    <2>4. QED
      BY <1>1, <2>1, <2>2, <2>3, BuildBegin
  <1>3. CASE CB!Repair
    <2>1. PICK chosen \in (SUBSET Candidates) \ {{}} :
              s10' = [pc |-> "pick", doing |-> "repair", item |-> CB!NoPackage.item,
                      package |-> CB!NoPackage, previous |-> CB!NoPackage, todo |-> chosen]
      BY <1>3 DEF CB!Repair, CB!Idle
    <2>2. QED
      BY <1>1, <2>1, BuildBegin
  <1>4. QED
    BY <1>2, <1>3

\* ... and ends when it has written down what it did, was refused, or died;
LEMMA BuildIdle ==
  ASSUME Candidates # {}, CB!BuildInv, s10' = CB!Idle, UNCHANGED <<s1, s4, s5, s8, s9>>,
         s6' \in [Candidates -> RowSet], s7' \in [Candidates -> RowSet],
         \A i \in Candidates : /\ s6'[i].decision = s6[i].decision
                               /\ s6'[i].status = "none" <=> s6[i].status = "none",
         CB!PackagesStand', CB!NothingLiesAbout',
         s12' \in [changes : Nat, crashes : Nat, forgot : BOOLEAN], s12'.crashes >= s12.crashes
  PROVE  CB!BuildInv'
  <1>1. CB!NoPackage.item \in Candidates
    BY DEF CB!NoPackage
  <1>2. \A l \in s9 : l \in [item : Candidates, life : {0 - 1} \cup 0..s12'.crashes]
    <2>1. s12.crashes \in Nat /\ s12'.crashes \in Nat
      BY BuildTypes DEF CB!BuildInv
    <2>2. 0..s12.crashes \subseteq 0..s12'.crashes
      BY <2>1
    <2>3. QED
      BY <2>2, BuildTypes DEF CB!BuildInv
  <1>3. CB!Typed'
    BY <1>1, <1>2 DEF CB!BuildInv, CB!Typed, CB!NoPackage, CB!Packaged, CB!Idle, RowSet
  <1>4. CB!HeldFits' /\ CB!PackageFits'
    BY DEF CB!HeldFits, CB!PackageFits, CB!At, CB!NoPackage, CB!Idle
  <1>5. QED
    BY <1>3, <1>4 DEF CB!BuildInv

\* A package ends when it was written down, refused or cut off.
LEMMA BuildEnds ==
  ASSUME Candidates # {}, CB!BuildInv,
         \/ CB!Pick /\ s10' = CB!Idle
         \/ CB!Die
  PROVE  CB!BuildInv'
  <1>0. /\ s12 = [changes |-> s12.changes, crashes |-> s12.crashes, forgot |-> s12.forgot]
        /\ s12.changes \in Nat /\ s12.crashes \in Nat /\ s12.forgot \in BOOLEAN
    BY BuildTypes DEF CB!BuildInv
  <1>0a. /\ s10' = CB!Idle /\ UNCHANGED <<s1, s4, s5, s8, s9>> /\ s10.pc # "idle"
         /\ CB!Pick \/ s12' = [s12 EXCEPT !.crashes = @ + 1]
    BY DEF CB!Pick, CB!Die, CB!inputs, CB!build, CB!At
  <1>0b. PICK f \in BOOLEAN : f = (s12.forgot \/ s7 # s6)
    OBVIOUS
  <1>0c. CB!Pick => s12' = s12 \/ s12' = [s12 EXCEPT !.forgot = f]
    BY <1>0b DEF CB!Pick
  <1>1. /\ s10' = CB!Idle /\ UNCHANGED <<s1, s4, s5, s8, s9>> /\ s10.pc # "idle"
        /\ s12' \in [changes : Nat, crashes : Nat, forgot : BOOLEAN]
        /\ s12'.crashes >= s12.crashes
    BY <1>0, <1>0a, <1>0c
  <1>2. /\ s6 \in [Candidates -> RowSet] /\ s7 \in [Candidates -> RowSet]
        /\ s12.crashes \in Nat /\ s8 \subseteq PackageSet
        /\ \A l \in s9 : l.life # s12.crashes + 1
    <2>1. \A l \in s9 : l.life \in {0 - 1} \cup 0..s12.crashes
      BY BuildTypes DEF CB!BuildInv
    <2>2. QED
      BY <2>1, BuildTypes DEF CB!BuildInv
  <1>3. \A i \in Candidates : /\ s7[i].decision = s6[i].decision
                              /\ s7[i].status = "none" <=> s6[i].status = "none"
                              /\ s6[i].status \in CB!Packaged => s7[i].status \in CB!Packaged
    BY <1>1 DEF CB!BuildInv, CB!HeldFits, CB!At
  <1>4. s10'.pc = "idle"
    BY <1>1 DEF CB!Idle
  <1>5. CASE CB!Pick
    <2>1. /\ s10.pc = "pick" /\ s7' = s7
          /\ \/ s6' = s7 /\ s12' = s12
             \/ /\ s6' = s6 /\ s12'.crashes = s12.crashes
                /\ ~s12'.forgot => s7 = s6 /\ ~s12.forgot
      <3>1. \/ s6' = s7 /\ s12' = s12
            \/ s6' = s6 /\ s12' = [s12 EXCEPT !.forgot = f]
            \/ s10' = [s10 EXCEPT !.pc = "render", !.item = s10'.item, !.todo = s10'.todo]
        <4>1. CASE s10.todo = {}
          BY <1>5, <4>1 DEF CB!Pick
        <4>2. CASE s10.todo # {}
          BY <1>0b, <1>5, <4>2 DEF CB!Pick
        <4>3. QED
          BY <4>1, <4>2
      <3>2. s12' = [s12 EXCEPT !.forgot = f] => s12'.crashes = s12.crashes /\ s12'.forgot = f
        BY <1>0
      <3>3. s10.pc = "pick" /\ s7' = s7
        BY <1>5 DEF CB!Pick, CB!At
      <3>4. s10' # [s10 EXCEPT !.pc = "render", !.item = s10'.item, !.todo = s10'.todo]
        BY <1>4, BuildTypes DEF CB!BuildInv
      <3>5. QED
        BY <1>0b, <3>1, <3>2, <3>3, <3>4
    <2>2. /\ s6' \in [Candidates -> RowSet] /\ s7' \in [Candidates -> RowSet]
          /\ \A i \in Candidates : /\ s6'[i].decision = s6[i].decision
                                   /\ s6'[i].status = "none" <=> s6[i].status = "none"
                                   /\ s6'[i].status \in CB!Packaged =>
                                          s7[i].status \in CB!Packaged
      BY <1>2, <1>3, <2>1
    <2>3. CB!PackagesStand'
      BY <1>1, <1>2, <1>4, <2>1, <2>2
         DEF CB!BuildInv, CB!PackagesStand, CB!At, CB!Frozen, CB!Known, CB!PackagesOf,
             CB!Packaged
    <2>4. CB!NothingLiesAbout'
      BY <1>1, <1>2, <1>4, <2>1, <2>2
         DEF CB!BuildInv, CB!NothingLiesAbout, CB!At, CB!Known, CB!Packaged
    <2>5. QED
      BY <1>1, <2>2, <2>3, <2>4, BuildIdle
  <1>6. CASE CB!Die
    <2>1. s7' = s6 /\ s6' = s6 /\ s12'.crashes = s12.crashes + 1
      <3>1. s12 = [changes |-> s12.changes, crashes |-> s12.crashes, forgot |-> s12.forgot]
        BY BuildTypes DEF CB!BuildInv
      <3>2. QED
        BY <1>2, <1>6, <3>1 DEF CB!Die, CB!build
    <2>2. s10.pc = "put" => \E l, m \in s9 : /\ l # m /\ l.item = s10.item /\ m.item = s10.item
                                             /\ l.life # s12.crashes + 1
                                             /\ m.life # s12.crashes + 1
      <3>1. s10.pc = "put" => CB!Temporary \in s9 /\ CB!Previous \in s9
        BY DEF CB!BuildInv, CB!PackageFits, CB!At
      <3>2. /\ CB!Temporary.item = s10.item /\ CB!Previous.item = s10.item
            /\ CB!Temporary.life = s12.crashes /\ CB!Previous.life = 0 - 1
        BY DEF CB!Temporary, CB!Previous
      <3>3. QED
        BY <1>2, <3>1, <3>2
    <2>3. CB!PackagesStand'
      BY <1>1, <1>2, <1>3, <1>4, <2>1, <2>2
         DEF CB!BuildInv, CB!PackagesStand, CB!At, CB!Frozen, CB!Known, CB!PackagesOf,
             CB!Packaged
    <2>4. CB!NothingLiesAbout'
      BY <1>2, <2>1 DEF CB!NothingLiesAbout
    <2>5. QED
      BY <1>1, <1>2, <2>1, <2>3, <2>4, BuildIdle
  <1>7. QED
    BY <1>5, <1>6

\* What a running process does to its row, and to its package.
Works(at, i, package, previous, todo) ==
    s10' = [pc |-> at, doing |-> s10.doing, item |-> i, package |-> package,
            previous |-> previous, todo |-> todo]

\* The next row is picked.
LEMMA BuildPick ==
  ASSUME CB!BuildInv, CB!Pick, s10' # CB!Idle
  PROVE  CB!BuildInv'
  <1>1. /\ s10.pc = "pick" /\ UNCHANGED <<s1, s4, s5, s6, s7, s8, s9, s12>>
        /\ \E i \in s10.todo : /\ ~CB!Refused(i)
                               /\ s10' = [s10 EXCEPT !.pc = "render", !.item = i,
                                                     !.todo = @ \ {i}]
    BY DEF CB!Pick, CB!At, CB!inputs
  <1>2. PICK i \in s10.todo :
            /\ ~CB!Refused(i)
            /\ s10' = [s10 EXCEPT !.pc = "render", !.item = i, !.todo = @ \ {i}]
    BY <1>1
  <1>3. Works("render", i, s10.package, s10.previous, s10.todo \ {i})
    <2>1. s10 = [pc |-> s10.pc, doing |-> s10.doing, item |-> s10.item,
                 package |-> s10.package, previous |-> s10.previous, todo |-> s10.todo]
      BY BuildTypes DEF CB!BuildInv
    <2>2. QED
      BY <1>2, <2>1 DEF Works
  <1>4. s10.todo \subseteq Candidates /\ i \in Candidates
    BY BuildTypes DEF CB!BuildInv
  <1>5. CB!Typed'
    BY <1>1, <1>3, <1>4 DEF CB!BuildInv, CB!Typed, CB!NoPackage, CB!Packaged, Works
  <1>6. CB!HeldFits'
    BY <1>1, <1>2, <1>3, <1>4
       DEF CB!BuildInv, CB!HeldFits, CB!At, CB!Frozen, CB!Packaged, CB!Refused, Works
  <1>7. CB!PackageFits'
    BY <1>1, <1>3 DEF CB!BuildInv, CB!PackageFits, CB!At, CB!NoPackage, Works
  <1>8. CB!PackagesStand'
    BY <1>1, <1>3
       DEF CB!BuildInv, CB!PackagesStand, CB!At, CB!Frozen, CB!Known, CB!PackagesOf,
           CB!Packaged, Works
  <1>9. CB!NothingLiesAbout'
    BY <1>1, <1>3 DEF CB!BuildInv, CB!NothingLiesAbout, CB!At, CB!Known, CB!Packaged, Works
  <1>10. QED
    BY <1>5, <1>6, <1>7, <1>8, <1>9 DEF CB!BuildInv

\* The package is rendered into a directory of this process.
LEMMA BuildRender ==
  ASSUME CB!BuildInv, CB!Render
  PROVE  CB!BuildInv'
  <1>1. /\ s10.pc = "render" /\ UNCHANGED <<s1, s4, s5, s6, s7, s8, s12>>
        /\ s9' = s9 \cup {CB!Temporary}
    BY DEF CB!Render, CB!At, CB!inputs
  <1>2. PICK partial \in BOOLEAN :
            s10' = [s10 EXCEPT !.pc = "place",
                               !.package = [item |-> s10.item, at |-> s4[s10.item],
                                            decision |-> s7[s10.item].decision,
                                            partial |-> partial]]
    BY DEF CB!Render, CB!FrozenDecision
  <1>3. PICK package : package = [item |-> s10.item, at |-> s4[s10.item],
                                  decision |-> s7[s10.item].decision, partial |-> partial]
    OBVIOUS
  <1>4. Works("place", s10.item, package, s10.previous, s10.todo)
    <2>1. s10 = [pc |-> s10.pc, doing |-> s10.doing, item |-> s10.item,
                 package |-> s10.package, previous |-> s10.previous, todo |-> s10.todo]
      BY BuildTypes DEF CB!BuildInv
    <2>2. QED
      BY <1>2, <1>3, <2>1 DEF Works
  <1>5. /\ s10.item \in Candidates /\ s4[s10.item] \in Nat \ {0}
        /\ s7[s10.item].decision \in Nat /\ s7[s10.item].decision = s6[s10.item].decision
    BY <1>1, BuildTypes DEF CB!BuildInv, CB!Typed, CB!HeldFits, CB!At, RowSet
  <1>6. /\ package \in PackageSet /\ package.item = s10.item
        /\ package.decision = s6[s10.item].decision
    BY <1>3, <1>5 DEF PackageSet
  <1>7. package # CB!NoPackage
    BY <1>6, PackagesAreRendered
  <1>8. /\ s12.crashes \in Nat /\ CB!Temporary.life = s12.crashes
        /\ CB!Temporary \in [item : Candidates, life : {0 - 1} \cup 0..s12.crashes]
        /\ CB!Temporary' = CB!Temporary
    BY <1>1, <1>4, <1>5, BuildTypes DEF CB!BuildInv, CB!Temporary, Works
  <1>9. CB!Typed'
    BY <1>1, <1>4, <1>6, <1>8
       DEF CB!BuildInv, CB!Typed, CB!NoPackage, CB!Packaged, Works, PackageSet
  <1>10. CB!HeldFits'
    BY <1>1, <1>4 DEF CB!BuildInv, CB!HeldFits, CB!At, CB!Frozen, CB!Packaged, Works
  <1>11. CB!PackageFits'
    BY <1>1, <1>4, <1>6, <1>7, <1>8
       DEF CB!BuildInv, CB!PackageFits, CB!At, CB!NoPackage, Works
  <1>12. CB!PackagesStand'
    BY <1>1, <1>4
       DEF CB!BuildInv, CB!PackagesStand, CB!HeldFits, CB!At, CB!Frozen, CB!Known, CB!PackagesOf,
           CB!Packaged, Works
  <1>13. CB!NothingLiesAbout'
    BY <1>1, <1>4, <1>8 DEF CB!BuildInv, CB!NothingLiesAbout, CB!At, CB!Known, CB!Packaged, Works
  <1>14. QED
    BY <1>9, <1>10, <1>11, <1>12, <1>13 DEF CB!BuildInv

\* The row of the item in work changes, and no other.
LEMMA BuildOutcome ==
  ASSUME CB!Typed, NEW i \in Candidates, NEW status \in CB!Packaged \cup {"package_failed"},
         NEW at \in Nat, CB!Outcome(i, status, at)
  PROVE  /\ s7' \in [Candidates -> RowSet]
         /\ s7'[i] = [decision |-> s7[i].decision, status |-> status, at |-> at]
         /\ \A j \in Candidates : j # i => s7'[j] = s7[j]
  <1>1. s7 \in [Candidates -> RowSet]
    BY BuildTypes
  <1>2. s7[i] = [decision |-> s7[i].decision, status |-> s7[i].status, at |-> s7[i].at]
        /\ s7[i].decision \in Nat
    BY <1>1 DEF RowSet
  <1>3. s7' = [s7 EXCEPT ![i] = [s7[i] EXCEPT !.status = status, !.at = at]]
    BY <1>1 DEF CB!Outcome
  <1>4. s7'[i] = [decision |-> s7[i].decision, status |-> status, at |-> at]
    BY <1>1, <1>2, <1>3
  <1>5. [decision |-> s7[i].decision, status |-> status, at |-> at] \in RowSet
    BY <1>2 DEF RowSet, CB!Packaged
  <1>6. QED
    BY <1>1, <1>3, <1>4, <1>5

\* What the working process and its directories have to do with one another.
LEMMA BuildAtWork ==
  ASSUME CB!BuildInv, s10.pc \notin {"idle", "pick"}
  PROVE  /\ s10.item \in Candidates /\ s12.crashes \in Nat
         /\ s10.doing \in {"process", "repair"} /\ s5.at # "none"
         /\ CB!Temporary.item = s10.item /\ CB!Temporary.life = s12.crashes
         /\ CB!Previous.item = s10.item /\ CB!Previous.life = 0 - 1
         /\ CB!Previous \in [item : Candidates, life : {0 - 1} \cup 0..s12.crashes]
         /\ s6[s10.item].status # "none" /\ s7[s10.item].status # "none"
         /\ s7[s10.item].at \in Nat
         /\ s10.item \notin s10.todo
         /\ s10.doing = "repair" => s7[s10.item].status \in CB!Packaged
         /\ s10.doing = "process" /\ s10.pc # "checkpoint" =>
                s6 = s7 /\ s7[s10.item].status = "queued"
  <1>1. s10.item \in Candidates /\ s12.crashes \in Nat /\ s7 \in [Candidates -> RowSet]
    BY BuildTypes DEF CB!BuildInv
  <1>2. /\ CB!Temporary.item = s10.item /\ CB!Temporary.life = s12.crashes
        /\ CB!Previous.item = s10.item /\ CB!Previous.life = 0 - 1
        /\ CB!Previous \in [item : Candidates, life : {0 - 1} \cup 0..s12.crashes]
    BY <1>1 DEF CB!Temporary, CB!Previous
  <1>3. s7[s10.item].at \in Nat
    BY <1>1 DEF RowSet
  <1>4. s10.pc \in {"render", "place", "put", "drop", "checkpoint"}
    BY DEF CB!BuildInv, CB!Typed
  <1>5. QED
    BY <1>1, <1>2, <1>3, <1>4 DEF CB!BuildInv, CB!HeldFits, CB!At, CB!Frozen

\* A package at the same place is set aside by a repair, ...
LEMMA BuildSetAside ==
  ASSUME CB!BuildInv, CB!SetAside, s10.doing = "repair"
  PROVE  CB!BuildInv'
  <1> DEFINE old == CB!At1(s10.item, s10.package.at)
  <1>1. /\ s10.pc = "place" /\ UNCHANGED <<s1, s4, s5, s6, s7, s12>>
        /\ old # {} /\ s8' = s8 \ old /\ s9' = s9 \cup {CB!Previous}
        /\ s10' = [s10 EXCEPT !.pc = "put", !.previous = CHOOSE p \in old : TRUE]
    BY DEF CB!SetAside, CB!At, CB!inputs
  <1>2. PICK previous \in old : previous = CHOOSE p \in old : TRUE
    BY <1>1
  <1>3. Works("put", s10.item, s10.package, previous, s10.todo)
    <2>1. s10 = [pc |-> s10.pc, doing |-> s10.doing, item |-> s10.item,
                 package |-> s10.package, previous |-> s10.previous, todo |-> s10.todo]
      BY BuildTypes DEF CB!BuildInv
    <2>2. QED
      BY <1>1, <1>2, <2>1 DEF Works
  <1>4. /\ previous \in s8 /\ previous.item = s10.item /\ previous.at = s10.package.at
        /\ s8 \subseteq PackageSet /\ previous # CB!NoPackage
        /\ previous.decision = s6[s10.item].decision
    BY <1>2, BuildTypes, PackagesAreRendered DEF CB!BuildInv, CB!At1, CB!PackagesStand
  <1>5. /\ CB!Temporary' = CB!Temporary /\ CB!Previous' = CB!Previous
        /\ CB!NoPackage' = CB!NoPackage
    BY <1>1, <1>3 DEF Works, CB!Temporary, CB!Previous, CB!NoPackage
  <1>6. \A q \in s8 : q \in old <=> q.item = s10.item /\ q.at = s10.package.at
    BY DEF CB!At1
  <1> HIDE DEF old
  <1>7. s10.previous = CB!NoPackage /\ CB!Temporary \in s9 /\ s10.package # CB!NoPackage
    BY <1>1 DEF CB!BuildInv, CB!PackageFits, CB!At
  <1>8. /\ s10.pc = "place" /\ UNCHANGED <<s1, s4, s5, s6, s7, s12>>
        /\ s8' \subseteq s8 /\ s9' = s9 \cup {CB!Previous}
        /\ \A q \in s8 : q \in s8' <=> ~(q.item = s10.item /\ q.at = s10.package.at)
    BY <1>1, <1>6
  <1>9. CB!Previous \in [item : Candidates, life : {0 - 1} \cup 0..s12.crashes]
    BY <1>8, BuildAtWork
  <1>10. CB!Typed'
    BY <1>3, <1>4, <1>5, <1>8, <1>9
       DEF CB!BuildInv, CB!Typed, CB!Packaged, Works, PackageSet
  <1>11. CB!HeldFits'
    BY <1>3, <1>8 DEF CB!BuildInv, CB!HeldFits, CB!At, CB!Frozen, CB!Packaged, Works
  <1>12. CB!PackageFits'
    BY <1>3, <1>4, <1>5, <1>7, <1>8 DEF CB!BuildInv, CB!PackageFits, CB!At, CB!At1, Works
  <1>13. CB!PackagesStand'
    BY <1>3, <1>8, BuildAtWork
       DEF CB!BuildInv, CB!PackagesStand, CB!At, CB!Frozen, CB!Known, CB!PackagesOf,
           CB!Packaged, Works
  <1>14. CB!NothingLiesAbout'
    BY <1>3, <1>4, <1>5, <1>7, <1>8
       DEF CB!BuildInv, CB!NothingLiesAbout, CB!At, CB!Known, CB!Packaged, Works
  <1>15. QED
    BY <1>10, <1>11, <1>12, <1>13, <1>14 DEF CB!BuildInv

\* ... and is an error otherwise.
LEMMA BuildCollides ==
  ASSUME CB!BuildInv, CB!SetAside, s10.doing # "repair"
  PROVE  CB!BuildInv'
  <1> DEFINE i == s10.item
  <1>1. /\ s10.pc = "place" /\ UNCHANGED <<s1, s4, s5, s6, s8, s12>>
        /\ s9' = s9 \ {CB!Temporary} /\ CB!Outcome(i, "package_failed", s7[i].at)
        /\ s10' = [s10 EXCEPT !.pc = "checkpoint"]
        /\ CB!At1(i, s10.package.at) # {}
    BY DEF CB!SetAside, CB!At, CB!inputs
  <1>2. Works("checkpoint", i, s10.package, s10.previous, s10.todo)
    <2>1. s10 = [pc |-> s10.pc, doing |-> s10.doing, item |-> s10.item,
                 package |-> s10.package, previous |-> s10.previous, todo |-> s10.todo]
      BY BuildTypes DEF CB!BuildInv
    <2>2. QED
      BY <1>1, <2>1 DEF Works
  <1>2a. i \in Candidates /\ s7[i].at \in Nat /\ CB!Typed
    BY <1>1, BuildAtWork DEF CB!BuildInv
  <1>2b. PICK at \in Nat, status \in CB!Packaged \cup {"package_failed"} :
            at = s7[i].at /\ status = "package_failed"
    BY <1>2a
  <1>2c. CB!Outcome(i, status, at)
    BY <1>1, <1>2b
  <1>2d. /\ s7' \in [Candidates -> RowSet]
         /\ s7'[i] = [decision |-> s7[i].decision, status |-> status, at |-> at]
         /\ \A j \in Candidates : j # i => s7'[j] = s7[j]
    BY <1>2a, <1>2c, BuildOutcome
  <1>3. /\ s7' \in [Candidates -> RowSet] /\ i \in Candidates
        /\ s7'[i].decision = s7[i].decision /\ s7'[i].status = "package_failed"
        /\ \A j \in Candidates : j # i => s7'[j] = s7[j]
    BY <1>2a, <1>2b, <1>2d
  <1>4. /\ s10.doing = "process" /\ s7[i].status = "queued" /\ s6 = s7 /\ i \notin s10.todo
        /\ s10.previous = CB!NoPackage /\ s10.todo \subseteq Candidates
    BY <1>1, BuildAtWork, BuildTypes DEF CB!BuildInv, CB!PackageFits, CB!At
  <1>5. CB!NoPackage' = CB!NoPackage
    BY DEF CB!NoPackage
  <1> HIDE DEF i
  <1>6. CB!Typed'
    BY <1>1, <1>2, <1>3 DEF CB!BuildInv, CB!Typed, CB!NoPackage, CB!Packaged, Works, RowSet, i
  <1>7. CB!HeldFits'
    BY <1>1, <1>2, <1>3, <1>4
       DEF CB!BuildInv, CB!HeldFits, CB!At, CB!Frozen, CB!Packaged, Works, i
  <1>8. CB!PackageFits'
    BY <1>1, <1>2, <1>4, <1>5 DEF CB!PackageFits, CB!At, Works
  <1>9. CB!PackagesStand'
    BY <1>1, <1>2, <1>3, BuildAtWork
       DEF CB!BuildInv, CB!PackagesStand, CB!At, CB!Frozen, CB!Known, CB!PackagesOf,
           CB!Packaged, Works, i
  <1>10. CB!NothingLiesAbout'
    <2>1. ASSUME s12.crashes = 0, ~s12.forgot
          PROVE  /\ s9 \subseteq {CB!Temporary}
                 /\ \A p \in s8 : p.at = s7[p.item].at /\ s7[p.item].status \in CB!Packaged
      BY <1>1, <1>4, <2>1 DEF CB!BuildInv, CB!NothingLiesAbout, CB!At, CB!Known
    <2>2. s12.crashes = 0 /\ ~s12.forgot => FALSE
      <3>1. PICK p \in s8 : p.item = i
        BY <1>1 DEF CB!At1
      <3>2. QED
        BY <1>4, <2>1, <3>1 DEF CB!Packaged
    <2>3. QED
      BY <1>1, <2>2 DEF CB!NothingLiesAbout
  <1>11. QED
    BY <1>6, <1>7, <1>8, <1>9, <1>10 DEF CB!BuildInv

\* The rendered package is put in its place.
LEMMA BuildPut ==
  ASSUME CB!BuildInv, CB!Put
  PROVE  CB!BuildInv'
  <1> DEFINE i == s10.item
             p == s10.package
  <1>1. /\ s10.pc \in {"place", "put"} /\ UNCHANGED <<s1, s4, s5, s6, s7, s12>>
        /\ s8' = s8 \cup {p} /\ s9' = s9 \ {CB!Temporary}
        /\ s10' = [s10 EXCEPT !.pc = "drop"]
        /\ s10.pc = "put" \/ CB!At1(i, p.at) = {}
    BY DEF CB!Put, CB!At, CB!inputs
  <1>2. Works("drop", i, p, s10.previous, s10.todo)
    <2>1. s10 = [pc |-> s10.pc, doing |-> s10.doing, item |-> s10.item,
                 package |-> s10.package, previous |-> s10.previous, todo |-> s10.todo]
      BY BuildTypes DEF CB!BuildInv
    <2>2. QED
      BY <1>1, <2>1 DEF Works
  <1>3. /\ CB!At1(i, p.at) = {} /\ p # CB!NoPackage /\ p.item = i /\ p \in PackageSet
        /\ p.decision = s6[i].decision
    BY <1>1, BuildTypes DEF CB!BuildInv, CB!PackageFits, CB!At
  <1>4. \A q \in s8 : ~(q.item = i /\ q.at = p.at)
    BY <1>3 DEF CB!At1
  <1>5. /\ CB!Temporary' = CB!Temporary /\ CB!Previous' = CB!Previous
        /\ CB!NoPackage' = CB!NoPackage
    BY <1>1, <1>2 DEF Works, CB!Temporary, CB!Previous, CB!NoPackage
  <1>6. CB!Typed'
    BY <1>1, <1>2, <1>3, <1>5
       DEF CB!BuildInv, CB!Typed, CB!Packaged, Works, PackageSet
  <1>7. CB!HeldFits'
    BY <1>1, <1>2 DEF CB!BuildInv, CB!HeldFits, CB!At, CB!Frozen, CB!Packaged, Works
  <1>8. CB!PackageFits'
    BY <1>1, <1>2, <1>3, <1>5 DEF CB!BuildInv, CB!PackageFits, CB!At, Works
  <1>9. CB!PackagesStand'
    BY <1>1, <1>2, <1>3, <1>4, BuildAtWork
       DEF CB!BuildInv, CB!PackagesStand, CB!At, CB!Frozen, CB!Known, CB!PackagesOf,
           CB!Packaged, Works
  <1>10. CB!NothingLiesAbout'
    BY <1>1, <1>2, <1>5
       DEF CB!BuildInv, CB!NothingLiesAbout, CB!At, CB!Known, CB!Packaged, Works
  <1>11. QED
    BY <1>6, <1>7, <1>8, <1>9, <1>10 DEF CB!BuildInv

\* ... and its row says so, when what it replaces is removed;
LEMMA BuildDrop ==
  ASSUME CB!BuildInv, CB!Drop
  PROVE  CB!BuildInv'
  <1> DEFINE i == s10.item
             p == s10.package
  <1>1. /\ s10.pc = "drop" /\ UNCHANGED <<s1, s4, s5, s6, s12>>
        /\ s9' = IF s10.previous # CB!NoPackage THEN s9 \ {CB!Previous} ELSE s9
        /\ s8' = IF s10.doing = "repair" /\ s7[i].at # p.at
                 THEN s8 \ CB!At1(i, s7[i].at) ELSE s8
        /\ CB!Outcome(i, IF p.partial THEN "package_partial" ELSE "package_success", p.at)
        /\ s10' = [s10 EXCEPT !.pc = "checkpoint", !.previous = CB!NoPackage]
    BY DEF CB!Drop, CB!At, CB!inputs
  <1>2. Works("checkpoint", i, p, CB!NoPackage, s10.todo)
    <2>1. s10 = [pc |-> s10.pc, doing |-> s10.doing, item |-> s10.item,
                 package |-> s10.package, previous |-> s10.previous, todo |-> s10.todo]
      BY BuildTypes DEF CB!BuildInv
    <2>2. QED
      BY <1>1, <2>1 DEF Works
  <1>3. /\ p \in s8 /\ p.item = i /\ p \in PackageSet /\ p # CB!NoPackage /\ i \in Candidates
    BY <1>1, BuildTypes DEF CB!BuildInv, CB!PackageFits, CB!At
  <1>4. PICK at \in Nat, status \in CB!Packaged \cup {"package_failed"} :
            /\ at = p.at /\ status \in CB!Packaged
            /\ status = IF p.partial THEN "package_partial" ELSE "package_success"
    BY <1>3 DEF PackageSet, CB!Packaged
  <1>5. CB!Outcome(i, status, at)
    BY <1>1, <1>4
  <1>6. /\ s7' \in [Candidates -> RowSet]
        /\ s7'[i] = [decision |-> s7[i].decision, status |-> status, at |-> at]
        /\ \A j \in Candidates : j # i => s7'[j] = s7[j]
    BY <1>3, <1>5, BuildOutcome DEF CB!BuildInv
  <1>7. /\ s7'[i].decision = s7[i].decision /\ s7'[i].status \in CB!Packaged
        /\ s7'[i].at = p.at
    BY <1>4, <1>6
  <1>8. /\ CB!Previous.item = i /\ s5.at # "none" /\ s6[i].status # "none"
        /\ s7[i].status # "none" /\ i \notin s10.todo
        /\ s10.doing \in {"process", "repair"}
        /\ s10.doing = "process" => s6 = s7 /\ s7[i].status = "queued"
    BY <1>1, BuildAtWork
  <1>9. CB!NoPackage' = CB!NoPackage /\ s10.todo \subseteq Candidates
    BY BuildTypes DEF CB!NoPackage, CB!BuildInv
  <1>10. /\ s8' \subseteq s8 /\ p \in s8' /\ s9' \subseteq s9
         /\ \A q \in s8 : q \in s8' <=> ~(/\ s10.doing = "repair" /\ s7[i].at # p.at
                                          /\ q.item = i /\ q.at = s7[i].at)
         /\ \A l \in s9 : l \in s9' <=> ~(s10.previous # CB!NoPackage /\ l = CB!Previous)
    BY <1>1, <1>3 DEF CB!At1
  <1>11. UNCHANGED <<s1, s4, s5, s6, s12>> /\ s10.pc = "drop"
    BY <1>1
  <1> HIDE DEF i, p
  <1>12. CB!Typed'
    BY <1>2, <1>3, <1>6, <1>9, <1>10, <1>11
       DEF CB!BuildInv, CB!Typed, CB!Packaged, Works, RowSet, PackageSet
  <1>13. CB!HeldFits'
    BY <1>2, <1>3, <1>6, <1>7, <1>8, <1>9, <1>11
       DEF CB!BuildInv, CB!HeldFits, CB!At, CB!Frozen, CB!Packaged, Works
  <1>14. CB!PackageFits'
    BY <1>2, <1>9 DEF CB!PackageFits, CB!At, Works
  <1>15. CB!PackagesStand'
    <2>1. \A j \in Candidates : j # i => (CB!PackagesOf(j) # {} => CB!PackagesOf(j)' # {})
      BY <1>10 DEF CB!PackagesOf
    <2>2. \E o \in s8' : o.item = i
      BY <1>3, <1>10
    <2>3. \A l \in s9 : l.item # i => l \in s9'
      BY <1>8, <1>10
    <2>4. s10'.pc # "put" /\ s10.pc # "put" /\ s10.pc # "idle" /\ s10'.pc # "idle"
      BY <1>2, <1>11 DEF Works
    <2>5. ASSUME NEW j \in Candidates, s7'[j].status \in CB!Packaged
          PROVE  \/ CB!PackagesOf(j)' # {}
                 \/ \E l, m \in s9' : /\ l # m /\ l.item = j /\ m.item = j
                                      /\ l.life # s12.crashes /\ m.life # s12.crashes
      <3>1. CASE j = i
        BY <2>2, <3>1 DEF CB!PackagesOf
      <3>2. CASE j # i
        <4>1. \/ CB!PackagesOf(j) # {}
              \/ \E l, m \in s9 : /\ l # m /\ l.item = j /\ m.item = j
                                  /\ l.life # s12.crashes /\ m.life # s12.crashes
          BY <1>6, <2>4, <2>5, <3>2 DEF CB!BuildInv, CB!PackagesStand, CB!Known, CB!At
        <4>2. QED
          BY <2>1, <2>3, <3>2, <4>1
      <3>3. QED
        BY <3>1, <3>2
    <2>6. \A o \in s8' : o.item \in CB!Frozen' /\ o.decision = s6'[o.item].decision
      BY <1>10, <1>11 DEF CB!BuildInv, CB!PackagesStand, CB!Frozen
    <2>7. \A o, r \in s8' : o.item = r.item /\ o.at = r.at => o = r
      BY <1>10 DEF CB!BuildInv, CB!PackagesStand
    <2>8. QED
      BY <1>8, <1>11, <2>4, <2>5, <2>6, <2>7 DEF CB!PackagesStand, CB!Known, CB!At
  <1>16. CB!NothingLiesAbout'
    <2> SUFFICES ASSUME s12.crashes = 0, ~s12.forgot
                 PROVE  /\ s9' = {}
                        /\ \A q \in s8' : q.at = s7'[q.item].at
                                          /\ s7'[q.item].status \in CB!Packaged
      BY <1>2, <1>11 DEF CB!NothingLiesAbout, CB!At, CB!Known, Works
    <2>1. /\ s9 \subseteq IF s10.previous # CB!NoPackage THEN {CB!Previous} ELSE {}
          /\ \A q \in s8 : \/ q.at = s7[q.item].at /\ s7[q.item].status \in CB!Packaged
                           \/ q = p
      BY <1>11 DEF CB!BuildInv, CB!NothingLiesAbout, CB!At, CB!Known, p
    <2>2. s9' = {}
      BY <1>10, <2>1
    <2>3. \A q \in s8 : q.item = i /\ q.at = p.at => q = p
      BY <1>3 DEF CB!BuildInv, CB!PackagesStand
    <2>4. \A q \in s8 : q.item \in Candidates
      BY BuildTypes DEF CB!BuildInv, PackageSet
    <2>5. ASSUME NEW q \in s8'
          PROVE  q.at = s7'[q.item].at /\ s7'[q.item].status \in CB!Packaged
      <3>1. CASE q = p
        BY <1>3, <1>7, <3>1
      <3>2. CASE q # p /\ q.item # i
        BY <1>6, <1>10, <2>1, <2>4, <3>2
      <3>3. CASE q # p /\ q.item = i
        <4>1. q.at = s7[i].at /\ s7[i].status \in CB!Packaged
          BY <1>10, <2>1, <3>3
        <4>2. s10.doing = "repair"
          BY <1>8, <4>1 DEF CB!Packaged
        <4>3. QED
          BY <1>10, <2>3, <3>3, <4>1, <4>2
      <3>4. QED
        BY <3>1, <3>2, <3>3
    <2>6. QED
      BY <2>2, <2>5
  <1>17. QED
    BY <1>12, <1>13, <1>14, <1>15, <1>16 DEF CB!BuildInv

\* ... or what was set aside comes back.
LEMMA BuildRenderFails ==
  ASSUME CB!BuildInv, CB!RenderFails
  PROVE  CB!BuildInv'
  <1> DEFINE i == s10.item
             q == s10.previous
  <1>1. /\ s10.pc \in {"render", "place", "put"} /\ UNCHANGED <<s1, s4, s5, s6, s12>>
        /\ s8' = IF q = CB!NoPackage THEN s8 ELSE s8 \cup {q}
        /\ s9' = s9 \ ({CB!Temporary} \cup IF q = CB!NoPackage THEN {} ELSE {CB!Previous})
        /\ IF s10.doing = "repair" THEN s7' = s7 ELSE CB!Outcome(i, "package_failed", s7[i].at)
        /\ s10' = [s10 EXCEPT !.pc = "checkpoint", !.previous = CB!NoPackage]
    BY DEF CB!RenderFails, CB!At, CB!inputs
  <1>2. Works("checkpoint", i, s10.package, CB!NoPackage, s10.todo)
    <2>1. s10 = [pc |-> s10.pc, doing |-> s10.doing, item |-> s10.item,
                 package |-> s10.package, previous |-> s10.previous, todo |-> s10.todo]
      BY BuildTypes DEF CB!BuildInv
    <2>2. QED
      BY <1>1, <2>1 DEF Works
  <1>3. /\ i \in Candidates /\ s7[i].at \in Nat /\ s5.at # "none" /\ s6[i].status # "none"
        /\ s7[i].status # "none" /\ i \notin s10.todo /\ s12.crashes \in Nat
        /\ s10.doing \in {"process", "repair"}
        /\ CB!Temporary.item = i /\ CB!Temporary.life = s12.crashes
        /\ CB!Previous.item = i /\ CB!Previous.life = 0 - 1
        /\ s10.doing = "repair" => s7[i].status \in CB!Packaged
        /\ s10.doing = "process" => s6 = s7 /\ s7[i].status = "queued"
    BY <1>1, BuildAtWork
  <1>4. /\ s7' \in [Candidates -> RowSet]
        /\ s7'[i].decision = s7[i].decision
        /\ s10.doing = "repair" => s7' = s7
        /\ s10.doing # "repair" => s7'[i].status = "package_failed"
        /\ \A j \in Candidates : j # i => s7'[j] = s7[j]
    <2>1. CASE s10.doing = "repair"
      BY <1>1, <2>1, BuildTypes DEF CB!BuildInv
    <2>2. CASE s10.doing # "repair"
      <3>1. PICK at \in Nat, status \in CB!Packaged \cup {"package_failed"} :
                at = s7[i].at /\ status = "package_failed"
        BY <1>3
      <3>2. CB!Outcome(i, status, at) /\ CB!Typed
        BY <1>1, <2>2, <3>1 DEF CB!BuildInv
      <3>3. /\ s7' \in [Candidates -> RowSet]
            /\ s7'[i] = [decision |-> s7[i].decision, status |-> status, at |-> at]
            /\ \A j \in Candidates : j # i => s7'[j] = s7[j]
        BY <1>3, <3>2, BuildOutcome
      <3>4. QED
        BY <2>2, <3>1, <3>3
    <2>3. QED
      BY <2>1, <2>2
  <1>5. CB!NoPackage' = CB!NoPackage /\ s10.todo \subseteq Candidates
        /\ s8 \subseteq PackageSet /\ q \in PackageSet \cup {CB!NoPackage}
    BY BuildTypes DEF CB!NoPackage, CB!BuildInv
  <1>6. q # CB!NoPackage =>
            /\ s10.pc = "put" /\ q.item = i /\ s10.doing = "repair"
            /\ q.at = s10.package.at /\ q.decision = s6[i].decision
            /\ \A p \in s8 : ~(p.item = i /\ p.at = q.at)
    BY <1>1 DEF CB!BuildInv, CB!PackageFits, CB!At, CB!At1
  <1>7. s10.pc = "put" => q # CB!NoPackage
    BY DEF CB!BuildInv, CB!PackageFits, CB!At
  <1>8. /\ s8 \subseteq s8' /\ s9' \subseteq s9
        /\ \A p \in s8' : p \in s8 \/ (q # CB!NoPackage /\ p = q)
        /\ q # CB!NoPackage => q \in s8'
        /\ \A l \in s9 : l \in s9' <=> ~(\/ l = CB!Temporary
                                         \/ q # CB!NoPackage /\ l = CB!Previous)
    BY <1>1
  <1>9. UNCHANGED <<s1, s4, s5, s6, s12>> /\ s10.pc \in {"render", "place", "put"}
    BY <1>1
  <1> HIDE DEF i, q
  <1>10. CB!Typed'
    BY <1>2, <1>3, <1>4, <1>5, <1>8, <1>9
       DEF CB!BuildInv, CB!Typed, CB!Packaged, Works, RowSet, PackageSet
  <1>11. CB!HeldFits'
    BY <1>2, <1>3, <1>4, <1>5, <1>9
       DEF CB!BuildInv, CB!HeldFits, CB!At, CB!Frozen, CB!Packaged, Works
  <1>12. CB!PackageFits'
    BY <1>2, <1>5 DEF CB!PackageFits, CB!At, Works
  <1>13. CB!PackagesStand'
    <2>1. \A j \in Candidates : CB!PackagesOf(j) # {} => CB!PackagesOf(j)' # {}
      BY <1>8 DEF CB!PackagesOf
    <2>2. s10.pc = "put" => \E o \in s8' : o.item = i
      BY <1>6, <1>7, <1>8
    <2>3. \A l \in s9 : l.life # s12.crashes => l \in s9' \/ (s10.pc = "put" /\ l.item = i)
      BY <1>3, <1>6, <1>8
    <2>4. s10'.pc # "put" /\ s10.pc # "idle" /\ s10'.pc # "idle"
      BY <1>2, <1>9 DEF Works
    <2>5. \A p \in s8' : p.item \in CB!Frozen' /\ p.decision = s6'[p.item].decision
      BY <1>3, <1>6, <1>8, <1>9 DEF CB!BuildInv, CB!PackagesStand, CB!Frozen
    <2>6. \A p, o \in s8' : p.item = o.item /\ p.at = o.at => p = o
      BY <1>6, <1>8 DEF CB!BuildInv, CB!PackagesStand
    <2>7. \A j \in Candidates : s7'[j].status \in CB!Packaged => s7[j].status \in CB!Packaged
      BY <1>4 DEF CB!Packaged
    <2>8. ASSUME NEW j \in Candidates, s7'[j].status \in CB!Packaged
          PROVE  \/ CB!PackagesOf(j)' # {}
                 \/ \E l, m \in s9' : /\ l # m /\ l.item = j /\ m.item = j
                                      /\ l.life # s12.crashes /\ m.life # s12.crashes
      <3>1. \/ CB!PackagesOf(j) # {}
            \/ \E l, m \in s9 : /\ l # m /\ l.item = j /\ m.item = j
                                /\ l.life # s12.crashes /\ m.life # s12.crashes
            \/ s10.pc = "put" /\ j = i
        BY <2>4, <2>7, <2>8 DEF CB!BuildInv, CB!PackagesStand, CB!Known, CB!At, i
      <3>2. CASE s10.pc = "put" /\ j = i
        BY <2>2, <3>2 DEF CB!PackagesOf
      <3>3. CASE ~(s10.pc = "put" /\ j = i)
        BY <2>1, <2>3, <3>1, <3>3
      <3>4. QED
        BY <3>2, <3>3
    <2>9. QED
      BY <1>3, <1>9, <2>4, <2>5, <2>6, <2>8 DEF CB!PackagesStand, CB!Known, CB!At
  <1>14. CB!NothingLiesAbout'
    <2> SUFFICES ASSUME s12.crashes = 0, ~s12.forgot
                 PROVE  /\ s9' = {}
                        /\ \A p \in s8' : p.at = s7'[p.item].at
                                          /\ s7'[p.item].status \in CB!Packaged
      BY <1>2, <1>9 DEF CB!NothingLiesAbout, CB!At, CB!Known, Works
    <2>1. /\ s9 \subseteq {CB!Temporary} \cup (IF q # CB!NoPackage THEN {CB!Previous} ELSE {})
          /\ \A p \in s8 : p.at = s7[p.item].at /\ s7[p.item].status \in CB!Packaged
          /\ s10.pc = "put" => q.at = s7[i].at
      BY <1>9 DEF CB!BuildInv, CB!NothingLiesAbout, CB!At, CB!Known, q, i
    <2>2. s9' = {}
      BY <1>8, <2>1
    <2>3. \A p \in s8 : p.item \in Candidates
      BY <1>5 DEF PackageSet
    <2>4. ASSUME NEW p \in s8'
          PROVE  p.at = s7'[p.item].at /\ s7'[p.item].status \in CB!Packaged
      <3>1. CASE p \in s8
        BY <1>3, <1>4, <2>1, <2>3, <3>1 DEF CB!Packaged
      <3>2. CASE p \notin s8
        BY <1>3, <1>4, <1>6, <1>8, <2>1, <3>2
      <3>3. QED
        BY <3>1, <3>2
    <2>5. QED
      BY <2>2, <2>4
  <1>15. QED
    BY <1>10, <1>11, <1>12, <1>13, <1>14 DEF CB!BuildInv

\* process writes its manifest, a repair goes on without;
LEMMA BuildCheckpoint ==
  ASSUME CB!BuildInv, CB!Checkpoint
  PROVE  CB!BuildInv'
  <1>1. /\ s10.pc = "checkpoint" /\ UNCHANGED <<s1, s4, s5, s7, s8, s9, s12>>
        /\ s6' = IF s10.doing = "process" THEN s7 ELSE s6
        /\ s10' = [s10 EXCEPT !.pc = "pick"]
    BY DEF CB!Checkpoint, CB!At, CB!inputs
  <1>2. Works("pick", s10.item, s10.package, s10.previous, s10.todo)
    <2>1. s10 = [pc |-> s10.pc, doing |-> s10.doing, item |-> s10.item,
                 package |-> s10.package, previous |-> s10.previous, todo |-> s10.todo]
      BY BuildTypes DEF CB!BuildInv
    <2>2. QED
      BY <1>1, <2>1 DEF Works
  <1>3. \A j \in Candidates : /\ s7[j].decision = s6[j].decision
                              /\ s7[j].status = "none" <=> s6[j].status = "none"
                              /\ s6[j].status \in CB!Packaged => s7[j].status \in CB!Packaged
    BY <1>1 DEF CB!BuildInv, CB!HeldFits, CB!At
  <1>4. /\ s6' \in [Candidates -> RowSet]
        /\ \A j \in Candidates : /\ s6'[j].decision = s6[j].decision
                                 /\ s6'[j].status = "none" <=> s6[j].status = "none"
                                 /\ s6'[j].status \in CB!Packaged => s7[j].status \in CB!Packaged
        /\ s10.doing = "process" => s6' = s7
    BY <1>1, <1>3, BuildTypes DEF CB!BuildInv
  <1>5. /\ s8 \subseteq PackageSet /\ s10.previous = CB!NoPackage /\ s5.at # "none"
        /\ s10.todo \subseteq Candidates /\ CB!NoPackage' = CB!NoPackage
    BY <1>1, BuildTypes DEF CB!BuildInv, CB!HeldFits, CB!PackageFits, CB!At, CB!NoPackage
  <1>6. CB!Typed'
    BY <1>1, <1>2, <1>4, <1>5 DEF CB!BuildInv, CB!Typed, CB!Packaged, Works, RowSet
  <1>7. CB!HeldFits'
    BY <1>1, <1>2, <1>3, <1>4, <1>5
       DEF CB!BuildInv, CB!HeldFits, CB!At, CB!Frozen, CB!Packaged, Works
  <1>8. CB!PackageFits'
    BY <1>2, <1>5 DEF CB!PackageFits, CB!At, Works
  <1>9. CB!PackagesStand'
    BY <1>1, <1>2, <1>4, <1>5
       DEF CB!BuildInv, CB!PackagesStand, CB!At, CB!Frozen, CB!Known, CB!PackagesOf,
           Works, PackageSet
  <1>10. CB!NothingLiesAbout'
    BY <1>1, <1>2, <1>4, <1>5
       DEF CB!BuildInv, CB!NothingLiesAbout, CB!At, CB!Known, Works
  <1>11. QED
    BY <1>6, <1>7, <1>8, <1>9, <1>10 DEF CB!BuildInv

\* ... and failed rows wait again.
LEMMA BuildRetry ==
  ASSUME CB!BuildInv, CB!RetryFailed
  PROVE  CB!BuildInv'
  <1>1. /\ s10.pc = "idle" /\ UNCHANGED <<s1, s4, s5, s7, s8, s9, s10, s12>>
        /\ s6' = [j \in Candidates |-> IF s6[j].status = "package_failed"
                                       THEN [s6[j] EXCEPT !.status = "queued"] ELSE s6[j]]
    BY DEF CB!RetryFailed, CB!At, CB!inputs
  <1>2. s6 \in [Candidates -> RowSet] /\ s8 \subseteq PackageSet
    BY BuildTypes DEF CB!BuildInv
  <1>3. \A j \in Candidates :
            /\ s6'[j] \in RowSet
            /\ s6'[j].decision = s6[j].decision /\ s6'[j].at = s6[j].at
            /\ s6'[j].status = "none" <=> s6[j].status = "none"
            /\ s6'[j].status \in CB!Packaged <=> s6[j].status \in CB!Packaged
    BY <1>1, <1>2 DEF RowSet, CB!Packaged
  <1>4. s6' \in [Candidates -> RowSet]
    BY <1>1, <1>3
  <1>5. CB!Typed'
    BY <1>1, <1>4 DEF CB!BuildInv, CB!Typed, CB!NoPackage, CB!Packaged, RowSet
  <1>6. CB!HeldFits'
    BY <1>1 DEF CB!HeldFits, CB!At
  <1>7. CB!PackageFits'
    BY <1>1 DEF CB!BuildInv, CB!PackageFits, CB!At, CB!NoPackage
  <1>8. CB!PackagesStand'
    BY <1>1, <1>2, <1>3
       DEF CB!BuildInv, CB!PackagesStand, CB!At, CB!Frozen, CB!Known, CB!PackagesOf, PackageSet
  <1>9. CB!NothingLiesAbout'
    BY <1>1, <1>2, <1>3
       DEF CB!BuildInv, CB!NothingLiesAbout, CB!At, CB!Known, PackageSet
  <1>10. QED
    BY <1>5, <1>6, <1>7, <1>8, <1>9 DEF CB!BuildInv

\* Every step keeps it,
LEMMA BuildNext ==
  ASSUME Candidates # {}, CB!BuildInv, CB!Next
  PROVE  CB!BuildInv'
  <1>1. CASE CB!Finalize \/ CB!Validate
    <2>1. /\ UNCHANGED <<s6, s7, s8, s9, s10>> /\ s1' = s1 /\ s4' = s4 /\ s12' = s12
          /\ s5'.at = "none" <=> s5.at = "none"
          /\ DOMAIN s5' = DOMAIN s5
      <3>1. "at" \in DOMAIN s5
        BY BuildTypes DEF CB!BuildInv
      <3>2. QED
        BY <1>1, <3>1 DEF CB!Finalize, CB!Validate, CB!inputs, CB!build, CB!At
    <2>2. /\ s1 \in [Candidates -> Nat] /\ s4 \in [Candidates -> Nat \ {0}]
          /\ s12 \in [changes : Nat, crashes : {s12.crashes}, forgot : {s12.forgot}]
      BY BuildTypes DEF CB!BuildInv, CB!Typed
    <2>3. QED
      BY <2>1, <2>2, BuildQuiet
  <1>2. CASE CB!Recapture \/ \E i \in Candidates : CB!Decide(i) \/ CB!Redate(i)
    <2>1. /\ UNCHANGED <<s6, s7, s8, s9, s10>> /\ s5' = s5
          /\ s12' = [s12 EXCEPT !.changes = @ + 1]
          /\ \/ UNCHANGED <<s1, s4>>
             \/ \E i \in Candidates : s1' = [s1 EXCEPT ![i] = @ + 1] /\ s4' = s4
             \/ \E i \in Candidates : s4' = [s4 EXCEPT ![i] = @ + 1] /\ s1' = s1
      BY <1>2 DEF CB!Recapture, CB!Decide, CB!Redate, CB!Change, CB!build
    <2>2. s1 \in [Candidates -> Nat] /\ s4 \in [Candidates -> Nat \ {0}]
      BY DEF CB!BuildInv, CB!Typed
    <2>3. s1' \in [Candidates -> Nat] /\ s4' \in [Candidates -> Nat \ {0}]
      BY <2>1, <2>2
    <2>4. s12' \in [changes : Nat, crashes : {s12.crashes}, forgot : {s12.forgot}]
      BY <2>1, BuildTypes DEF CB!BuildInv
    <2>5. QED
      BY <2>1, <2>3, <2>4, BuildQuiet
  <1>3. CASE CB!SetAside
    BY <1>3, BuildSetAside, BuildCollides
  <1>4. QED
    BY <1>1, <1>2, <1>3, BuildStart, BuildBegins, BuildEnds, BuildPick, BuildRender, BuildPut,
       BuildDrop, BuildRenderFails, BuildCheckpoint, BuildRetry DEF CB!Next

\* ... and it says more than what was promised.
LEMMA BuildHolds ==
  ASSUME CB!BuildInv
  PROVE  CB!BuildIsSound
  <1>1. /\ s8 \subseteq PackageSet
        /\ \A l \in s9 : l.item \in Candidates /\ l = [item |-> l.item, life |-> l.life]
    BY BuildTypes DEF CB!BuildInv
  <1>2. CB!PackagesAreFrozen
    BY DEF CB!BuildInv, CB!PackagesStand, CB!NothingLiesAbout, CB!PackagesAreFrozen, CB!At,
           CB!Known
  <1>3. CB!PassedMeansWhole
    <2> SUFFICES ASSUME s10.pc = "idle", CB!Passes
                 PROVE  /\ s9 = {}
                        /\ \A i \in CB!Frozen :
                               IF s6[i].status \in CB!Packaged
                               THEN \E p \in s8 : CB!PackagesOf(i) = {p}
                                                  /\ p.decision = s6[i].decision
                               ELSE CB!PackagesOf(i) = {}
      BY DEF CB!PassedMeansWhole, CB!At
    <2>1. /\ \A p, q \in s8 \cup s9 : p.item = q.item => p = q
          /\ \A p \in s8 \cup s9 : p.item \in CB!InStatus(s6, CB!Packaged)
      BY DEF CB!Passes
    <2>2. \A p \in s8 \cup s9 : s6[p.item].status \in CB!Packaged
      BY <2>1 DEF CB!InStatus
    <2>3. ASSUME NEW i \in Candidates, s6[i].status \in CB!Packaged
          PROVE  \E p \in s8 : p.item = i
      <3>1. \/ CB!PackagesOf(i) # {}
            \/ \E l, m \in s9 : l # m /\ l.item = i /\ m.item = i
        BY <2>3 DEF CB!BuildInv, CB!PackagesStand, CB!Known, CB!At
      <3>2. CB!PackagesOf(i) # {}
        BY <2>1, <3>1
      <3>3. QED
        BY <3>2 DEF CB!PackagesOf
    <2>4. ASSUME NEW l \in s9
          PROVE  FALSE
      <3>1. PICK p \in s8 : p.item = l.item
        BY <1>1, <2>2, <2>3
      <3>2. p = l /\ p \in PackageSet
        BY <1>1, <2>1, <3>1
      <3>3. QED
        BY <1>1, <3>2, PackagesAreRendered
    <2>5. ASSUME NEW i \in CB!Frozen, s6[i].status \in CB!Packaged
          PROVE  \E p \in s8 : CB!PackagesOf(i) = {p} /\ p.decision = s6[i].decision
      <3>1. PICK p \in s8 : p.item = i
        BY <2>3, <2>5 DEF CB!Frozen
      <3>2. CB!PackagesOf(i) = {p}
        BY <2>1, <3>1 DEF CB!PackagesOf
      <3>3. p.decision = s6[i].decision
        BY <3>1 DEF CB!BuildInv, CB!PackagesStand
      <3>4. QED
        BY <3>2, <3>3
    <2>6. ASSUME NEW i \in CB!Frozen, s6[i].status \notin CB!Packaged
          PROVE  CB!PackagesOf(i) = {}
      BY <2>2, <2>6 DEF CB!PackagesOf
    <2>7. QED
      BY <2>4, <2>5, <2>6
  <1>4. QED
    BY <1>2, <1>3 DEF CB!BuildIsSound

\* While another component moves nothing changes.
LEMMA BuildStays ==
  ASSUME CB!BuildInv, UNCHANGED <<s1, s4, s5, s6, s7, s8, s9, s10, s12>>
  PROVE  CB!BuildInv'
  <1>1. /\ s1 \in [Candidates -> Nat] /\ s4 \in [Candidates -> Nat \ {0}]
        /\ s12 \in [changes : Nat, crashes : {s12.crashes}, forgot : {s12.forgot}]
    BY BuildTypes DEF CB!BuildInv, CB!Typed
  <1>2. QED
    BY <1>1, BuildQuiet

-----------------------------------------------------------------------------
(***************************************************************************)
(* The sample of a backfill.  In a finite set with a strict total order,   *)
(* the number of those before each is a bijection to 0, 1, 2, ..., so that *)
(* the members whose numbers are in some set are as many as that set has.  *)
(***************************************************************************)
Before(S, L, k) == {j \in S : <<j, k>> \in L}

Ordered(S, L) ==
    /\ \A j, k, l \in S : <<j, k>> \in L /\ <<k, l>> \in L => <<j, l>> \in L
    /\ \A k \in S : <<k, k>> \notin L
    /\ \A j, k \in S : j # k => <<j, k>> \in L \/ <<k, j>> \in L

Numbers(S, L) == [k \in S |-> Cardinality(Before(S, L, k))]

LEMMA NumbersCount ==
  ASSUME NEW S, IsFiniteSet(S), NEW L, Ordered(S, L)
  PROVE  /\ Numbers(S, L) \in Bijection(S, 0..Cardinality(S) - 1)
         /\ IsFiniteSet(0..Cardinality(S) - 1)
  <1> DEFINE N == Numbers(S, L)
             T == 0..Cardinality(S) - 1
  <1>1. Cardinality(S) \in Nat
    BY FS_CardinalityType
  <1>2. \A k \in S : /\ Before(S, L, k) \in SUBSET S /\ IsFiniteSet(Before(S, L, k))
                     /\ N[k] = Cardinality(Before(S, L, k)) /\ N[k] \in Nat
    BY FS_Subset, FS_CardinalityType DEF Before, Numbers
  <1>3. ASSUME NEW k \in S
        PROVE  N[k] \in T
    <2>1. Before(S, L, k) \in SUBSET (S \ {k})
      BY DEF Before, Ordered
    <2>2. IsFiniteSet(S \ {k}) /\ Cardinality(S \ {k}) = Cardinality(S) - 1
      BY FS_RemoveElement
    <2>3. Cardinality(Before(S, L, k)) <= Cardinality(S) - 1
      BY <2>1, <2>2, FS_Subset
    <2>4. QED
      BY <1>1, <1>2, <2>3
  <1>4. ASSUME NEW j \in S, NEW k \in S, <<j, k>> \in L
        PROVE  N[j] # N[k]
    <2>1. Before(S, L, j) \in SUBSET Before(S, L, k)
      BY <1>4 DEF Before, Ordered
    <2>2. j \in Before(S, L, k) /\ j \notin Before(S, L, j)
      BY <1>4 DEF Before, Ordered
    <2>3. QED
      BY <1>2, <2>1, <2>2, FS_Subset
  <1>5. N \in [S -> T]
    BY <1>3 DEF Numbers
  <1> HIDE DEF N, T
  <1>6. N \in Injection(S, T)
    <2>1. \A j, k \in S : N[j] = N[k] => j = k
      BY <1>4 DEF Ordered
    <2>2. QED
      BY <1>5, <2>1 DEF Injection, IsInjective
  <1>7. IsFiniteSet(T) /\ Cardinality(T) = Cardinality(S)
    <2>1. 0 \in Int /\ Cardinality(S) - 1 \in Int
      BY <1>1
    <2>2. /\ IsFiniteSet(0..Cardinality(S) - 1)
          /\ Cardinality(0..Cardinality(S) - 1) =
                 IF 0 > Cardinality(S) - 1 THEN 0 ELSE Cardinality(S) - 1 - 0 + 1
      BY <2>1, FS_Interval
    <2>3. QED
      BY <1>1, <2>2 DEF T
  <1>8. N \in Surjection(S, T)
    BY <1>6, <1>7, FS_Injection
  <1>9. QED
    BY <1>6, <1>7, <1>8 DEF Bijection, N, T

\* The members whose numbers are in V.
Numbered(S, L, V) == {k \in S : Cardinality(Before(S, L, k)) \in V}

LEMMA NumberedCount ==
  ASSUME NEW S, IsFiniteSet(S), NEW L, Ordered(S, L),
         NEW V \in SUBSET (0..Cardinality(S) - 1)
  PROVE  /\ IsFiniteSet(Numbered(S, L, V))
         /\ Cardinality(Numbered(S, L, V)) = Cardinality(V)
  <1> DEFINE N == Numbers(S, L)
             T == Numbered(S, L, V)
             g == [k \in T |-> N[k]]
  <1>1. N \in Bijection(S, 0..Cardinality(S) - 1)
    BY NumbersCount
  <1>2. /\ \A j, k \in S : N[j] = N[k] => j = k
        /\ \A v \in 0..Cardinality(S) - 1 : \E k \in S : N[k] = v
        /\ N \in [S -> 0..Cardinality(S) - 1]
    BY <1>1 DEF Bijection, Injection, Surjection, IsInjective
  <1>3. \A k \in S : k \in T <=> N[k] \in V
    BY DEF Numbered, Numbers
  <1>4. T \in SUBSET S /\ IsFiniteSet(T)
    <2>1. T \in SUBSET S
      BY DEF Numbered
    <2>2. QED
      BY <2>1, FS_Subset
  <1> HIDE DEF N, T
  <1>5. g \in [T -> V]
    BY <1>3, <1>4
  <1>6. g \in Injection(T, V)
    <2>1. \A j, k \in T : g[j] = g[k] => j = k
      BY <1>2, <1>4
    <2> HIDE DEF g
    <2>2. QED
      BY <1>5, <2>1 DEF Injection, IsInjective
  <1>7. g \in Surjection(T, V)
    <2>1. \A v \in V : \E k \in T : g[k] = v
      BY <1>2, <1>3
    <2> HIDE DEF g
    <2>2. QED
      BY <1>5, <2>1 DEF Surjection
  <1>8. ExistsBijection(T, V)
    BY <1>6, <1>7 DEF ExistsBijection, Bijection
  <1>9. QED
    BY <1>4, <1>8, FS_Bijection DEF T

\* The first n of them.
Firsts(S, L, n) == {k \in S : Cardinality(Before(S, L, k)) < n}

LEMMA FirstCount ==
  ASSUME NEW S, IsFiniteSet(S), NEW L, Ordered(S, L), NEW n \in Nat
  PROVE  /\ IsFiniteSet(Firsts(S, L, n)) /\ Firsts(S, L, n) \subseteq S
         /\ Cardinality(Firsts(S, L, n)) = IF n < Cardinality(S) THEN n ELSE Cardinality(S)
  <1> DEFINE F == Firsts(S, L, n)
  <1>0. F \subseteq S
    BY DEF Firsts
  <1>1. Cardinality(S) \in Nat
    BY FS_CardinalityType
  <1>2. \A k \in S : Cardinality(Before(S, L, k)) \in 0..Cardinality(S) - 1
    <2>1. Numbers(S, L) \in [S -> 0..Cardinality(S) - 1]
      BY NumbersCount DEF Bijection, Injection
    <2>2. \A k \in S : Numbers(S, L)[k] = Cardinality(Before(S, L, k))
      BY DEF Numbers
    <2>3. QED
      BY <2>1, <2>2
  <1>3. CASE n < Cardinality(S)
    <2>1. 0..n - 1 \in SUBSET (0..Cardinality(S) - 1)
      BY <1>1, <1>3
    <2>2. F = Numbered(S, L, 0..n - 1)
      BY <1>2 DEF Numbered, Firsts
    <2>3. Cardinality(0..n - 1) = n
      <3>1. 0 \in Int /\ n - 1 \in Int
        OBVIOUS
      <3>2. Cardinality(0..n - 1) = IF 0 > n - 1 THEN 0 ELSE n - 1 - 0 + 1
        BY <3>1, FS_Interval
      <3>3. QED
        BY <3>2
    <2>4. PICK V \in SUBSET (0..Cardinality(S) - 1) : V = 0..n - 1
      BY <2>1
    <2>5. IsFiniteSet(Numbered(S, L, V)) /\ Cardinality(Numbered(S, L, V)) = Cardinality(V)
      BY NumberedCount
    <2>6. QED
      BY <1>0, <1>3, <2>2, <2>3, <2>4, <2>5
  <1>4. CASE ~(n < Cardinality(S))
    <2>1. F = S
      BY <1>1, <1>2, <1>4 DEF Firsts
    <2>2. QED
      BY <1>4, <2>1
  <1>5. QED
    BY <1>3, <1>4

\* _evenly_spaced: each of the `count` multiples is of another number.
LEMMA SpacedCount ==
  ASSUME NEW total \in Nat, NEW count \in Nat
  PROVE  /\ CF!SpacedRanks(total, count) \in SUBSET (0..total - 1)
         /\ Cardinality(CF!SpacedRanks(total, count)) = IF count < total THEN count ELSE total
  <1>1. CASE count >= total
    <2>1. CF!SpacedRanks(total, count) = 0..total - 1
      BY <1>1 DEF CF!SpacedRanks
    <2>2. 0 \in Int /\ total - 1 \in Int
      OBVIOUS
    <2>3. Cardinality(0..total - 1) = IF 0 > total - 1 THEN 0 ELSE total - 1 - 0 + 1
      BY <2>2, FS_Interval
    <2>4. QED
      BY <1>1, <2>1, <2>3
  <1>2. CASE count < total
    <2> DEFINE D == 0..count - 1
               f == [r \in D |-> (r * total) \div count]
               V == CF!SpacedRanks(total, count)
    <2>1. V = {(r * total) \div count : r \in D}
      BY <1>2 DEF CF!SpacedRanks
    <2>2. ASSUME NEW r \in D
          PROVE  f[r] \in 0..total - 1
      <3>1. count > 0 /\ r * total \in Nat /\ r * total < count * total
        BY <1>2
      <3>2. (r * total) \div count \in Nat /\ (r * total) \div count < total
        BY <1>2, <3>1
      <3>3. QED
        BY <3>2
    <2>3. ASSUME NEW q \in D, NEW r \in D, q < r
          PROVE  f[q] # f[r]
      <3>1. r * total >= q * total + total
        <4>1. PICK d \in Nat : r = q + 1 + d
          BY <2>3
        <4>2. r * total = q * total + total + d * total /\ d * total >= 0
          BY <4>1
        <4>3. QED
          BY <4>2
      <3>2. PICK a \in Nat, b \in Nat : a = q * total /\ b = r * total
        OBVIOUS
      <3>3. b > a + count
        BY <1>2, <3>1, <3>2
      <3>4. a \div count # b \div count
        BY <1>2, <3>3
      <3>5. QED
        BY <3>2, <3>4
    <2>4. \A q, r \in D : f[q] = f[r] => q = r
      <3>1. \A q, r \in D : q < r \/ r < q \/ q = r
        OBVIOUS
      <3>2. QED
        BY <2>3, <3>1
    <2>5. V \in SUBSET (0..total - 1)
      BY <2>1, <2>2
    <2>6. f \in [D -> V] /\ \A v \in V : \E r \in D : f[r] = v
      BY <2>1
    <2>7. IsFiniteSet(D) /\ Cardinality(D) = count
      <3>1. 0 \in Int /\ count - 1 \in Int
        OBVIOUS
      <3>2. /\ IsFiniteSet(0..count - 1)
            /\ Cardinality(0..count - 1) = IF 0 > count - 1 THEN 0 ELSE count - 1 - 0 + 1
        BY <3>1, FS_Interval
      <3>3. QED
        BY <3>2
    <2> HIDE DEF f, D, V
    <2>8. f \in Bijection(D, V)
      BY <2>4, <2>6 DEF Bijection, Injection, Surjection, IsInjective
    <2>9. Cardinality(V) = count
      BY <2>7, <2>8, FS_Bijection DEF ExistsBijection
    <2>10. QED
      BY <1>2, <2>5, <2>9 DEF V
  <1>3. QED
    BY <1>1, <1>2

\* Pairs of numbers put a set in order, if no two members have the same pair.
Lexical(S, a, b) ==
    {p \in S \X S : a[p[1]] < a[p[2]] \/ (a[p[1]] = a[p[2]] /\ b[p[1]] < b[p[2]])}

LEMMA LexicalOrder ==
  ASSUME NEW S, NEW a \in [S -> Nat], NEW b \in [S -> Nat],
         \A j, k \in S : a[j] = a[k] /\ b[j] = b[k] => j = k
  PROVE  Ordered(S, Lexical(S, a, b))
  <1>1. \A j, k \in S : <<j, k>> \in Lexical(S, a, b)
                            <=> a[j] < a[k] \/ (a[j] = a[k] /\ b[j] < b[k])
    BY DEF Lexical
  <1>2. \A k \in S : a[k] \in Nat /\ b[k] \in Nat
    OBVIOUS
  <1>3. QED
    BY <1>1, <1>2 DEF Ordered

\* The rank of an item in its bucket.
LEMMA RanksOfBucket ==
  ASSUME NEW N \in Nat, NEW catalog \in [1..N -> Nat]
  PROVE  /\ \A k \in 1..N : CF!Rank(catalog, k) \in Nat
         /\ \A j, k \in 1..N :
                CF!Rank(catalog, j) = CF!Rank(catalog, k) /\ catalog[j] = catalog[k] => j = k
         /\ \A v \in Nat : \E L :
                /\ Ordered(CF!InBucket(catalog, v), L)
                /\ \A k \in CF!InBucket(catalog, v) :
                     CF!Rank(catalog, k) = Cardinality(Before(CF!InBucket(catalog, v), L, k))
  <1> DEFINE B(v) == CF!InBucket(catalog, v)
             Order(v) == Lexical(B(v), [k \in B(v) |-> k], [k \in B(v) |-> 0])
  <1>1. ASSUME NEW v \in Nat
        PROVE  /\ IsFiniteSet(B(v)) /\ B(v) \subseteq 1..N /\ Ordered(B(v), Order(v))
               /\ \A k \in B(v) : CF!Rank(catalog, k) = Cardinality(Before(B(v), Order(v), k))
    <2>1. B(v) \in SUBSET (1..N) /\ \A k \in B(v) : catalog[k] = v
      BY DEF CF!InBucket
    <2>2. IsFiniteSet(1..N)
      BY FS_Interval
    <2>3. PICK S : S = B(v)
      OBVIOUS
    <2>4a. PICK a, b : a = [k \in S |-> k] /\ b = [k \in S |-> 0]
      OBVIOUS
    <2>4. a \in [S -> Nat] /\ b \in [S -> Nat]
      BY <2>1, <2>3, <2>4a
    <2>5. Ordered(S, Lexical(S, a, b))
      <3>1. \A j, k \in S : a[j] = a[k] /\ b[j] = b[k] => j = k
        BY <2>4a
      <3>2. QED
        BY <2>4, <3>1, LexicalOrder
    <2>6. ASSUME NEW k \in S
          PROVE  CF!Rank(catalog, k) = Cardinality(Before(S, Lexical(S, a, b), k))
      <3>1. CF!Rank(catalog, k) = Cardinality({j \in S : j < k})
        BY <2>1, <2>3 DEF CF!Rank, CF!Cardinality, Cardinality
      <3>2. {j \in S : j < k} = Before(S, Lexical(S, a, b), k)
        <4>1. \A j \in S : j < k <=> <<j, k>> \in Lexical(S, a, b)
          BY <2>1, <2>3, <2>4a DEF Lexical
        <4>2. QED
          BY <4>1 DEF Before
      <3>3. QED
        BY <3>1, <3>2
    <2>7. Order(v) = Lexical(S, a, b)
      BY <2>3, <2>4a
    <2>8. QED
      BY <2>1, <2>2, <2>3, <2>5, <2>6, <2>7, FS_Subset
  <1>2. \A k \in 1..N : catalog[k] \in Nat /\ k \in B(catalog[k])
    BY DEF CF!InBucket
  <1> HIDE DEF B, Order
  <1>3. ASSUME NEW v \in Nat
        PROVE  /\ \A k \in B(v) : CF!Rank(catalog, k) \in Nat
               /\ \A j, k \in B(v) : CF!Rank(catalog, j) = CF!Rank(catalog, k) => j = k
    <2>1. PICK S, L : S = B(v) /\ L = Order(v)
      OBVIOUS
    <2>2. /\ IsFiniteSet(S) /\ Ordered(S, L)
          /\ \A k \in S : CF!Rank(catalog, k) = Cardinality(Before(S, L, k))
      BY <1>1, <2>1
    <2>3. Numbers(S, L) \in Bijection(S, 0..Cardinality(S) - 1) /\ Cardinality(S) \in Nat
      BY <2>2, NumbersCount, FS_CardinalityType
    <2>4. /\ Numbers(S, L) \in [S -> 0..Cardinality(S) - 1]
          /\ \A j, k \in S : Numbers(S, L)[j] = Numbers(S, L)[k] => j = k
      BY <2>3 DEF Bijection, Injection, IsInjective
    <2>5. \A k \in S : Numbers(S, L)[k] = CF!Rank(catalog, k)
      BY <2>2 DEF Numbers
    <2>6. \A k \in S : Numbers(S, L)[k] \in Nat
      BY <2>3, <2>4
    <2>7. QED
      BY <2>1, <2>4, <2>5, <2>6
  <1>5. \A k \in 1..N : CF!Rank(catalog, k) \in Nat
    BY <1>2, <1>3
  <1>6. ASSUME NEW j \in 1..N, NEW k \in 1..N,
               CF!Rank(catalog, j) = CF!Rank(catalog, k), catalog[j] = catalog[k]
        PROVE  j = k
    <2>1. PICK v \in Nat : v = catalog[k] /\ j \in B(v) /\ k \in B(v)
      BY <1>2, <1>6
    <2>2. QED
      BY <1>3, <1>6, <2>1
  <1>7. ASSUME NEW v \in Nat
        PROVE  \E L : /\ Ordered(B(v), L)
                      /\ \A k \in B(v) : CF!Rank(catalog, k) = Cardinality(Before(B(v), L, k))
    <2>1. PICK L : L = Order(v)
      OBVIOUS
    <2>2. QED
      BY <1>1, <2>1
  <1>8. QED
    BY <1>5, <1>6, <1>7 DEF B

\* The first of some special items, in rounds or bucket by bucket.
InRounds(catalog, S, n) == CF!FirstOf(n, S, LAMBDA k : <<CF!Rank(catalog, k), catalog[k]>>)
ByBucket(catalog, S, n) == CF!FirstOf(n, S, LAMBDA k : <<catalog[k], CF!Rank(catalog, k)>>)

LEMMA FirstSpecial ==
  ASSUME NEW N \in Nat, NEW catalog \in [1..N -> Nat], NEW S \in SUBSET (1..N), NEW n \in Nat,
         NEW F \in {InRounds(catalog, S, n), ByBucket(catalog, S, n)}
  PROVE  /\ IsFiniteSet(S) /\ IsFiniteSet(F) /\ F \subseteq S
         /\ Cardinality(F) = IF n < Cardinality(S) THEN n ELSE Cardinality(S)
  <1>1. IsFiniteSet(S)
    <2>1. 1 \in Int /\ N \in Int
      OBVIOUS
    <2>2. IsFiniteSet(1..N)
      BY <2>1, FS_Interval
    <2>3. QED
      BY <2>2, FS_Subset
  <1>2. PICK c, r : c = [k \in S |-> catalog[k]] /\ r = [k \in S |-> CF!Rank(catalog, k)]
    OBVIOUS
  <1>3. /\ c \in [S -> Nat] /\ r \in [S -> Nat]
        /\ \A j, k \in S : c[j] = c[k] /\ r[j] = r[k] => j = k
    <2>1. \A k \in S : CF!Rank(catalog, k) \in Nat
      BY RanksOfBucket
    <2>2. \A j, k \in S :
              CF!Rank(catalog, j) = CF!Rank(catalog, k) /\ catalog[j] = catalog[k] => j = k
      BY RanksOfBucket
    <2>3. QED
      BY <1>2, <2>1, <2>2
  <1>4. \A Z : CF!Cardinality(Z) = Cardinality(Z)
    BY DEF CF!Cardinality, Cardinality
  <1>5. CASE F = InRounds(catalog, S, n)
    <2> DEFINE Lower(k) == {j \in S :
            \/ <<CF!Rank(catalog, j), catalog[j]>>[1] < <<CF!Rank(catalog, k), catalog[k]>>[1]
            \/ /\ <<CF!Rank(catalog, j), catalog[j]>>[1] = <<CF!Rank(catalog, k), catalog[k]>>[1]
               /\ <<CF!Rank(catalog, j), catalog[j]>>[2] < <<CF!Rank(catalog, k), catalog[k]>>[2]}
    <2>1. F = {k \in S : CF!Cardinality(Lower(k)) < n}
      BY <1>5 DEF InRounds, CF!FirstOf
    <2>2. \A k \in S : Lower(k) = Before(S, Lexical(S, r, c), k)
      BY <1>2 DEF Before, Lexical
    <2> HIDE DEF Lower
    <2>3. F = Firsts(S, Lexical(S, r, c), n)
      BY <1>4, <2>1, <2>2 DEF Firsts
    <2>4. Ordered(S, Lexical(S, r, c))
      BY <1>3, LexicalOrder
    <2>5. QED
      BY <1>1, <2>3, <2>4, FirstCount
  <1>6. CASE F = ByBucket(catalog, S, n)
    <2> DEFINE Lower(k) == {j \in S :
            \/ <<catalog[j], CF!Rank(catalog, j)>>[1] < <<catalog[k], CF!Rank(catalog, k)>>[1]
            \/ /\ <<catalog[j], CF!Rank(catalog, j)>>[1] = <<catalog[k], CF!Rank(catalog, k)>>[1]
               /\ <<catalog[j], CF!Rank(catalog, j)>>[2] < <<catalog[k], CF!Rank(catalog, k)>>[2]}
    <2>1. F = {k \in S : CF!Cardinality(Lower(k)) < n}
      BY <1>6 DEF ByBucket, CF!FirstOf
    <2>2. \A k \in S : Lower(k) = Before(S, Lexical(S, c, r), k)
      BY <1>2 DEF Before, Lexical
    <2> HIDE DEF Lower
    <2>3. F = Firsts(S, Lexical(S, c, r), n)
      BY <1>4, <2>1, <2>2 DEF Firsts
    <2>4. Ordered(S, Lexical(S, c, r))
      BY <1>3, LexicalOrder
    <2>5. QED
      BY <1>1, <2>3, <2>4, FirstCount
  <1>7. QED
    BY <1>5, <1>6

\* A sample has the number that was asked for, and exceeds the share of the
\* special items only when it holds all ordinary ones: for every catalog.
LEMMA SampleIsExact ==
  ASSUME NEW N \in Nat, NEW catalog \in [1..N -> Nat], NEW n \in 1..N
  PROVE  LET sample == CF!Sample(catalog, n)
         IN  /\ CF!Cardinality(sample) = n
             /\ CF!Cardinality(sample \cap CF!Special(catalog)) > CF!SpecialLimit(n) =>
                    CF!InBucket(catalog, 0) \subseteq sample
  <1>1. /\ n \in Nat /\ CF!SpecialLimit(n) \in Nat
        /\ IsFiniteSet(1..N) /\ Cardinality(1..N) = N
        /\ \A Z : CF!Cardinality(Z) = Cardinality(Z)
    <2>1. n \in Nat /\ CF!SpecialLimit(n) \in Nat
      BY DEF CF!SpecialLimit
    <2>2. 1 \in Int /\ N \in Int
      OBVIOUS
    <2>3. IsFiniteSet(1..N) /\ Cardinality(1..N) = IF 1 > N THEN 0 ELSE N - 1 + 1
      BY <2>2, FS_Interval
    <2>4. QED
      BY <2>1, <2>3 DEF CF!Cardinality, Cardinality
  <1>2. CF!SpecialLimit(n) <= n
    <2>1. (n * 35) \div 100 <= n
      BY <1>1
    <2>2. QED
      BY <1>1, <2>1 DEF CF!SpecialLimit
  <1>3. PICK S, O, special :
            /\ S = CF!Special(catalog) /\ O = CF!InBucket(catalog, 0)
            /\ special = CF!SpecialSample(catalog, n)
    OBVIOUS
  <1>4. PICK count : count = n - Cardinality(special)
    OBVIOUS
  <1>5. PICK ordinary : ordinary = CF!OrdinarySample(catalog, count)
    OBVIOUS
  <1>6. PICK some, rest : some = special \cup ordinary /\ rest = S \ special
    OBVIOUS
  <1>7. PICK more : more = ByBucket(catalog, rest, n - Cardinality(some))
    OBVIOUS
  <1>8. CF!Sample(catalog, n) = some \cup more
    BY <1>1, <1>3, <1>4, <1>5, <1>6, <1>7 DEF CF!Sample, ByBucket
  \* The special and the ordinary items are all there are.
  <1>9. /\ S \in SUBSET (1..N) /\ O \in SUBSET (1..N) /\ S \cap O = {} /\ S \cup O = 1..N
        /\ \A k \in O : catalog[k] = 0
    BY <1>3 DEF CF!Special, CF!InBucket
  <1>10. /\ IsFiniteSet(S) /\ IsFiniteSet(O) /\ Cardinality(S) \in Nat /\ Cardinality(O) \in Nat
         /\ Cardinality(S) + Cardinality(O) = N
    <2>1. IsFiniteSet(S) /\ IsFiniteSet(O)
      BY <1>1, <1>9, FS_Subset
    <2>2. Cardinality(S \cup O) = Cardinality(S) + Cardinality(O) - Cardinality(S \cap O)
      BY <2>1, FS_Union
    <2>3. Cardinality(S) \in Nat /\ Cardinality(O) \in Nat /\ Cardinality(S \cap O) = 0
      BY <1>9, <2>1, FS_CardinalityType, FS_EmptySet
    <2>4. Cardinality(S \cup O) = N
      BY <1>1, <1>9
    <2>5. QED
      BY <2>1, <2>2, <2>3, <2>4
  \* The share of the special ones.
  <1>11. /\ IsFiniteSet(special) /\ special \subseteq S
         /\ Cardinality(special) \in Nat /\ Cardinality(special) <= CF!SpecialLimit(n)
         /\ Cardinality(special) <= Cardinality(S)
    <2>1. PICK limit \in Nat : limit = CF!SpecialLimit(n)
      BY <1>1
    <2>2. special = InRounds(catalog, S, limit)
      BY <1>3, <2>1 DEF CF!SpecialSample, InRounds
    <2>3. /\ IsFiniteSet(special) /\ special \subseteq S
          /\ Cardinality(special) = IF limit < Cardinality(S) THEN limit ELSE Cardinality(S)
      BY <1>9, <2>2, FirstSpecial
    <2>4. QED
      BY <1>10, <2>1, <2>3, FS_CardinalityType
  \* The ordinary ones.
  <1>12. count \in Nat
    BY <1>1, <1>2, <1>4, <1>11
  <1>13. /\ IsFiniteSet(ordinary) /\ ordinary \subseteq O
         /\ Cardinality(ordinary) = IF count < Cardinality(O) THEN count ELSE Cardinality(O)
    <2>1. PICK V : V = CF!SpacedRanks(Cardinality(O), count)
      OBVIOUS
    <2>2. /\ V \in SUBSET (0..Cardinality(O) - 1)
          /\ Cardinality(V) = IF count < Cardinality(O) THEN count ELSE Cardinality(O)
      BY <1>10, <1>12, <2>1, SpacedCount
    <2>3. PICK L : /\ Ordered(O, L)
                   /\ \A k \in O : CF!Rank(catalog, k) = Cardinality(Before(O, L, k))
      <3>1. 0 \in Nat
        OBVIOUS
      <3>2. QED
        BY <1>3, <3>1, RanksOfBucket
    <2>4. ordinary = {k \in O : CF!Rank(catalog, k) \in V}
      BY <1>1, <1>3, <1>5, <2>1 DEF CF!OrdinarySample
    <2>5. ordinary = Numbered(O, L, V)
      BY <2>3, <2>4 DEF Numbered
    <2>6. IsFiniteSet(Numbered(O, L, V)) /\ Cardinality(Numbered(O, L, V)) = Cardinality(V)
      BY <1>10, <2>2, <2>3, NumberedCount
    <2>7. ordinary \subseteq O
      BY <2>4
    <2>8. QED
      BY <2>2, <2>5, <2>6, <2>7
  <1>14. /\ IsFiniteSet(some) /\ Cardinality(some) = Cardinality(special) + Cardinality(ordinary)
         /\ Cardinality(ordinary) \in Nat
    <2>1. special \cap ordinary = {}
      BY <1>9, <1>11, <1>13
    <2>2. /\ IsFiniteSet(special \cup ordinary)
          /\ Cardinality(special \cup ordinary) =
                 Cardinality(special) + Cardinality(ordinary) - Cardinality(special \cap ordinary)
      BY <1>11, <1>13, FS_Union
    <2>3. Cardinality(special \cap ordinary) = 0 /\ Cardinality(ordinary) \in Nat
      BY <1>13, <2>1, FS_EmptySet, FS_CardinalityType
    <2>4. QED
      BY <1>6, <1>11, <2>2, <2>3
  \* More special ones, when the ordinary ones are too few.
  <1>15. Cardinality(some) <= n
    BY <1>1, <1>4, <1>10, <1>11, <1>12, <1>13, <1>14
  <1>16. IsFiniteSet(rest) /\ Cardinality(rest) = Cardinality(S) - Cardinality(special)
    <2>1. S \cap special = special
      BY <1>11
    <2>2. /\ IsFiniteSet(S \ special)
          /\ Cardinality(S \ special) = Cardinality(S) - Cardinality(S \cap special)
      BY <1>10, FS_Difference
    <2>3. QED
      BY <1>6, <2>1, <2>2
  <1>17. /\ IsFiniteSet(more) /\ more \subseteq rest
         /\ Cardinality(more) = n - Cardinality(some)
    <2>1. PICK m \in Nat : m = n - Cardinality(some)
      BY <1>1, <1>11, <1>14, <1>15
    <2>2. more = ByBucket(catalog, rest, m) /\ rest \in SUBSET (1..N)
      BY <1>6, <1>7, <1>9, <2>1
    <2>3. /\ IsFiniteSet(more) /\ more \subseteq rest
          /\ Cardinality(more) = IF m < Cardinality(rest) THEN m ELSE Cardinality(rest)
      BY <2>2, FirstSpecial
    <2>4. m <= Cardinality(rest)
      BY <1>1, <1>4, <1>10, <1>11, <1>12, <1>13, <1>14, <1>16, <2>1
    <2>5. QED
      BY <1>10, <1>11, <1>16, <2>1, <2>3, <2>4
  <1>18. some \cap more = {}
    BY <1>6, <1>9, <1>13, <1>17
  <1>19. Cardinality(some \cup more) = n
    <2>1. Cardinality(some \cup more) =
              Cardinality(some) + Cardinality(more) - Cardinality(some \cap more)
      BY <1>14, <1>17, FS_Union
    <2>2. Cardinality(some \cap more) = 0
      BY <1>18, FS_EmptySet
    <2>3. QED
      BY <1>1, <1>11, <1>14, <1>17, <2>1, <2>2
  <1>20. ASSUME Cardinality((some \cup more) \cap S) > CF!SpecialLimit(n)
         PROVE  O \subseteq some \cup more
    <2>1. Cardinality(some) < n
      <3>1. SUFFICES ASSUME Cardinality(some) = n
                     PROVE  FALSE
        BY <1>1, <1>11, <1>14, <1>15
      <3>2. Cardinality(more) = 0
        BY <1>1, <1>17, <3>1
      <3>3. more = {}
        BY <1>17, <3>2, FS_EmptySet
      <3>4. (some \cup more) \cap S = special
        BY <1>6, <1>9, <1>11, <1>13, <3>3
      <3>5. Cardinality(special) > CF!SpecialLimit(n)
        BY <1>20, <3>4
      <3>6. QED
        BY <1>1, <1>11, <3>5
    <2>2. Cardinality(ordinary) = Cardinality(O)
      BY <1>1, <1>4, <1>10, <1>11, <1>12, <1>13, <1>14, <2>1
    <2>3. ordinary = O
      BY <1>10, <1>13, <2>2, FS_Subset
    <2>4. QED
      BY <1>6, <2>3
  <1>21. QED
    BY <1>1, <1>3, <1>8, <1>19, <1>20

-----------------------------------------------------------------------------
(***************************************************************************)
(* The candidate backfill.                                                 *)
(***************************************************************************)
\* A row of the type, and what an idle command has.
LEMMA BackfillRow ==
  ASSUME NEW p \in CF!CommandRows
  PROVE  /\ p = [pc |-> p.pc, run |-> p.run, selected |-> p.selected, inputs |-> p.inputs,
                 packages |-> p.packages, result |-> p.result]
         /\ p.run \in BuildIds /\ p.selected \in SUBSET Candidates
         /\ p.inputs \in CF!Inputs \cup {NoBytes}
         /\ p.packages \in SUBSET (Candidates \X CF!Statuses)
         /\ p.result \in CF!BuildRows \cup {NoBytes}
         /\ p.pc \in {"idle", "hash", "create", "classify", "build"}
  BY DEF CF!CommandRows

LEMMA BackfillIdle ==
  /\ \E r \in BuildIds :
         CF!Idle = [pc |-> "idle", run |-> r, selected |-> {}, inputs |-> NoBytes,
                    packages |-> {}, result |-> NoBytes]
  /\ CF!Idle \in CF!CommandRows
  <1>1. (CHOOSE r \in BuildIds : TRUE) \in BuildIds
    BY BuildIdsAssumption
  <1>2. QED
    BY <1>1 DEF CF!Idle, CF!CommandRows

\* At first nothing was run or built.
LEMMA BackfillInit ==
  ASSUME CF!Init
  PROVE  CF!BackfillInv
  <1>1. \A c \in Commands : s7[c] = CF!Idle
    BY DEF CF!Init
  <1>3. CF!Typed
    BY BackfillIdle DEF CF!Init, CF!Typed, CF!Statuses
  <1>4. CF!RunsAddUp /\ CF!BuildsAreWhole
    BY DEF CF!Init, CF!RunsAddUp, CF!BuildsAreWhole
  <1>5. CF!CommandsFit
    BY <1>1, BackfillIdle DEF CF!CommandsFit, CF!RowFits
  <1>6. CF!ResultsAgree
    BY <1>1, BackfillIdle DEF CF!ResultsAgree
  <1>7. QED
    BY <1>3, <1>4, <1>5, <1>6 DEF CF!BackfillInv

\* A step of one command only,
LEMMA BackfillStep ==
  ASSUME CF!BackfillInv, NEW c \in Commands, NEW p \in CF!CommandRows,
         s7' = [s7 EXCEPT ![c] = p], UNCHANGED <<s1, s2, s3, s4, s5, s6, s8>>,
         CF!RowFits(p),
         p.result # NoBytes => /\ s5[p.run] # NoBytes
                               /\ p.result.packages = s5[p.run].packages
                               /\ p.result.inputs = s5[p.run].inputs
  PROVE  CF!BackfillInv'
  <1>1. s7 \in [Commands -> CF!CommandRows]
    BY DEF CF!BackfillInv, CF!Typed
  <1>2. \A d \in Commands : s7'[d] = IF d = c THEN p ELSE s7[d]
    BY <1>1
  <1>3. CF!Typed'
    BY <1>1 DEF CF!BackfillInv, CF!Typed
  <1>4. CF!RunsAddUp' /\ CF!BuildsAreWhole'
    BY DEF CF!BackfillInv, CF!RunsAddUp, CF!BuildsAreWhole
  <1>5. CF!CommandsFit'
    BY <1>2 DEF CF!BackfillInv, CF!CommandsFit, CF!RowFits
  <1>6. CF!ResultsAgree'
    BY <1>2 DEF CF!BackfillInv, CF!ResultsAgree
  <1>7. QED
    BY <1>3, <1>4, <1>5, <1>6 DEF CF!BackfillInv

\* ... and one that ends it, with a result or without one,
LEMMA BackfillEnd ==
  ASSUME CF!BackfillInv, NEW c \in Commands,
         UNCHANGED <<s1, s2, s3, s4, s5>>,
         CF!End(c) \/ CF!EndWith(c, NoBytes)
  PROVE  CF!BackfillInv'
  <1>1. s7 \in [Commands -> CF!CommandRows] /\ s7[c] \in CF!CommandRows
    BY DEF CF!BackfillInv, CF!Typed
  <1>2. PICK p : /\ s7' = [s7 EXCEPT ![c] = p] /\ p \in CF!CommandRows
                 /\ p.pc = "idle" /\ p.packages = {} /\ p.result = NoBytes
    <2>1. CASE CF!End(c)
      <3>1. PICK p : p = CF!Idle
        OBVIOUS
      <3>2. p \in CF!CommandRows /\ p.pc = "idle" /\ p.packages = {} /\ p.result = NoBytes
        BY <3>1, BackfillIdle DEF CF!CommandRows
      <3>3. QED
        BY <2>1, <3>1, <3>2 DEF CF!End, CF!Step
    <2>2. CASE CF!EndWith(c, NoBytes)
      <3>1. PICK q, r : q = CF!Idle /\ r = s7[c].run
        OBVIOUS
      <3>1b. PICK first : q = [pc |-> "idle", run |-> first, selected |-> {},
                               inputs |-> NoBytes, packages |-> {}, result |-> NoBytes]
        BY <3>1, BackfillIdle
      <3>1a. PICK p : p = [q EXCEPT !.run = r, !.result = NoBytes]
        OBVIOUS
      <3>2. p = [pc |-> "idle", run |-> r, selected |-> {}, inputs |-> NoBytes,
                 packages |-> {}, result |-> NoBytes]
        BY <3>1a, <3>1b
      <3>3. QED
        <4>1. p \in CF!CommandRows
          BY <1>1, <3>1, <3>2, BackfillRow DEF CF!CommandRows
        <4>2. s7' = [s7 EXCEPT ![c] = p]
          BY <2>2, <3>1, <3>1a DEF CF!EndWith, CF!Step
        <4>3. QED
          <5>1. p.pc = "idle" /\ p.packages = {} /\ p.result = NoBytes
            BY <3>2
          <5>2. QED
            BY <4>1, <4>2, <5>1
    <2>3. QED
      BY <2>1, <2>2
  <1>3. \A d \in Commands : s7'[d] = IF d = c THEN p ELSE s7[d]
    BY <1>1, <1>2
  <1>4. CF!Typed'
    BY <1>1, <1>2 DEF CF!BackfillInv, CF!Typed
  <1>5. CF!RunsAddUp' /\ CF!BuildsAreWhole'
    BY DEF CF!BackfillInv, CF!RunsAddUp, CF!BuildsAreWhole
  <1>6. CF!CommandsFit'
    BY <1>2, <1>3 DEF CF!BackfillInv, CF!CommandsFit, CF!RowFits
  <1>7. CF!ResultsAgree'
    BY <1>2, <1>3 DEF CF!BackfillInv, CF!ResultsAgree
  <1>8. QED
    BY <1>4, <1>5, <1>6, <1>7 DEF CF!BackfillInv

\* ... as when it selects, hashes and packs.
LEMMA BackfillSelect ==
  ASSUME CF!BackfillInv, NEW c \in Commands, CF!Select(c)
  PROVE  CF!BackfillInv'
  <1>1. PICK r \in BuildIds, chosen \in SUBSET Candidates :
            s7' = [s7 EXCEPT ![c] = [CF!Idle EXCEPT !.pc = "hash", !.run = r,
                                                    !.selected = chosen]]
    BY DEF CF!Select, CF!Step, CF!Targets
  <1>2. PICK q : q = CF!Idle
    OBVIOUS
  <1>2b. PICK first : q = [pc |-> "idle", run |-> first, selected |-> {}, inputs |-> NoBytes,
                           packages |-> {}, result |-> NoBytes]
    BY <1>2, BackfillIdle
  <1>2a. PICK p : p = [q EXCEPT !.pc = "hash", !.run = r, !.selected = chosen]
    OBVIOUS
  <1>3. p = [pc |-> "hash", run |-> r, selected |-> chosen, inputs |-> NoBytes,
             packages |-> {}, result |-> NoBytes]
    BY <1>2a, <1>2b
  <1>4. p \in CF!CommandRows /\ CF!RowFits(p)
    BY <1>3 DEF CF!CommandRows, CF!RowFits
  <1>5. UNCHANGED <<s1, s2, s3, s4, s5, s6, s8>>
    BY DEF CF!Select
  <1>6. QED
    BY <1>1, <1>2, <1>2a, <1>3, <1>4, <1>5, BackfillStep

LEMMA BackfillHash ==
  ASSUME CF!BackfillInv, NEW c \in Commands, CF!Hash(c)
  PROVE  CF!BackfillInv'
  <1>0. UNCHANGED <<s1, s2, s3, s4, s5, s6, s8>>
    BY DEF CF!Hash
  <1>1. /\ s7[c] \in CF!CommandRows /\ s2 \in Nat /\ CF!RowFits(s7[c])
        /\ s5 \in [BuildIds -> CF!BuildRows \cup {NoBytes}]
    BY DEF CF!BackfillInv, CF!Typed, CF!CommandsFit
  <1>1a. PICK q : q = s7[c]
    OBVIOUS
  <1>1b. /\ q = [pc |-> q.pc, run |-> q.run, selected |-> q.selected, inputs |-> q.inputs,
                 packages |-> q.packages, result |-> q.result]
         /\ q.run \in BuildIds /\ q.selected \in SUBSET Candidates
    BY <1>1, <1>1a, BackfillRow
  <1>2. PICK r \in BuildIds, inputs \in CF!Inputs :
            r = s7[c].run /\ r = q.run /\ inputs = <<s7[c].selected, s2>>
    BY <1>1, <1>1a, <1>1b DEF CF!Inputs
  <1>3. s7[c].pc = "hash"
    BY DEF CF!Hash, CF!At
  <1>4. CASE s5[r] = NoBytes
    <2>1. s7' = [s7 EXCEPT ![c] = [q EXCEPT !.pc = "create", !.inputs = inputs]]
      BY <1>1a, <1>2, <1>4 DEF CF!Hash, CF!Step
    <2>2. PICK p : p = [q EXCEPT !.pc = "create", !.inputs = inputs]
      OBVIOUS
    <2>3. p = [pc |-> "create", run |-> q.run, selected |-> q.selected, inputs |-> inputs,
               packages |-> q.packages, result |-> q.result]
      BY <1>1b, <2>2
    <2>4. p \in CF!CommandRows /\ CF!RowFits(p)
      BY <1>1, <1>1a, <1>2, <2>3, BackfillRow DEF CF!CommandRows, CF!RowFits
    <2>5. p.result # NoBytes => /\ s5[p.run] # NoBytes
                                /\ p.result.packages = s5[p.run].packages
                                /\ p.result.inputs = s5[p.run].inputs
      BY <1>1a, <1>2, <2>3 DEF CF!BackfillInv, CF!ResultsAgree
    <2>6. QED
      BY <1>0, <2>1, <2>2, <2>4, <2>5, BackfillStep
  <1>5. CASE s5[r] # NoBytes /\ CF!Loadable(r, inputs)
    <2>1. s5[r] \in CF!BuildRows /\ s5[r].inputs = inputs
      BY <1>1, <1>5 DEF CF!Loadable
    <2>2. [s5[r] EXCEPT !.inputs = inputs] = s5[r]
      BY <2>1 DEF CF!BuildRows
    <2>3. s7' = [s7 EXCEPT ![c] = [CF!Idle EXCEPT !.run = r, !.result = s5[r]]]
      BY <1>2, <1>5, <2>2 DEF CF!Hash, CF!EndWith, CF!Step
    <2>4. PICK i : i = CF!Idle
      OBVIOUS
    <2>4b. PICK first : i = [pc |-> "idle", run |-> first, selected |-> {},
                             inputs |-> NoBytes, packages |-> {}, result |-> NoBytes]
      BY <2>4, BackfillIdle
    <2>4a. PICK p : p = [i EXCEPT !.run = r, !.result = s5[r]]
      OBVIOUS
    <2>5. p = [pc |-> "idle", run |-> r, selected |-> {}, inputs |-> NoBytes,
               packages |-> {}, result |-> s5[r]]
      BY <2>4a, <2>4b
    <2>6. p \in CF!CommandRows /\ CF!RowFits(p)
      BY <2>1, <2>5 DEF CF!CommandRows, CF!RowFits
    <2>7. QED
      BY <1>0, <1>5, <2>3, <2>4, <2>4a, <2>5, <2>6, BackfillStep
  <1>6. CASE s5[r] # NoBytes /\ ~CF!Loadable(r, inputs)
    <2>1. CF!EndWith(c, NoBytes)
      BY <1>2, <1>6 DEF CF!Hash
    <2>2. QED
      BY <1>0, <2>1, BackfillEnd
  <1>7. QED
    BY <1>4, <1>5, <1>6

LEMMA BackfillPackage ==
  ASSUME CF!BackfillInv, NEW c \in Commands, CF!BuildPackage(c)
  PROVE  CF!BackfillInv'
  <1>0. UNCHANGED <<s1, s2, s3, s4, s5, s6, s8>>
    BY DEF CF!BuildPackage
  <1>1. /\ s7[c] \in CF!CommandRows /\ s7[c].pc = "build" /\ CF!RowFits(s7[c])
        /\ s3 \in [Candidates -> CF!Statuses]
    BY DEF CF!BackfillInv, CF!Typed, CF!CommandsFit, CF!BuildPackage, CF!At
  <1>1a. PICK q : q = s7[c]
    OBVIOUS
  <1>1b. q = [pc |-> q.pc, run |-> q.run, selected |-> q.selected, inputs |-> q.inputs,
              packages |-> q.packages, result |-> q.result]
    BY <1>1, <1>1a, BackfillRow
  <1>2. PICK i \in q.selected \ {h[1] : h \in q.packages} :
            s7' = [s7 EXCEPT ![c] = [q EXCEPT !.packages = @ \cup {<<i, s3[i]>>}]]
    BY <1>1a DEF CF!BuildPackage, CF!Step
  <1>3. i \in Candidates /\ s3[i] # "none"
    BY <1>1, <1>1a, BackfillRow DEF CF!BackfillInv, CF!RunsAddUp, CF!RowFits
  <1>4. PICK p, filled : /\ filled = q.packages \cup {<<i, s3[i]>>}
                         /\ p = [q EXCEPT !.packages = filled]
    OBVIOUS
  <1>5. p = [pc |-> q.pc, run |-> q.run, selected |-> q.selected, inputs |-> q.inputs,
             packages |-> filled, result |-> q.result]
    BY <1>1b, <1>4
  <1>6. p \in CF!CommandRows
    BY <1>1, <1>1a, <1>3, <1>4, <1>5, BackfillRow DEF CF!CommandRows
  <1>7. CF!RowFits(p)
    <2>1. \A h \in q.packages : h[1] # i
      BY <1>2
    <2>2. QED
      BY <1>1, <1>1a, <1>2, <1>3, <1>4, <1>5, <2>1 DEF CF!RowFits
  <1>8. p.result # NoBytes => /\ s5[p.run] # NoBytes
                              /\ p.result.packages = s5[p.run].packages
                              /\ p.result.inputs = s5[p.run].inputs
    BY <1>1a, <1>5 DEF CF!BackfillInv, CF!ResultsAgree
  <1>9. QED
    BY <1>0, <1>2, <1>4, <1>6, <1>7, <1>8, BackfillStep

\* A step that writes the row of a run: the commands stay as they are,
LEMMA BackfillRun ==
  ASSUME CF!BackfillInv, NEW r \in BuildIds, NEW run \in CF!RunRows,
         s4' = [s4 EXCEPT ![r] = run], UNCHANGED <<s1, s2, s5, s7>>,
         s3' \in [Candidates -> CF!Statuses],
         \A i \in Candidates : s3'[i] = s3[i] \/ s3'[i] # "none",
         s4[r] # NoBytes => /\ run.members = s4[r].members
                            /\ s4[r].completed => run.completed,
         run.decided \subseteq run.members, \A i \in run.decided : s3'[i] # "none",
         run.completed => run.decided = run.members
  PROVE  CF!BackfillInv'
  <1>1. s4 \in [BuildIds -> CF!RunRows \cup {NoBytes}] /\ run # NoBytes
    BY BackfillAssumption DEF CF!BackfillInv, CF!Typed
  <1>2. \A q \in BuildIds : s4'[q] = IF q = r THEN run ELSE s4[q]
    BY <1>1
  <1>3. CF!Typed'
    BY <1>1 DEF CF!BackfillInv, CF!Typed
  <1>4. CF!RunsAddUp'
    <2> SUFFICES ASSUME NEW q \in BuildIds, s4'[q] # NoBytes
                 PROVE  /\ s4'[q].decided \subseteq s4'[q].members
                        /\ \A i \in s4'[q].decided : s3'[i] # "none"
                        /\ s4'[q].completed => s4'[q].decided = s4'[q].members
      BY DEF CF!RunsAddUp
    <2>1. CASE q = r
      BY <1>2, <2>1
    <2>2. CASE q # r
      <3>1. s4'[q] = s4[q] /\ s4[q] \in CF!RunRows
        BY <1>1, <1>2, <2>2
      <3>2. s4[q].decided \subseteq Candidates
        BY <3>1 DEF CF!RunRows
      <3>3. QED
        BY <3>1, <3>2 DEF CF!BackfillInv, CF!RunsAddUp
    <2>3. QED
      BY <2>1, <2>2
  <1>5. CF!CommandsFit'
    <2>1. \A c \in Commands : s7[c].run \in BuildIds
      BY BackfillRow DEF CF!BackfillInv, CF!Typed
    <2>2. QED
      BY <1>1, <1>2, <2>1 DEF CF!BackfillInv, CF!CommandsFit, CF!RowFits
  <1>6. CF!BuildsAreWhole' /\ CF!ResultsAgree'
    BY <1>1, <1>2 DEF CF!BackfillInv, CF!BuildsAreWhole, CF!ResultsAgree
  <1>7. QED
    BY <1>3, <1>4, <1>5, <1>6 DEF CF!BackfillInv

\* ... as when an item is decided or fails,
LEMMA BackfillDecide ==
  ASSUME CF!BackfillInv, NEW c \in Commands, CF!Classify(c) \/ CF!FailToClassify(c)
  PROVE  CF!BackfillInv'
  <1>0. s7[c].pc = "classify" /\ UNCHANGED <<s1, s2, s5, s7>>
    BY DEF CF!Classify, CF!FailToClassify, CF!At
  <1>1. PICK r : r = s7[c].run
    OBVIOUS
  <1>2. r \in BuildIds /\ s4[r] # NoBytes
    BY <1>0, <1>1, BackfillRow DEF CF!BackfillInv, CF!Typed, CF!CommandsFit, CF!RowFits
  <1>3. PICK q : q = s4[r]
    OBVIOUS
  <1>4. /\ q \in CF!RunRows /\ s3 \in [Candidates -> CF!Statuses]
        /\ q.decided \subseteq q.members /\ \A i \in q.decided : s3[i] # "none"
        /\ q.completed => q.decided = q.members
    BY <1>2, <1>3 DEF CF!BackfillInv, CF!Typed, CF!RunsAddUp
  <1>5. q = [members |-> q.members, version |-> q.version, decided |-> q.decided,
             failed |-> q.failed, completed |-> q.completed]
    BY <1>4 DEF CF!RunRows
  <1>6. CASE CF!Classify(c)
    <2>1. PICK i \in CF!Undecided(r) :
              /\ s4' = [s4 EXCEPT ![r].decided = @ \cup {i}]
              /\ \E status \in {"classified", "needs_review"} : s3' = [s3 EXCEPT ![i] = status]
      BY <1>1, <1>6 DEF CF!Classify
    <2>2. PICK status \in {"classified", "needs_review"} : s3' = [s3 EXCEPT ![i] = status]
      BY <2>1
    <2>3. i \in q.members \ q.decided /\ i \in Candidates
      BY <1>3, <1>4, <2>1 DEF CF!Undecided, CF!RunRows
    <2>4. PICK decided : decided = q.decided \cup {i}
      OBVIOUS
    <2>5. PICK run : run = [q EXCEPT !.decided = decided]
      OBVIOUS
    <2>6. run = [members |-> q.members, version |-> q.version, decided |-> decided,
                 failed |-> q.failed, completed |-> q.completed]
      BY <1>5, <2>5
    <2>7. s4' = [s4 EXCEPT ![r] = run]
      BY <1>3, <2>1, <2>4, <2>5
    <2>8. run \in CF!RunRows
      BY <1>4, <2>3, <2>4, <2>6 DEF CF!RunRows
    <2>9. \A j \in Candidates : s3'[j] = IF j = i THEN status ELSE s3[j]
      BY <1>4, <2>2
    <2>10. s3' \in [Candidates -> CF!Statuses]
      BY <1>4, <2>2 DEF CF!Statuses
    <2>11. \A j \in decided : s3'[j] # "none" /\ j \in q.members
      BY <1>4, <2>3, <2>4, <2>9 DEF CF!RunRows
    <2>12. q.completed => decided = q.members
      BY <1>4, <2>3
    <2>13. \A j \in Candidates : s3'[j] = s3[j] \/ s3'[j] # "none"
      BY <2>2, <2>9
    <2>14. /\ run.members = q.members /\ run.completed = q.completed
           /\ run.decided = decided
      BY <2>6
    <2>15. s4[r] # NoBytes => /\ run.members = s4[r].members
                              /\ s4[r].completed => run.completed
      BY <1>3, <2>14
    <2>16. /\ run.decided \subseteq run.members /\ \A j \in run.decided : s3'[j] # "none"
           /\ run.completed => run.decided = run.members
      BY <2>11, <2>12, <2>14
    <2>17. QED
      BY <1>0, <1>2, <2>7, <2>8, <2>10, <2>13, <2>15, <2>16, BackfillRun
  <1>7. CASE CF!FailToClassify(c)
    <2>1. PICK i \in CF!Undecided(r) : s4' = [s4 EXCEPT ![r].failed = @ \cup {i}]
      BY <1>1, <1>7 DEF CF!FailToClassify
    <2>2. i \in Candidates
      BY <1>3, <1>4, <2>1 DEF CF!Undecided, CF!RunRows
    <2>3. PICK failed : failed = q.failed \cup {i}
      OBVIOUS
    <2>4. PICK run : run = [q EXCEPT !.failed = failed]
      OBVIOUS
    <2>5. run = [members |-> q.members, version |-> q.version, decided |-> q.decided,
                 failed |-> failed, completed |-> q.completed]
      BY <1>5, <2>4
    <2>6. s4' = [s4 EXCEPT ![r] = run]
      BY <1>3, <2>1, <2>3, <2>4
    <2>7. run \in CF!RunRows
      BY <1>4, <2>2, <2>3, <2>5 DEF CF!RunRows
    <2>8. s3' = s3
      BY <1>7 DEF CF!FailToClassify
    <2>9. QED
      BY <1>0, <1>2, <1>3, <1>4, <2>5, <2>6, <2>7, <2>8, BackfillRun
  <1>8. QED
    BY <1>6, <1>7

\* ... and then perhaps of a command too: it creates the run,
LEMMA BackfillCreate ==
  ASSUME CF!BackfillInv, NEW c \in Commands, CF!CreateRun(c)
  PROVE  CF!BackfillInv'
  <1>0. s7[c].pc = "create" /\ UNCHANGED <<s1, s2, s3, s5, s6, s8>>
    BY DEF CF!CreateRun, CF!At
  <1>1. PICK q : q = s7[c]
    OBVIOUS
  <1>2. /\ q \in CF!CommandRows /\ CF!RowFits(q) /\ s7 \in [Commands -> CF!CommandRows]
        /\ s4 \in [BuildIds -> CF!RunRows \cup {NoBytes}]
    BY <1>1 DEF CF!BackfillInv, CF!Typed, CF!CommandsFit
  <1>3. /\ q = [pc |-> q.pc, run |-> q.run, selected |-> q.selected, inputs |-> q.inputs,
                packages |-> q.packages, result |-> q.result]
        /\ q.run \in BuildIds /\ q.selected \in SUBSET Candidates
        /\ q.inputs[2] \in Nat
    BY <1>0, <1>1, <1>2, BackfillRow DEF CF!RowFits, CF!Inputs
  <1>4. PICK r, fresh : /\ r = q.run
                        /\ fresh = [members |-> q.selected, version |-> q.inputs[2],
                                    decided |-> {}, failed |-> {}, completed |-> FALSE]
    OBVIOUS
  <1>5. fresh \in CF!RunRows /\ r \in BuildIds
    BY <1>3, <1>4 DEF CF!RunRows
  <1>6. CASE CF!End(c) /\ UNCHANGED s4
    BY <1>0, <1>6, BackfillEnd
  <1>7. CASE /\ s4[r] = NoBytes \/ s4[r].members = q.selected
             /\ s4' = IF s4[r] = NoBytes THEN [s4 EXCEPT ![r] = fresh] ELSE s4
             /\ CF!Move(c, "classify")
    <2>1. s7' = [s7 EXCEPT ![c] = [q EXCEPT !.pc = "classify"]]
      BY <1>1, <1>7 DEF CF!Move, CF!Step
    <2>2. PICK p : p = [q EXCEPT !.pc = "classify"]
      OBVIOUS
    <2>3. p = [pc |-> "classify", run |-> q.run, selected |-> q.selected, inputs |-> q.inputs,
               packages |-> q.packages, result |-> q.result]
      BY <1>3, <2>2
    <2>4. p \in CF!CommandRows
      BY <1>2, <2>3, BackfillRow DEF CF!CommandRows
    <2>5. \A d \in Commands : s7'[d] = IF d = c THEN p ELSE s7[d]
      BY <1>2, <2>1, <2>2
    <2>6. \A k \in BuildIds : s4'[k] = s4[k] \/ (k = r /\ s4[k] = NoBytes /\ s4'[k] = fresh)
      BY <1>2, <1>7
    <2>7. s4'[r] # NoBytes /\ s4'[r].members = q.selected
      BY <1>2, <1>4, <1>5, <1>7, BackfillAssumption
    <2>8. CF!Typed'
      BY <1>0, <1>2, <1>5, <1>7, <2>1, <2>2, <2>4 DEF CF!BackfillInv, CF!Typed
    <2>9. CF!RunsAddUp'
      <3>1. fresh.decided = {} /\ ~fresh.completed
        BY <1>4
      <3>2. QED
        BY <1>0, <2>6, <3>1 DEF CF!BackfillInv, CF!RunsAddUp
    <2>10. CF!CommandsFit'
      <3>1. ASSUME NEW d \in Commands
            PROVE  CF!RowFits(s7[d])'
        <4>1. CASE d = c
          BY <1>0, <1>1, <1>2, <1>4, <2>3, <2>5, <2>7, <4>1 DEF CF!RowFits
        <4>2. CASE d # c
          <5>1. s7'[d] = s7[d] /\ CF!RowFits(s7[d]) /\ s7[d].run \in BuildIds
            BY <1>2, <2>5, <4>2, BackfillRow DEF CF!BackfillInv, CF!CommandsFit
          <5>2. QED
            BY <2>6, <5>1 DEF CF!RowFits
        <4>3. QED
          BY <4>1, <4>2
      <3>2. QED
        BY <3>1 DEF CF!CommandsFit
    <2>11. CF!BuildsAreWhole'
      BY <1>0, <2>6 DEF CF!BackfillInv, CF!BuildsAreWhole
    <2>12. CF!ResultsAgree'
      BY <1>0, <1>1, <2>3, <2>5 DEF CF!BackfillInv, CF!ResultsAgree
    <2>13. QED
      BY <2>8, <2>9, <2>10, <2>11, <2>12 DEF CF!BackfillInv
  <1>8. QED
    BY <1>1, <1>4, <1>6, <1>7 DEF CF!CreateRun

\* ... or closes it.
LEMMA BackfillComplete ==
  ASSUME CF!BackfillInv, NEW c \in Commands, CF!Complete(c)
  PROVE  CF!BackfillInv'
  <1>0. s7[c].pc = "classify" /\ UNCHANGED <<s1, s2, s3, s5, s6, s8>>
    BY DEF CF!Complete, CF!At
  <1>1. PICK q, r : q = s7[c] /\ r = q.run
    OBVIOUS
  <1>2. /\ q \in CF!CommandRows /\ CF!RowFits(q) /\ s7 \in [Commands -> CF!CommandRows]
        /\ s4 \in [BuildIds -> CF!RunRows \cup {NoBytes}]
    BY <1>1 DEF CF!BackfillInv, CF!Typed, CF!CommandsFit
  <1>3. /\ q = [pc |-> q.pc, run |-> q.run, selected |-> q.selected, inputs |-> q.inputs,
                packages |-> q.packages, result |-> q.result]
        /\ r \in BuildIds /\ q.selected \in SUBSET Candidates
        /\ s4[r] # NoBytes /\ s4[r].members = q.selected /\ q.inputs \in CF!Inputs
    BY <1>0, <1>1, <1>2, BackfillRow DEF CF!RowFits
  <1>4. CASE CF!End(c) /\ UNCHANGED s4
    BY <1>0, <1>4, BackfillEnd
  <1>5. CASE /\ CF!Completes(r)
             /\ s4' = [s4 EXCEPT ![r].completed = TRUE] /\ CF!Move(c, "build")
    <2>1. s7' = [s7 EXCEPT ![c] = [q EXCEPT !.pc = "build"]]
      BY <1>1, <1>5 DEF CF!Move, CF!Step
    <2>2. PICK p : p = [q EXCEPT !.pc = "build"]
      OBVIOUS
    <2>3. p = [pc |-> "build", run |-> q.run, selected |-> q.selected, inputs |-> q.inputs,
               packages |-> q.packages, result |-> q.result]
      BY <1>3, <2>2
    <2>4. p \in CF!CommandRows
      BY <1>2, <2>3, BackfillRow DEF CF!CommandRows
    <2>5. \A d \in Commands : s7'[d] = IF d = c THEN p ELSE s7[d]
      BY <1>2, <2>1, <2>2
    <2>6. PICK old : old = s4[r]
      OBVIOUS
    <2>7. old \in CF!RunRows /\ old.decided = old.members
      BY <1>2, <1>3, <1>5, <2>6 DEF CF!Completes
    <2>8. old = [members |-> old.members, version |-> old.version, decided |-> old.decided,
                 failed |-> old.failed, completed |-> old.completed]
      BY <2>7 DEF CF!RunRows
    <2>9. PICK run : run = [old EXCEPT !.completed = TRUE]
      OBVIOUS
    <2>10. run = [members |-> old.members, version |-> old.version, decided |-> old.decided,
                  failed |-> old.failed, completed |-> TRUE]
      BY <2>8, <2>9
    <2>11. run \in CF!RunRows
      BY <2>7, <2>10 DEF CF!RunRows
    <2>12. s4' = [s4 EXCEPT ![r] = run]
      BY <1>5, <2>6, <2>9
    <2>13. \A k \in BuildIds : s4'[k] = IF k = r THEN run ELSE s4[k]
      BY <1>2, <2>12
    <2>14. CF!Typed'
      BY <1>0, <1>2, <2>1, <2>2, <2>4, <2>11, <2>12 DEF CF!BackfillInv, CF!Typed
    <2>15. CF!RunsAddUp'
      BY <1>0, <1>3, <2>6, <2>7, <2>10, <2>13 DEF CF!BackfillInv, CF!RunsAddUp
    <2>16. run # NoBytes
      BY <2>11, BackfillAssumption
    <2>17. CF!CommandsFit'
      <3>1. ASSUME NEW d \in Commands
            PROVE  CF!RowFits(s7[d])'
        <4>1. CASE d = c
          BY <1>1, <1>2, <1>3, <2>3, <2>5, <2>6, <2>10, <2>13, <2>16, <4>1 DEF CF!RowFits
        <4>2. CASE d # c
          <5>1. s7'[d] = s7[d] /\ CF!RowFits(s7[d]) /\ s7[d].run \in BuildIds
            BY <1>2, <2>5, <4>2, BackfillRow DEF CF!BackfillInv, CF!CommandsFit
          <5>2. QED
            BY <2>6, <2>10, <2>13, <2>16, <5>1 DEF CF!RowFits
        <4>3. QED
          BY <4>1, <4>2
      <3>2. QED
        BY <3>1 DEF CF!CommandsFit
    <2>18. CF!BuildsAreWhole'
      BY <1>0, <2>6, <2>10, <2>13, <2>16 DEF CF!BackfillInv, CF!BuildsAreWhole
    <2>19. CF!ResultsAgree'
      BY <1>0, <1>1, <2>3, <2>5 DEF CF!BackfillInv, CF!ResultsAgree
    <2>20. QED
      BY <2>14, <2>15, <2>17, <2>18, <2>19 DEF CF!BackfillInv
  <1>6. QED
    BY <1>1, <1>4, <1>5 DEF CF!Complete

\* A build is published whole: its packages are as many as its items,
LEMMA AsManyMeansAll ==
  ASSUME NEW S \in SUBSET Candidates, NEW P,
         \A p \in P : p[1] \in S, \A q, p \in P : q[1] = p[1] => q = p,
         Cardinality(P) = Cardinality(S)
  PROVE  {p[1] : p \in P} = S
  <1> DEFINE f == [p \in P |-> p[1]]
  <1>1. IsFiniteSet(S)
    BY CandidatesAssumption, FS_Subset
  <1>2. f \in [P -> S] /\ \A q, p \in P : f[q] = f[p] => q = p
    OBVIOUS
  <1>3. \A p \in P : f[p] = p[1]
    OBVIOUS
  <1> HIDE DEF f
  <1>4. f \in Injection(P, S)
    BY <1>2 DEF Injection, IsInjective
  <1>5. f \in Surjection(P, S)
    BY <1>1, <1>4, FS_Injection
  <1>6. \A i \in S : \E p \in P : f[p] = i
    BY <1>5 DEF Surjection
  <1>7. QED
    BY <1>3, <1>6

LEMMA BackfillPublish ==
  ASSUME CF!BackfillInv, NEW c \in Commands, CF!Publish(c)
  PROVE  CF!BackfillInv'
  <1>0. s7[c].pc = "build" /\ UNCHANGED <<s1, s2, s3, s4, s6, s8>>
    BY DEF CF!Publish, CF!At
  <1>1. PICK q, r : q = s7[c] /\ r = q.run
    OBVIOUS
  <1>2. /\ q \in CF!CommandRows /\ CF!RowFits(q) /\ s7 \in [Commands -> CF!CommandRows]
        /\ s5 \in [BuildIds -> CF!BuildRows \cup {NoBytes}]
    BY <1>1 DEF CF!BackfillInv, CF!Typed, CF!CommandsFit
  <1>3. /\ r \in BuildIds /\ q.selected \in SUBSET Candidates /\ q.inputs \in CF!Inputs
        /\ q.packages \in SUBSET (Candidates \X CF!Statuses)
        /\ s4[r] # NoBytes /\ s4[r].members = q.selected /\ s4[r].completed
        /\ \A p \in q.packages : p[1] \in q.selected /\ p[2] # "none"
        /\ \A h, p \in q.packages : h[1] = p[1] => h = p
    BY <1>0, <1>1, <1>2, BackfillRow DEF CF!RowFits
  <1>4. {p[1] : p \in q.packages} = q.selected
    <2>1. Cardinality(q.packages) = Cardinality(q.selected)
      BY <1>1 DEF CF!Publish, CF!Cardinality, Cardinality
    <2>2. QED
      BY <1>3, <2>1, AsManyMeansAll
  <1>5. PICK build : build = [inputs |-> q.inputs, selected |-> q.selected,
                              packages |-> q.packages, intact |-> TRUE]
    OBVIOUS
  <1>6. build \in CF!BuildRows /\ build # NoBytes
    <2>1. build \in CF!BuildRows
      BY <1>3, <1>5 DEF CF!BuildRows
    <2>2. QED
      BY <2>1, BackfillAssumption
  <1>7. CASE CF!End(c) /\ UNCHANGED s5
    BY <1>0, <1>7, BackfillEnd
  <1>8. CASE s5[r] = NoBytes /\ s5' = [s5 EXCEPT ![r] = build] /\ CF!EndWith(c, build)
    <2>1. PICK i : i = CF!Idle
      OBVIOUS
    <2>2. PICK first : i = [pc |-> "idle", run |-> first, selected |-> {}, inputs |-> NoBytes,
                            packages |-> {}, result |-> NoBytes]
      BY <2>1, BackfillIdle
    <2>3. PICK p : p = [i EXCEPT !.run = r, !.result = build]
      OBVIOUS
    <2>4. p = [pc |-> "idle", run |-> r, selected |-> {}, inputs |-> NoBytes, packages |-> {},
               result |-> build]
      BY <2>2, <2>3
    <2>5. s7' = [s7 EXCEPT ![c] = p]
      BY <1>1, <1>8, <2>1, <2>3 DEF CF!EndWith, CF!Step
    <2>6. p \in CF!CommandRows
      BY <1>3, <1>6, <2>4 DEF CF!CommandRows
    <2>7. \A d \in Commands : s7'[d] = IF d = c THEN p ELSE s7[d]
      BY <1>2, <2>5
    <2>8. \A k \in BuildIds : s5'[k] = IF k = r THEN build ELSE s5[k]
      BY <1>2, <1>8
    <2>9. CF!Typed'
      BY <1>0, <1>2, <1>6, <1>8, <2>5, <2>6 DEF CF!BackfillInv, CF!Typed
    <2>10. CF!RunsAddUp'
      BY <1>0 DEF CF!BackfillInv, CF!RunsAddUp
    <2>11. CF!CommandsFit'
      BY <1>0, <2>4, <2>7 DEF CF!BackfillInv, CF!CommandsFit, CF!RowFits
    <2>12. CF!BuildsAreWhole'
      BY <1>0, <1>3, <1>4, <1>5, <2>8 DEF CF!BackfillInv, CF!BuildsAreWhole
    <2>13. CF!ResultsAgree'
      <3>1. ASSUME NEW d \in Commands, s7'[d].result # NoBytes
            PROVE  /\ s5'[s7'[d].run] # NoBytes
                   /\ s7'[d].result.packages = s5'[s7'[d].run].packages
                   /\ s7'[d].result.inputs = s5'[s7'[d].run].inputs
        <4>1. CASE d = c
          <5>1. s7'[d].run = r /\ s7'[d].result = build
            BY <2>4, <2>7, <4>1
          <5>2. QED
            BY <1>3, <1>6, <2>8, <5>1
        <4>2. CASE d # c
          <5>1. s7'[d] = s7[d] /\ s7[d].run \in BuildIds
            BY <1>2, <2>7, <4>2, BackfillRow
          <5>2. s5[s7[d].run] # NoBytes
            BY <3>1, <5>1 DEF CF!BackfillInv, CF!ResultsAgree
          <5>3. s7[d].run # r
            BY <1>8, <5>2
          <5>4. QED
            BY <2>8, <3>1, <5>1, <5>3 DEF CF!BackfillInv, CF!ResultsAgree
        <4>3. QED
          BY <4>1, <4>2
      <3>2. QED
        BY <3>1 DEF CF!ResultsAgree
    <2>14. QED
      BY <2>9, <2>10, <2>11, <2>12, <2>13 DEF CF!BackfillInv
  <1>9. QED
    BY <1>1, <1>5, <1>7, <1>8 DEF CF!Publish, CF!MayPublish

\* ... and damage to its files changes nothing it says.
LEMMA BackfillOutside ==
  ASSUME CF!BackfillInv, CF!ChangeArchive \/ \E r \in BuildIds : CF!Damage(r)
  PROVE  CF!BackfillInv'
  <1>1. CASE CF!ChangeArchive
    <2>1. /\ s2' = s2 + 1 /\ UNCHANGED <<s3, s4, s5, s6, s7>>
          /\ s1' \subseteq Candidates
      BY <1>1 DEF CF!ChangeArchive, CF!BackfillInv, CF!Typed
    <2>2. CF!Typed'
      BY <2>1 DEF CF!BackfillInv, CF!Typed
    <2>3. CF!RunsAddUp' /\ CF!CommandsFit' /\ CF!BuildsAreWhole' /\ CF!ResultsAgree'
      BY <2>1 DEF CF!BackfillInv, CF!RunsAddUp, CF!CommandsFit, CF!RowFits, CF!BuildsAreWhole,
                  CF!ResultsAgree
    <2>4. QED
      BY <2>2, <2>3 DEF CF!BackfillInv
  <1>2. ASSUME NEW r \in BuildIds, CF!Damage(r)
        PROVE  CF!BackfillInv'
    <2>1. PICK old : old = s5[r]
      OBVIOUS
    <2>2. PICK build : build = [old EXCEPT !.intact = FALSE]
      OBVIOUS
    <2>3. /\ s5' = [s5 EXCEPT ![r] = build] /\ UNCHANGED <<s1, s2, s3, s4, s6, s7>>
          /\ s5 \in [BuildIds -> CF!BuildRows \cup {NoBytes}] /\ old # NoBytes
      BY <1>2, <2>1, <2>2 DEF CF!Damage, CF!BackfillInv, CF!Typed
    <2>4. old \in CF!BuildRows
      BY <2>1, <2>3
    <2>5. old = [inputs |-> old.inputs, selected |-> old.selected, packages |-> old.packages,
                 intact |-> old.intact]
      BY <2>4 DEF CF!BuildRows
    <2>6. build = [inputs |-> old.inputs, selected |-> old.selected,
                   packages |-> old.packages, intact |-> FALSE]
      BY <2>2, <2>5
    <2>7. build \in CF!BuildRows /\ build # NoBytes
      <3>1. build \in CF!BuildRows
        BY <2>4, <2>6 DEF CF!BuildRows
      <3>2. QED
        BY <3>1, BackfillAssumption
    <2>8. \A k \in BuildIds :
              /\ s5'[k] = NoBytes <=> s5[k] = NoBytes
              /\ s5'[k].inputs = s5[k].inputs /\ s5'[k].selected = s5[k].selected
              /\ s5'[k].packages = s5[k].packages
      <3>1. \A k \in BuildIds : s5'[k] = IF k = r THEN build ELSE s5[k]
        BY <2>3
      <3>2. /\ build.inputs = old.inputs /\ build.selected = old.selected
            /\ build.packages = old.packages
        BY <2>6
      <3>3. QED
        BY <2>1, <2>3, <2>7, <3>1, <3>2
    <2>9. CF!Typed'
      BY <2>3, <2>7 DEF CF!BackfillInv, CF!Typed
    <2>10. CF!RunsAddUp' /\ CF!CommandsFit'
      BY <2>3 DEF CF!BackfillInv, CF!RunsAddUp, CF!CommandsFit, CF!RowFits
    <2>11. CF!BuildsAreWhole'
      BY <2>3, <2>8 DEF CF!BackfillInv, CF!BuildsAreWhole
    <2>12. CF!ResultsAgree'
      <3>1. \A d \in Commands : s7[d].run \in BuildIds
        BY BackfillRow DEF CF!BackfillInv, CF!Typed
      <3>2. QED
        BY <2>3, <2>8, <3>1 DEF CF!BackfillInv, CF!ResultsAgree
    <2>13. QED
      BY <2>9, <2>10, <2>11, <2>12 DEF CF!BackfillInv
  <1>3. QED
    BY <1>1, <1>2

LEMMA BackfillNext ==
  ASSUME CF!BackfillInv, CF!Next
  PROVE  CF!BackfillInv'
  <1>1. ASSUME NEW c \in Commands, CF!FailToBuild(c)
        PROVE  CF!BackfillInv'
    BY <1>1, BackfillEnd DEF CF!FailToBuild
  <1>2. QED
    BY <1>1, BackfillSelect, BackfillHash, BackfillCreate, BackfillDecide, BackfillComplete,
       BackfillPackage, BackfillPublish, BackfillOutside DEF CF!Next

\* While another component moves nothing changes.
LEMMA BackfillStays ==
  ASSUME CF!BackfillInv, UNCHANGED <<s1, s2, s3, s4, s5, s6, s7, s8>>
  PROVE  CF!BackfillInv'
  <1>1. CF!Typed' /\ CF!RunsAddUp' /\ CF!BuildsAreWhole'
    BY DEF CF!BackfillInv, CF!Typed, CF!RunsAddUp, CF!BuildsAreWhole
  <1>2. CF!CommandsFit' /\ CF!ResultsAgree'
    BY DEF CF!BackfillInv, CF!CommandsFit, CF!RowFits, CF!ResultsAgree
  <1>3. QED
    BY <1>1, <1>2 DEF CF!BackfillInv

\* The catalogs of the run are some of those the lemma speaks of.
LEMMA SamplesHold == CF!SamplesAreExact(SomeCatalogs)
  <1>1. ASSUME NEW N \in 1..6, NEW catalog \in [1..N -> 0..2], NEW n \in 1..Len(catalog)
        PROVE  LET sample == CF!Sample(catalog, n)
               IN  /\ CF!Cardinality(sample) = n
                   /\ CF!Cardinality(sample \cap CF!Special(catalog)) > CF!SpecialLimit(n) =>
                          CF!InBucket(catalog, 0) \subseteq sample
    <2>1. N \in Nat /\ catalog \in [1..N -> Nat] /\ Len(catalog) = N
      OBVIOUS
    <2>2. QED
      BY <2>1, SampleIsExact
  <1>2. \A catalog \in SomeCatalogs : \E N \in 1..6 : catalog \in [1..N -> 0..2]
    BY DEF SomeCatalogs
  <1>3. QED
    BY <1>1, <1>2 DEF CF!SamplesAreExact

-----------------------------------------------------------------------------
(***************************************************************************)
(* The attachments of a candidate package.                                 *)
(***************************************************************************)
\* Of some numbers one is the least.
LEMMA LeastNumber ==
  ASSUME NEW T, T \subseteq Nat, T # {}
  PROVE  \E n \in T : \A m \in T : n <= m
  <1>1. PICK n \in T : \A m \in T : ~(<<m, n>> \in OpToRel(<, Nat))
    BY NatLessThanWellFounded, WFMin, Zenon
  <1>2. ASSUME NEW m \in T
        PROVE  n <= m
    <2>1. n \in Nat /\ m \in Nat /\ ~(<<m, n>> \in OpToRel(<, Nat))
      BY <1>1, Zenon
    <2>2. QED
      BY <2>1 DEF OpToRel
  <1>3. QED
    BY <1>2

LEMMA AttachProduct ==
  ASSUME NEW content, NEW engine
  PROVE  /\ CA!Product(content, engine).of = content
         /\ content \in Contents \cup {NoBytes} => CA!Product(content, engine) \in CA!Products
  <1>1. PICK f \in BOOLEAN : f = ~(engine = "first" /\ content \in PoorText)
    OBVIOUS
  <1>2. CA!Product(content, engine) = [of |-> content, good |-> f]
    BY <1>1 DEF CA!Product
  <1>3. QED
    BY <1>2 DEF CA!Products

\* Rows of the type.
LEMMA AttachRow ==
  /\ \A p \in CA!ConverterRows :
         /\ p = [pc |-> p.pc, rows |-> p.rows, todo |-> p.todo, file |-> p.file,
                 engine |-> p.engine, body |-> p.body]
         /\ p.rows \in [Attachments -> CA!Rows \cup {NoBytes}]
         /\ p.todo \subseteq SUBSET Attachments /\ p.file \in Nat /\ p.engine \in CA!Engines
         /\ p.body \in CA!Products \cup {NoBytes}
         /\ p.pc \in {"idle", "next", "check", "reuse", "ask", "parse", "persist", "insert",
                      "write", "done"}
  /\ \A k \in CA!PackageRows :
         /\ k = [outcomes |-> k.outcomes, notes |-> k.notes, links |-> k.links]
         /\ k.outcomes \in [Attachments -> {"none", "converted", "failed", "skipped"}]
         /\ k.notes \subseteq CA!Notes /\ k.links \subseteq Attachments \X CA!Names
  <1>1. ASSUME NEW p \in CA!ConverterRows
        PROVE  /\ p = [pc |-> p.pc, rows |-> p.rows, todo |-> p.todo, file |-> p.file,
                       engine |-> p.engine, body |-> p.body]
               /\ p.rows \in [Attachments -> CA!Rows \cup {NoBytes}]
               /\ p.todo \subseteq SUBSET Attachments /\ p.file \in Nat
               /\ p.engine \in CA!Engines /\ p.body \in CA!Products \cup {NoBytes}
               /\ p.pc \in {"idle", "next", "check", "reuse", "ask", "parse", "persist",
                            "insert", "write", "done"}
    BY DEF CA!ConverterRows
  <1>2. ASSUME NEW k \in CA!PackageRows
        PROVE  /\ k = [outcomes |-> k.outcomes, notes |-> k.notes, links |-> k.links]
               /\ k.outcomes \in [Attachments -> {"none", "converted", "failed", "skipped"}]
               /\ k.notes \subseteq CA!Notes /\ k.links \subseteq Attachments \X CA!Names
    BY DEF CA!PackageRows
  <1>3. QED
    BY <1>1, <1>2

\* The representative of a group is of the group,
LEMMA AttachRepresentative ==
  ASSUME NEW rows, NEW group \in SUBSET Attachments, group # {}
  PROVE  CA!Representative(rows, group) \in group
  <1> DEFINE rank(f) == CA!Preference(rows, f)
  <1>1. \A f : rank(f) \in 0..3
    BY DEF CA!Preference
  <1>2. PICK best \in group : \A g \in group : rank(g) <= rank(best)
    <2> HIDE DEF rank
    <2>1. CASE \E f \in group : rank(f) = 3
      BY <1>1, <2>1
    <2>2. CASE (\E f \in group : rank(f) = 2) /\ \A f \in group : rank(f) # 3
      BY <1>1, <2>2
    <2>3. CASE (\E f \in group : rank(f) = 1) /\ \A f \in group : rank(f) \notin {2, 3}
      BY <1>1, <2>3
    <2>4. CASE \A f \in group : rank(f) \notin {1, 2, 3}
      BY <1>1, <2>4
    <2>5. QED
      BY <2>1, <2>2, <2>3, <2>4
  <1>3. PICK f \in group : rank(f) = rank(best) /\ \A g \in group : rank(g) = rank(best) => f <= g
    <2>1. PICK T : T = {g \in group : rank(g) = rank(best)}
      OBVIOUS
    <2>2. T \subseteq Nat /\ T # {}
      BY <2>1, AttachmentsAssumption
    <2>3. PICK f \in T : \A g \in T : f <= g
      BY <2>2, LeastNumber
    <2>4. QED
      BY <2>1, <2>3
  <1> HIDE DEF rank
  <1>4. \A g \in group : rank(g) < rank(f) \/ (rank(g) = rank(f) /\ f <= g)
    BY <1>1, <1>2, <1>3
  <1>5. QED
    BY <1>4 DEF rank, CA!Representative

\* ... and the first group is one of them.
LEMMA AttachFirst ==
  ASSUME NEW groups, \A group \in groups : group \in SUBSET Attachments /\ group # {},
         groups # {}
  PROVE  CA!First(groups) \in groups
  <1>1. PICK T : T = UNION groups
    OBVIOUS
  <1>2. T \subseteq Nat /\ T # {}
    <2>1. \A f \in T : f \in Attachments
      BY <1>1
    <2>2. \E group \in groups : \E f \in group : f \in T
      BY <1>1
    <2>3. QED
      BY <2>1, <2>2, AttachmentsAssumption
  <1>3. PICK f \in T : \A g \in T : f <= g
    BY <1>2, LeastNumber
  <1>4. \E group \in groups : \E h \in group : \A g \in UNION groups : h <= g
    BY <1>1, <1>3
  <1>5. QED
    BY <1>4 DEF CA!First

\* A link to the content a file has changes nothing for the others.
LEMMA AttachLink ==
  ASSUME NEW p, NEW k, NEW F \in [Attachments -> CA!Rows], NEW D, NEW T, NEW n,
         CA!Fits(p, k, F, D, T, n), NEW f \in Attachments, D[f] = F[f].sha,
         NEW F2 \in [Attachments -> CA!Rows],
         \A g \in Attachments : /\ F2[g].sha = F[g].sha
                                /\ F2[g].link = IF g = f THEN F[f].sha ELSE F[g].link
  PROVE  CA!Fits(p, k, F2, D, T, n)
  <1>1. \A g \in Attachments : CA!Same(F2, g) = CA!Same(F, g)
    BY DEF CA!Same
  <1>2. CA!Groups(F2) = CA!Groups(F)
    BY <1>1 DEF CA!Groups
  <1>3. T = {} => CA!TextFits(p, F2, D)
    BY DEF CA!Fits, CA!TextFits
  <1>4. n = 0 => CA!TakenAll(p, k, F2)
    BY <1>1, <1>2 DEF CA!Fits, CA!TakenAll
  <1>5. QED
    BY <1>3, <1>4 DEF CA!Fits

\* A conversion goes on with the file in hand,
LEMMA AttachGoesOn ==
  ASSUME NEW p, NEW k, NEW F, NEW D, NEW T, NEW n, CA!Fits(p, k, F, D, T, n), CA!Holding(p),
         NEW q, CA!Holding(q), q.rows = p.rows, q.todo = p.todo, q.file = p.file,
         q.pc = "write" => q.body \in CA!Products,
         T = {} => CA!TextFits(q, F, D)
  PROVE  CA!Fits(q, k, F, D, T, n)
  <1>1. p.pc \notin {"idle", "next", "done"} /\ q.pc \notin {"idle", "next", "done"}
    BY DEF CA!Holding
  <1>2. CA!Taken(q, k) = CA!Taken(p, k)
    BY DEF CA!Taken
  <1>3. CA!RowsFit(q)
    BY <1>1 DEF CA!Fits, CA!RowsFit
  <1>4. CA!TakenOnce(q, k)
    BY <1>1, <1>2 DEF CA!Fits, CA!TakenOnce
  <1>5. n = 0 => CA!TakenAll(q, k, F)
    BY <1>1, <1>2 DEF CA!Fits, CA!TakenAll
  <1>6. QED
    BY <1>3, <1>4, <1>5 DEF CA!Fits

\* ... or is through with it, with a note or without one.
Noted(p, k, h, T) ==
    \E name \in {<<"body">>, <<"attachment", p.file>>} : \E note :
        /\ note.name = name /\ note.file = p.file
        /\ T = {} => note.of = note.sha
        /\ h.notes = {m \in k.notes : m.name # name} \cup {note}
        /\ h.links = k.links \cup {<<p.file, name>>}

LEMMA AttachIsThrough ==
  ASSUME NEW p, NEW k \in CA!PackageRows, NEW F, NEW D, NEW T, NEW n,
         CA!Fits(p, k, F, D, T, n), CA!Holding(p),
         NEW q, q.pc = "next", q.rows = p.rows, q.todo = p.todo, q.file = p.file,
         NEW h, NEW outcome, outcome # "none",
         \A f \in Attachments : h.outcomes[f] = IF f = p.file THEN outcome ELSE k.outcomes[f],
         \/ h.notes = k.notes /\ h.links = k.links
         \/ outcome = "converted" /\ Noted(p, k, h, T)
  PROVE  CA!Fits(q, h, F, D, T, n)
  <1>1. /\ p.pc \notin {"idle", "next", "done"} /\ ~CA!Holding(q)
        /\ p.file \in Attachments /\ k.outcomes[p.file] = "none"
    BY DEF CA!Holding, CA!Fits, CA!RowsFit, CA!TakenOnce
  <1>2. k.links \subseteq Attachments \X CA!Names
    BY AttachRow
  <1>3. CA!Taken(q, h) = CA!Taken(p, k)
    BY <1>1 DEF CA!Taken
  <1>4. CA!RowsFit(q)
    BY <1>1 DEF CA!Fits, CA!RowsFit
  <1>5. CA!TakenOnce(q, h)
    BY <1>1, <1>3 DEF CA!Fits, CA!TakenOnce
  <1>6. n = 0 => CA!TakenAll(q, h, F)
    BY <1>1, <1>3 DEF CA!Fits, CA!TakenAll
  <1>7. T = {} => CA!TextFits(q, F, D)
    BY <1>1 DEF CA!Fits, CA!TextFits
  <1>8. CA!LinksLead(h) /\ (T = {} => \A m \in h.notes : m.of = m.sha)
    <2>1. \A l \in k.links : /\ l[1] \in Attachments /\ l[1] # p.file
                             /\ h.outcomes[l[1]] = "converted"
      <3>1. \A l \in k.links : l[1] \in Attachments
        BY <1>2
      <3>2. QED
        BY <1>1, <3>1 DEF CA!Fits, CA!LinksLead
    <2>2. CASE h.notes = k.notes /\ h.links = k.links
      BY <2>1, <2>2 DEF CA!Fits, CA!LinksLead
    <2>3. ASSUME NEW name \in {<<"body">>, <<"attachment", p.file>>}, NEW note,
                 outcome = "converted", note.name = name, note.file = p.file,
                 T = {} => note.of = note.sha,
                 h.notes = {m \in k.notes : m.name # name} \cup {note},
                 h.links = k.links \cup {<<p.file, name>>}
          PROVE  CA!LinksLead(h) /\ (T = {} => \A m \in h.notes : m.of = m.sha)
      <3>1. \A m \in h.notes : m = note \/ m \in k.notes
        BY <2>3
      <3>2. \A l \in k.links : l[2] = name => name = <<"body">>
        <4>1. ASSUME NEW l \in k.links, l[2] = <<"attachment", p.file>>
              PROVE  FALSE
          <5>1. l[2] \in {<<"body">>, <<"attachment", l[1]>>}
            BY DEF CA!Fits, CA!LinksLead
          <5>2. <<"attachment", p.file>> # <<"body">>
            OBVIOUS
          <5>3. <<"attachment", p.file>>[2] = <<"attachment", l[1]>>[2]
            BY <4>1, <5>1, <5>2
          <5>4. QED
            BY <2>1, <5>3
        <4>2. QED
          BY <4>1
      <3>3. ASSUME NEW l \in k.links
            PROVE  \E m \in h.notes : m.name = l[2] /\ (l[2] # <<"body">> => m.file = l[1])
        <4>1. PICK m \in k.notes : m.name = l[2] /\ (l[2] # <<"body">> => m.file = l[1])
          BY DEF CA!Fits, CA!LinksLead
        <4>2. CASE l[2] = name
          BY <2>3, <3>2, <4>2
        <4>3. CASE l[2] # name
          BY <2>3, <4>1, <4>3
        <4>4. QED
          BY <4>2, <4>3
      <3>4. PICK mine : mine = <<p.file, name>>
        OBVIOUS
      <3>5. /\ h.outcomes[mine[1]] = "converted"
            /\ mine[2] \in {<<"body">>, <<"attachment", mine[1]>>}
            /\ \E m \in h.notes : m.name = mine[2] /\ (mine[2] # <<"body">> => m.file = mine[1])
        BY <1>1, <2>3, <3>4
      <3>6. \A l \in h.links : l = mine \/ l \in k.links
        BY <2>3, <3>4
      <3>7. CA!LinksLead(h)
        <4>1. \A l \in k.links : l[2] \in {<<"body">>, <<"attachment", l[1]>>}
          BY DEF CA!Fits, CA!LinksLead
        <4>2. QED
          BY <2>1, <3>3, <3>5, <3>6, <4>1 DEF CA!LinksLead
      <3>8. QED
        BY <2>3, <3>1, <3>7 DEF CA!Fits
    <2>4. QED
      BY <2>2, <2>3 DEF Noted
  <1>9. QED
    BY <1>4, <1>5, <1>6, <1>7, <1>8 DEF CA!Fits

\* What a step of a conversion makes of its row and of its package.
Turns(c, F, D, T, n) ==
    /\ s5' \in [Commands -> CA!ConverterRows] /\ s6' \in [Commands -> CA!PackageRows]
    /\ \A d \in Commands : d # c => s5'[d] = s5[d] /\ s6'[d] = s6[d]
    /\ CA!Fits(s5'[c], s6'[c], F, D, T, n)

\* The row only, with the same file in hand,
LEMMA AttachTurns ==
  ASSUME CA!Typed, NEW c \in Commands, NEW F, NEW D, NEW T, NEW n,
         CA!Fits(s5[c], s6[c], F, D, T, n), CA!Holding(s5[c]),
         NEW q \in CA!ConverterRows, s5' = [s5 EXCEPT ![c] = q], s6' = s6,
         CA!Holding(q), q.rows = s5[c].rows, q.todo = s5[c].todo, q.file = s5[c].file,
         q.pc = "write" => q.body \in CA!Products,
         T = {} => CA!TextFits(q, F, D)
  PROVE  Turns(c, F, D, T, n)
  <1>1. s5 \in [Commands -> CA!ConverterRows] /\ s6 \in [Commands -> CA!PackageRows]
    BY DEF CA!Typed
  <1>2. CA!Fits(q, s6[c], F, D, T, n)
    <2>1. PICK p, k : p = s5[c] /\ k = s6[c]
      OBVIOUS
    <2>2. CA!Fits(q, k, F, D, T, n)
      BY <2>1, AttachGoesOn
    <2>3. QED
      BY <2>1, <2>2
  <1>3. \A d \in Commands : s5'[d] = IF d = c THEN q ELSE s5[d]
    BY <1>1
  <1>4. QED
    BY <1>1, <1>2, <1>3 DEF Turns

\* ... as when it goes on to another step,
LEMMA AttachMove ==
  ASSUME CA!Typed, NEW c \in Commands, NEW F, NEW D, NEW T, NEW n,
         CA!Fits(s5[c], s6[c], F, D, T, n), CA!Holding(s5[c]),
         NEW to \in {"reuse", "ask", "parse", "insert"}, CA!Move(c, to), s6' = s6,
         to = "reuse" => D[s5[c].file] = s5[c].rows[s5[c].file].sha,
         to # "reuse" => s5[c].pc # "check", to = "insert" => s5[c].pc = "persist"
  PROVE  Turns(c, F, D, T, n)
  <1>1. PICK p : p = s5[c] /\ p \in CA!ConverterRows
    BY DEF CA!Typed
  <1>2. PICK q : q = [p EXCEPT !.pc = to]
    OBVIOUS
  <1>2a. p = [pc |-> p.pc, rows |-> p.rows, todo |-> p.todo, file |-> p.file,
              engine |-> p.engine, body |-> p.body]
    BY <1>1, AttachRow
  <1>3. q = [pc |-> to, rows |-> p.rows, todo |-> p.todo, file |-> p.file,
             engine |-> p.engine, body |-> p.body]
    BY <1>2, <1>2a
  <1>4. s5' = [s5 EXCEPT ![c] = q]
    BY <1>1, <1>2 DEF CA!Move, CA!Step
  <1>5. q \in CA!ConverterRows
    BY <1>1, <1>3, AttachRow DEF CA!ConverterRows
  <1>6. T = {} => CA!TextFits(q, F, D)
    BY <1>1, <1>3 DEF CA!Fits, CA!TextFits, CA!Holding
  <1>7. /\ CA!Holding(q) /\ q.rows = s5[c].rows /\ q.todo = s5[c].todo
        /\ q.file = s5[c].file /\ q.pc # "write"
    BY <1>1, <1>3 DEF CA!Holding
  <1>8. QED
    BY <1>4, <1>5, <1>6, <1>7, AttachTurns

\* ... to write a product,
LEMMA AttachUse ==
  ASSUME CA!Typed, NEW c \in Commands, NEW F, NEW D, NEW T, NEW n,
         CA!Fits(s5[c], s6[c], F, D, T, n), CA!Holding(s5[c]), s5[c].pc # "check",
         NEW body \in CA!Products, CA!Use(c, body), s6' = s6,
         T = {} => body.of = s5[c].rows[s5[c].file].sha
  PROVE  Turns(c, F, D, T, n)
  <1>1. PICK p : p = s5[c] /\ p \in CA!ConverterRows
    BY DEF CA!Typed
  <1>2. PICK q : q = [p EXCEPT !.pc = "write", !.body = body]
    OBVIOUS
  <1>2a. p = [pc |-> p.pc, rows |-> p.rows, todo |-> p.todo, file |-> p.file,
              engine |-> p.engine, body |-> p.body]
    BY <1>1, AttachRow
  <1>3. q = [pc |-> "write", rows |-> p.rows, todo |-> p.todo, file |-> p.file,
             engine |-> p.engine, body |-> body]
    BY <1>2, <1>2a
  <1>4. s5' = [s5 EXCEPT ![c] = q]
    BY <1>1, <1>2 DEF CA!Use, CA!Step
  <1>5. q \in CA!ConverterRows
    BY <1>1, <1>3, AttachRow DEF CA!ConverterRows
  <1>6. T = {} => CA!TextFits(q, F, D)
    BY <1>1, <1>3 DEF CA!Fits, CA!TextFits, CA!Holding
  <1>7. /\ CA!Holding(q) /\ q.rows = s5[c].rows /\ q.todo = s5[c].todo
        /\ q.file = s5[c].file /\ q.body \in CA!Products
    BY <1>1, <1>3 DEF CA!Holding
  <1>8. QED
    BY <1>4, <1>5, <1>6, <1>7, AttachTurns

\* ... or to give the attachment up,
LEMMA AttachGive ==
  ASSUME CA!Typed, NEW c \in Commands, NEW F, NEW D, NEW T, NEW n,
         CA!Fits(s5[c], s6[c], F, D, T, n), CA!Holding(s5[c]),
         NEW outcome \in {"failed", "skipped"}, CA!Give(c, outcome)
  PROVE  Turns(c, F, D, T, n)
  <1>1. PICK p, k : p = s5[c] /\ p \in CA!ConverterRows /\ k = s6[c] /\ k \in CA!PackageRows
    BY DEF CA!Typed
  <1>1a. s5 \in [Commands -> CA!ConverterRows] /\ s6 \in [Commands -> CA!PackageRows]
    BY DEF CA!Typed
  <1>2. PICK q, outcomes : /\ q = [p EXCEPT !.pc = "next"]
                           /\ outcomes = [k.outcomes EXCEPT ![p.file] = outcome]
    OBVIOUS
  <1>2a. PICK h : h = [k EXCEPT !.outcomes = outcomes]
    OBVIOUS
  <1>2b. /\ p = [pc |-> p.pc, rows |-> p.rows, todo |-> p.todo, file |-> p.file,
                 engine |-> p.engine, body |-> p.body]
         /\ k = [outcomes |-> k.outcomes, notes |-> k.notes, links |-> k.links]
    BY <1>1, AttachRow
  <1>3. q = [pc |-> "next", rows |-> p.rows, todo |-> p.todo, file |-> p.file,
             engine |-> p.engine, body |-> p.body]
    BY <1>2, <1>2b
  <1>4. h = [outcomes |-> outcomes, notes |-> k.notes, links |-> k.links]
    BY <1>2a, <1>2b
  <1>5. s5' = [s5 EXCEPT ![c] = q]
    BY <1>1, <1>2 DEF CA!Give, CA!Move, CA!Step
  <1>6. s6' = [s6 EXCEPT ![c] = h]
    BY <1>1, <1>2, <1>2a DEF CA!Give, CA!Settled
  <1>7. q \in CA!ConverterRows
    BY <1>1, <1>3, AttachRow DEF CA!ConverterRows
  <1>8. h \in CA!PackageRows
    <2>1. /\ k.outcomes \in [Attachments -> {"none", "converted", "failed", "skipped"}]
          /\ k.notes \subseteq CA!Notes /\ k.links \subseteq Attachments \X CA!Names
      BY <1>1, AttachRow
    <2>2. outcomes \in [Attachments -> {"none", "converted", "failed", "skipped"}]
      BY <1>2, <2>1
    <2>3. QED
      BY <1>4, <2>1, <2>2 DEF CA!PackageRows
  <1>9. CA!Fits(q, h, F, D, T, n)
    <2>1. CA!Fits(p, k, F, D, T, n) /\ CA!Holding(p)
      BY <1>1
    <2>2. /\ q.pc = "next" /\ q.rows = p.rows /\ q.todo = p.todo /\ q.file = p.file
          /\ h.notes = k.notes /\ h.links = k.links
      BY <1>3, <1>4
    <2>3. \A f \in Attachments : h.outcomes[f] = IF f = p.file THEN outcome ELSE k.outcomes[f]
      BY <1>1, <1>2, <1>4, AttachRow
    <2>4. outcome # "none" /\ k \in CA!PackageRows
      BY <1>1
    <2>5. QED
      BY <2>1, <2>2, <2>3, <2>4, AttachIsThrough
  <1>10. /\ \A d \in Commands : s5'[d] = IF d = c THEN q ELSE s5[d]
         /\ \A d \in Commands : s6'[d] = IF d = c THEN h ELSE s6[d]
         /\ s5' \in [Commands -> CA!ConverterRows] /\ s6' \in [Commands -> CA!PackageRows]
    BY <1>1a, <1>5, <1>6, <1>7, <1>8
  <1>11. QED
    BY <1>9, <1>10 DEF Turns

\* ... and when it tries the other engine, or was offered a product.
LEMMA AttachNextEngine ==
  ASSUME CA!Typed, NEW c \in Commands, NEW F, NEW D, NEW T, NEW n,
         CA!Fits(s5[c], s6[c], F, D, T, n), CA!Holding(s5[c]), s5[c].pc # "check",
         CA!NextEngine(c)
  PROVE  Turns(c, F, D, T, n)
  <1>1. CASE CA!Give(c, "failed")
    BY <1>1, AttachGive
  <1>2. CASE s5' = [s5 EXCEPT ![c] = [s5[c] EXCEPT !.pc = "ask", !.engine = "fallback",
                                                   !.body = NoBytes]] /\ s6' = s6
    <2>1. PICK p : p = s5[c] /\ p \in CA!ConverterRows
      BY DEF CA!Typed
    <2>2. PICK q : q = [p EXCEPT !.pc = "ask", !.engine = "fallback", !.body = NoBytes]
      OBVIOUS
    <2>3. p = [pc |-> p.pc, rows |-> p.rows, todo |-> p.todo, file |-> p.file,
               engine |-> p.engine, body |-> p.body]
      BY <2>1, AttachRow
    <2>4. q = [pc |-> "ask", rows |-> p.rows, todo |-> p.todo, file |-> p.file,
               engine |-> "fallback", body |-> NoBytes]
      BY <2>2, <2>3
    <2>5. s5' = [s5 EXCEPT ![c] = q]
      BY <1>2, <2>1, <2>2
    <2>6. q \in CA!ConverterRows
      BY <2>1, <2>4, AttachRow DEF CA!ConverterRows, CA!Engines
    <2>7. T = {} => CA!TextFits(q, F, D)
      BY <2>1, <2>4 DEF CA!Fits, CA!TextFits, CA!Holding
    <2>8. /\ CA!Holding(q) /\ q.rows = s5[c].rows /\ q.todo = s5[c].todo
          /\ q.file = s5[c].file /\ q.pc # "write"
      BY <2>1, <2>4 DEF CA!Holding
    <2>9. QED
      BY <1>2, <2>5, <2>6, <2>7, <2>8, AttachTurns
  <1>3. QED
    BY <1>1, <1>2 DEF CA!NextEngine, CA!Step

LEMMA AttachOffer ==
  ASSUME CA!Typed, NEW c \in Commands, NEW F, NEW D, NEW T, NEW n,
         CA!Fits(s5[c], s6[c], F, D, T, n), CA!Holding(s5[c]), s5[c].pc # "check",
         NEW product \in CA!Products \cup {NoBytes}, CA!Offer(c, product),
         T = {} /\ product # NoBytes => product.of = s5[c].rows[s5[c].file].sha
  PROVE  Turns(c, F, D, T, n)
  <1>1. CASE product # NoBytes /\ product.good
    <2>1. CA!Use(c, product) /\ s6' = s6 /\ product \in CA!Products
      BY <1>1 DEF CA!Offer
    <2>2. QED
      BY <1>1, <2>1, AttachUse
  <1>2. CASE ~(product # NoBytes /\ product.good)
    BY <1>2, AttachNextEngine DEF CA!Offer
  <1>3. QED
    BY <1>1, <1>2

\* A step that neither changes an original nor writes down a lie.
LEMMA AttachCalm ==
  ASSUME CA!AttachmentsInv, NEW c \in Commands,
         Turns(c, s1', s2, s7, s8.changes), s2' = s2, s7' = s7,
         s8' \in [changes : Nat, faults : Nat], s8'.changes = s8.changes,
         s1' \in [Attachments -> CA!Rows],
         \/ s1' = s1
         \/ \E f \in Attachments :
                /\ s2[f] = s1[f].sha
                /\ \A g \in Attachments :
                       /\ s1'[g].sha = s1[g].sha
                       /\ s1'[g].link = IF g = f THEN s1[f].sha ELSE s1[g].link,
         s3' \in [Contents \X CA!Engines -> CA!Products \cup {NoBytes}],
         s4' \in [Contents \X CA!Engines -> CA!Products \cup {NoBytes}],
         s7 = {} => \A content \in Contents : \A engine \in CA!Engines :
             /\ s4'[<<content, engine>>] \in {NoBytes, CA!Product(content, engine)}
             /\ s3'[<<content, engine>>] \in {NoBytes, CA!Product(content, engine)}
  PROVE  CA!AttachmentsInv'
  <1>1. CA!Typed'
    BY DEF CA!AttachmentsInv, CA!Typed, Turns
  <1>2. s7' = {} => CA!CacheFits'
    <2> SUFFICES ASSUME s7 = {}
                 PROVE  CA!CacheFits'
      OBVIOUS
    <2>1. \A f \in Attachments : s1'[f].link \in {NoBytes, s1'[f].sha}
      BY DEF CA!AttachmentsInv, CA!CacheFits
    <2>2. QED
      BY <2>1 DEF CA!CacheFits, CA!Product, CA!Engines
  <1>3. ASSUME NEW d \in Commands
        PROVE  CA!Fits(s5'[d], s6'[d], s1', s2, s7, s8.changes)
    <2>1. CASE d = c
      BY <2>1 DEF Turns
    <2>2. CASE d # c
      <3>1. PICK p, k, n, T, D, F, F2 :
                /\ p = s5[d] /\ k = s6[d] /\ n = s8.changes /\ T = s7 /\ D = s2 /\ F = s1
                /\ F2 = s1'
        OBVIOUS
      <3>2. s5'[d] = p /\ s6'[d] = k
        BY <2>2, <3>1 DEF Turns
      <3>3. CA!Fits(p, k, F, D, T, n) /\ F \in [Attachments -> CA!Rows]
        BY <3>1 DEF CA!AttachmentsInv, CA!Typed
      <3>4. CA!Fits(p, k, F2, D, T, n)
        <4>1. CASE F2 = F
          BY <3>3, <4>1
        <4>2. CASE F2 # F
          <5>1. PICK f \in Attachments :
                    /\ D[f] = F[f].sha
                    /\ \A g \in Attachments :
                           /\ F2[g].sha = F[g].sha
                           /\ F2[g].link = IF g = f THEN F[f].sha ELSE F[g].link
            BY <3>1, <4>2
          <5>2. F2 \in [Attachments -> CA!Rows]
            BY <3>1
          <5>3. QED
            BY <3>3, <5>1, <5>2, AttachLink, Zenon
        <4>3. QED
          BY <4>1, <4>2
      <3>5. QED
        BY <3>1, <3>2, <3>4
    <2>3. QED
      BY <2>1, <2>2
  <1>4. QED
    BY <1>1, <1>2, <1>3 DEF CA!AttachmentsInv

\* What is known of a conversion with a file in hand.
LEMMA AttachHand ==
  ASSUME CA!AttachmentsInv, NEW c \in Commands, CA!Holding(s5[c])
  PROVE  /\ CA!Typed /\ CA!Fits(s5[c], s6[c], s1, s2, s7, s8.changes)
         /\ s5[c] \in CA!ConverterRows /\ s6[c] \in CA!PackageRows
         /\ s5[c].file \in Attachments /\ s5[c].rows \in [Attachments -> CA!Rows]
         /\ s5[c].rows[s5[c].file].sha \in Contents /\ s5[c].engine \in CA!Engines
         /\ s7 = {} /\ s5[c].pc # "check" => s2[s5[c].file] = s5[c].rows[s5[c].file].sha
         /\ s1 \in [Attachments -> CA!Rows]
         /\ s3 \in [Contents \X CA!Engines -> CA!Products \cup {NoBytes}]
         /\ s4 \in [Contents \X CA!Engines -> CA!Products \cup {NoBytes}]
         /\ s7 = {} => \A content \in Contents : \A engine \in CA!Engines :
             /\ s4[<<content, engine>>] \in {NoBytes, CA!Product(content, engine)}
             /\ s3[<<content, engine>>] \in {NoBytes, CA!Product(content, engine)}
         /\ s8 \in [changes : Nat, faults : Nat]
  <1>1. CA!Typed /\ CA!Fits(s5[c], s6[c], s1, s2, s7, s8.changes)
    BY DEF CA!AttachmentsInv
  <1>2. s5[c] \in CA!ConverterRows /\ s6[c] \in CA!PackageRows
    BY <1>1 DEF CA!Typed
  <1>3. s5[c].file \in Attachments /\ s5[c].rows \in [Attachments -> CA!Rows]
    BY <1>1 DEF CA!Fits, CA!RowsFit, CA!Holding
  <1>4. s5[c].rows[s5[c].file].sha \in Contents
    BY <1>3 DEF CA!Rows
  <1>5. s7 = {} /\ s5[c].pc # "check" => s2[s5[c].file] = s5[c].rows[s5[c].file].sha
    BY <1>1 DEF CA!Fits, CA!TextFits
  <1>6. /\ s1 \in [Attachments -> CA!Rows] /\ s8 \in [changes : Nat, faults : Nat]
        /\ s3 \in [Contents \X CA!Engines -> CA!Products \cup {NoBytes}]
        /\ s4 \in [Contents \X CA!Engines -> CA!Products \cup {NoBytes}]
    BY <1>1 DEF CA!Typed
  <1>7. s7 = {} => \A content \in Contents : \A engine \in CA!Engines :
             /\ s4[<<content, engine>>] \in {NoBytes, CA!Product(content, engine)}
             /\ s3[<<content, engine>>] \in {NoBytes, CA!Product(content, engine)}
    BY DEF CA!AttachmentsInv, CA!CacheFits, CA!Product, CA!Engines
  <1>8. QED
    BY <1>1, <1>2, <1>3, <1>4, <1>5, <1>6, <1>7, AttachRow

\* A step of a conversion that leaves the archive and the cache alone.
LEMMA AttachQuiet ==
  ASSUME CA!AttachmentsInv, NEW c \in Commands, CA!Holding(s5[c]),
         Turns(c, s1, s2, s7, s8.changes), UNCHANGED <<s1, s2, s3, s4, s7>>,
         s8' \in [changes : Nat, faults : Nat], s8'.changes = s8.changes
  PROVE  CA!AttachmentsInv'
  BY AttachHand, AttachCalm

LEMMA AttachCheck ==
  ASSUME CA!AttachmentsInv, NEW c \in Commands, CA!Check(c)
  PROVE  CA!AttachmentsInv'
  <1>1. /\ s5[c].pc = "check" /\ CA!Holding(s5[c])
        /\ UNCHANGED <<s1, s2, s3, s4, s7, s8>>
    BY DEF CA!Check, CA!At, CA!Holding, CA!archive, CA!cache
  <1>2. Turns(c, s1, s2, s7, s8.changes)
    <2>1. CASE CA!Give(c, "failed")
      BY <1>1, <2>1, AttachHand, AttachGive
    <2>2. CASE /\ CA!Move(c, "reuse") /\ s6' = s6
               /\ s2[s5[c].file] = s5[c].rows[s5[c].file].sha
      BY <1>1, <2>2, AttachHand, AttachMove
    <2>3. QED
      BY <2>1, <2>2 DEF CA!Check, CA!Intact, CA!Row
  <1>3. QED
    BY <1>1, <1>2, AttachHand, AttachQuiet

LEMMA AttachReuse ==
  ASSUME CA!AttachmentsInv, NEW c \in Commands, CA!Reuse(c)
  PROVE  CA!AttachmentsInv'
  <1>1. /\ s5[c].pc = "reuse" /\ CA!Holding(s5[c])
        /\ UNCHANGED <<s1, s2, s3, s4, s7, s8>>
    BY DEF CA!Reuse, CA!At, CA!Holding, CA!archive, CA!cache
  <1>2. PICK f \in Attachments : f = s5[c].file
    BY <1>1, AttachHand
  <1>3. s7 = {} => s1[f].link \in {NoBytes, s2[f]} /\ s2[f] = s5[c].rows[f].sha
    BY <1>1, <1>2, AttachHand DEF CA!Fits, CA!TextFits
  <1>4. PICK newest \in CA!Reusable(f) :
            \/ newest # NoBytes /\ CA!Use(c, newest) /\ s6' = s6
            \/ CA!ByFormat(c)
    BY <1>2 DEF CA!Reuse
  <1>5. CASE newest # NoBytes /\ CA!Use(c, newest) /\ s6' = s6
    <2>1. PICK engine \in CA!Engines : s1[f].link # NoBytes /\ newest = s4[<<s1[f].link, engine>>]
      BY <1>5 DEF CA!Reusable
    <2>2. s1[f].link \in Contents
      BY <1>1, <2>1, AttachHand DEF CA!Rows
    <2>3. newest \in CA!Products
      BY <1>1, <1>5, <2>1, <2>2, AttachHand
    <2>4. s7 = {} => newest.of = s5[c].rows[s5[c].file].sha
      BY <1>1, <1>2, <1>3, <1>5, <2>1, <2>2, AttachHand, AttachProduct
    <2>5. Turns(c, s1, s2, s7, s8.changes)
      BY <1>1, <1>5, <2>3, <2>4, AttachHand, AttachUse
    <2>6. QED
      BY <1>1, <2>5, AttachHand, AttachQuiet
  <1>6. CASE CA!ByFormat(c)
    <2>1. PICK content : content = s2[f]
      OBVIOUS
    <2>2. CASE content \in Unreadable \cup {NoBytes}
      <3>1. \E outcome \in {"failed", "skipped"} : CA!Give(c, outcome)
        <4>1. CASE content = NoBytes
          <5>1. CA!Give(c, "failed")
            BY <1>2, <1>6, <2>1, <4>1 DEF CA!ByFormat
          <5>2. QED
            BY <5>1
        <4>2. CASE content # NoBytes
          <5>1. CA!Give(c, "skipped")
            BY <1>2, <1>6, <2>1, <2>2, <4>2 DEF CA!ByFormat
          <5>2. QED
            BY <5>1
        <4>3. QED
          BY <4>1, <4>2
      <3>2. Turns(c, s1, s2, s7, s8.changes)
        BY <1>1, <3>1, AttachHand, AttachGive
      <3>3. QED
        BY <1>1, <3>2, AttachHand, AttachQuiet
    <2>3. CASE content \notin Unreadable \cup {NoBytes} /\ content \in ReadyText
      <3>1. PICK body : body = [of |-> content, good |-> TRUE]
        OBVIOUS
      <3>2. CA!Use(c, body) /\ s6' = s6
        BY <1>2, <1>6, <2>1, <2>3, <3>1 DEF CA!ByFormat
      <3>3. content \in Contents \cup {NoBytes}
        BY <1>1, <1>2, <2>1, AttachHand DEF CA!Typed
      <3>4. body \in CA!Products /\ body.of = content
        BY <3>1, <3>3 DEF CA!Products
      <3>5. Turns(c, s1, s2, s7, s8.changes)
        BY <1>1, <1>2, <1>3, <2>1, <3>2, <3>4, AttachHand, AttachUse
      <3>6. QED
        BY <1>1, <3>5, AttachHand, AttachQuiet
    <2>4. CASE content \notin Unreadable \cup {NoBytes} /\ content \notin ReadyText
      <3>1. s5' = [s5 EXCEPT ![c] = [s5[c] EXCEPT !.pc = "ask", !.engine = "first"]] /\ s6' = s6
        BY <1>2, <1>6, <2>1, <2>4 DEF CA!ByFormat, CA!Step
      <3>2. PICK p : p = s5[c] /\ p \in CA!ConverterRows
        BY <1>1, AttachHand
      <3>3. PICK q : q = [p EXCEPT !.pc = "ask", !.engine = "first"]
        OBVIOUS
      <3>4. p = [pc |-> p.pc, rows |-> p.rows, todo |-> p.todo, file |-> p.file,
                 engine |-> p.engine, body |-> p.body]
        BY <3>2, AttachRow
      <3>5. q = [pc |-> "ask", rows |-> p.rows, todo |-> p.todo, file |-> p.file,
                 engine |-> "first", body |-> p.body]
        BY <3>3, <3>4
      <3>6. s5' = [s5 EXCEPT ![c] = q]
        BY <3>1, <3>2, <3>3
      <3>7. q \in CA!ConverterRows
        BY <3>2, <3>5, AttachRow DEF CA!ConverterRows, CA!Engines
      <3>8. s7 = {} => CA!TextFits(q, s1, s2)
        BY <1>1, <3>2, <3>5, AttachHand DEF CA!Fits, CA!TextFits, CA!Holding
      <3>9. /\ CA!Holding(q) /\ q.rows = s5[c].rows /\ q.todo = s5[c].todo
            /\ q.file = s5[c].file /\ q.pc # "write"
        BY <3>2, <3>5 DEF CA!Holding
      <3>10. Turns(c, s1, s2, s7, s8.changes)
        BY <1>1, <3>1, <3>6, <3>7, <3>8, <3>9, AttachHand, AttachTurns
      <3>11. QED
        BY <1>1, <3>10, AttachHand, AttachQuiet
    <2>5. QED
      BY <2>2, <2>3, <2>4
  <1>7. QED
    BY <1>4, <1>5, <1>6

\* The steps of get_or_parse.
LEMMA AttachAsk ==
  ASSUME CA!AttachmentsInv, NEW c \in Commands, CA!Ask(c)
  PROVE  CA!AttachmentsInv'
  <1>1. /\ s5[c].pc = "ask" /\ CA!Holding(s5[c]) /\ s5[c].pc # "check"
        /\ UNCHANGED <<s2, s3, s4, s7, s8>>
    BY DEF CA!Ask, CA!At, CA!Holding, CA!cache
  <1>2. PICK f \in Attachments, sha \in Contents, engine \in CA!Engines :
            f = s5[c].file /\ sha = s5[c].rows[f].sha /\ engine = s5[c].engine
    BY <1>1, AttachHand
  <1>3. CASE CA!NextEngine(c) /\ s1' = s1
    <2>1. Turns(c, s1, s2, s7, s8.changes)
      BY <1>1, <1>3, AttachHand, AttachNextEngine
    <2>2. QED
      BY <1>1, <1>3, <2>1, AttachQuiet, AttachHand
  <1>4. CASE /\ s1[f].sha = sha /\ s2[f] = sha /\ s1' = [s1 EXCEPT ![f].link = sha]
             /\ \/ CA!Offer(c, s4[<<sha, engine>>])
                \/ CA!Move(c, "parse") /\ s6' = s6
    <2>1. PICK row, new : row = s1[f] /\ new = [row EXCEPT !.link = sha]
      OBVIOUS
    <2>2. row \in CA!Rows
      BY <1>1, <1>2, <2>1, AttachHand
    <2>3. row = [sha |-> row.sha, verified |-> row.verified, role |-> row.role, link |-> row.link]
      BY <2>2 DEF CA!Rows
    <2>4. new = [sha |-> row.sha, verified |-> row.verified, role |-> row.role, link |-> sha]
      BY <2>1, <2>3
    <2>5. new \in CA!Rows
      BY <1>2, <2>2, <2>4 DEF CA!Rows
    <2>6. s1' = [s1 EXCEPT ![f] = new]
      BY <1>4, <2>1
    <2>7. /\ s1' \in [Attachments -> CA!Rows]
          /\ \A g \in Attachments : s1'[g] = IF g = f THEN new ELSE s1[g]
      BY <1>1, <2>5, <2>6, AttachHand
    <2>8. \A g \in Attachments : /\ s1'[g].sha = s1[g].sha
                                 /\ s1'[g].link = IF g = f THEN s1[f].sha ELSE s1[g].link
      BY <1>4, <2>1, <2>4, <2>7
    <2>9. PICK F, D, T, n, k, p : /\ F = s1' /\ D = s2 /\ T = s7 /\ n = s8.changes
                                  /\ p = s5[c] /\ k = s6[c]
      OBVIOUS
    <2>10. CA!Fits(p, k, F, D, T, n)
      <3>1. PICK old : old = s1
        OBVIOUS
      <3>2. CA!Fits(p, k, old, D, T, n) /\ old \in [Attachments -> CA!Rows]
        BY <1>1, <2>9, <3>1, AttachHand
      <3>3. /\ F \in [Attachments -> CA!Rows] /\ D[f] = old[f].sha
            /\ \A g \in Attachments : /\ F[g].sha = old[g].sha
                                      /\ F[g].link = IF g = f THEN old[f].sha ELSE old[g].link
        BY <1>4, <2>7, <2>8, <2>9, <3>1
      <3>4. QED
        BY <3>2, <3>3, AttachLink, Zenon
    <2>11. Turns(c, F, D, T, n)
      <3>1. CASE CA!Offer(c, s4[<<sha, engine>>])
        <4>1. PICK product : product = s4[<<sha, engine>>]
          OBVIOUS
        <4>2. product \in CA!Products \cup {NoBytes}
          BY <1>1, <4>1, AttachHand
        <4>3. T = {} /\ product # NoBytes => product.of = s5[c].rows[s5[c].file].sha
          BY <1>1, <1>2, <2>9, <4>1, AttachHand, AttachProduct
        <4>4. QED
          BY <1>1, <2>9, <2>10, <3>1, <4>1, <4>2, <4>3, AttachHand, AttachOffer
      <3>2. CASE CA!Move(c, "parse") /\ s6' = s6
        BY <1>1, <2>9, <2>10, <3>2, AttachHand, AttachMove
      <3>3. QED
        BY <1>4, <3>1, <3>2
    <2>12. Turns(c, s1', s2, s7, s8.changes)
      BY <2>9, <2>11
    <2>13. s2[f] = s1[f].sha
      BY <1>4
    <2>14. QED
      BY <1>1, <2>7, <2>8, <2>12, <2>13, AttachHand, AttachCalm
  <1>5. QED
    BY <1>2, <1>3, <1>4 DEF CA!Ask, CA!Row, CA!Key, CA!Intact

LEMMA AttachParse ==
  ASSUME CA!AttachmentsInv, NEW c \in Commands, CA!Parse(c)
  PROVE  CA!AttachmentsInv'
  <1>1. /\ s5[c].pc = "parse" /\ CA!Holding(s5[c]) /\ s5[c].pc # "check"
        /\ UNCHANGED <<s1, s2, s3, s7, s8>>
    BY DEF CA!Parse, CA!At, CA!Holding, CA!archive
  <1>2. PICK f \in Attachments, sha \in Contents, engine \in CA!Engines :
            f = s5[c].file /\ sha = s5[c].rows[f].sha /\ engine = s5[c].engine
    BY <1>1, AttachHand
  <1>3. CASE CA!NextEngine(c) /\ s4' = s4
    <2>1. Turns(c, s1, s2, s7, s8.changes)
      BY <1>1, <1>3, AttachHand, AttachNextEngine
    <2>2. QED
      BY <1>1, <1>3, <2>1, AttachQuiet, AttachHand
  <1>4. CASE /\ s4' = [s4 EXCEPT ![<<sha, engine>>] = CA!Product(s2[f], engine)]
             /\ s5' = [s5 EXCEPT ![c] = [s5[c] EXCEPT !.pc = "persist",
                                                      !.body = CA!Product(s2[f], engine)]]
             /\ s6' = s6
    <2>1. PICK product : product = CA!Product(s2[f], engine)
      OBVIOUS
    <2>2. s2[f] \in Contents \cup {NoBytes}
      BY <1>1, AttachHand DEF CA!Typed
    <2>3. product \in CA!Products
      BY <2>1, <2>2, AttachProduct
    <2>4. s7 = {} => product = CA!Product(sha, engine)
      BY <1>1, <1>2, <2>1, AttachHand
    <2>5. PICK p : p = s5[c] /\ p \in CA!ConverterRows
      BY <1>1, AttachHand
    <2>6. PICK q : q = [p EXCEPT !.pc = "persist", !.body = product]
      OBVIOUS
    <2>7. p = [pc |-> p.pc, rows |-> p.rows, todo |-> p.todo, file |-> p.file,
               engine |-> p.engine, body |-> p.body]
      BY <2>5, AttachRow
    <2>8. q = [pc |-> "persist", rows |-> p.rows, todo |-> p.todo, file |-> p.file,
               engine |-> p.engine, body |-> product]
      BY <2>6, <2>7
    <2>9. s5' = [s5 EXCEPT ![c] = q]
      BY <1>4, <2>1, <2>5, <2>6
    <2>10. q \in CA!ConverterRows
      BY <2>3, <2>5, <2>8, AttachRow DEF CA!ConverterRows
    <2>11. s7 = {} => CA!TextFits(q, s1, s2)
      <3>1. s7 = {} => CA!TextFits(p, s1, s2)
        BY <1>1, <2>5, AttachHand DEF CA!Fits
      <3>2. /\ q.pc = "persist" /\ q.rows = p.rows /\ q.file = p.file /\ q.engine = p.engine
            /\ q.body = product /\ p.pc = "parse"
        BY <1>1, <2>5, <2>8
      <3>3. QED
        BY <1>2, <2>4, <2>5, <3>1, <3>2 DEF CA!TextFits, CA!Holding
    <2>12. /\ CA!Holding(q) /\ q.rows = s5[c].rows /\ q.todo = s5[c].todo
           /\ q.file = s5[c].file /\ q.pc # "write"
      BY <2>5, <2>8 DEF CA!Holding
    <2>13. Turns(c, s1, s2, s7, s8.changes)
      BY <1>1, <1>4, <2>9, <2>10, <2>11, <2>12, AttachHand, AttachTurns
    <2>14. s4' \in [Contents \X CA!Engines -> CA!Products \cup {NoBytes}]
      BY <1>1, <1>4, <2>1, <2>3, AttachHand
    <2>15. \A content \in Contents : \A other \in CA!Engines :
               s4'[<<content, other>>] = IF content = sha /\ other = engine THEN product
                                         ELSE s4[<<content, other>>]
      BY <1>1, <1>4, <2>1, AttachHand
    <2>16. s7 = {} => \A content \in Contents : \A other \in CA!Engines :
               /\ s4'[<<content, other>>] \in {NoBytes, CA!Product(content, other)}
               /\ s3'[<<content, other>>] \in {NoBytes, CA!Product(content, other)}
      BY <1>1, <2>4, <2>15, AttachHand
    <2>17. QED
      BY <1>1, <2>13, <2>14, <2>16, AttachHand, AttachCalm
  <1>5. QED
    BY <1>2, <1>3, <1>4 DEF CA!Parse, CA!Row, CA!Key, CA!Step

LEMMA AttachPersist ==
  ASSUME CA!AttachmentsInv, NEW c \in Commands, CA!Persist(c) \/ CA!Insert(c)
  PROVE  CA!AttachmentsInv'
  <1>1. /\ s5[c].pc \in {"persist", "insert"} /\ CA!Holding(s5[c]) /\ s5[c].pc # "check"
        /\ UNCHANGED <<s1, s2, s4, s7, s8>>
    BY DEF CA!Persist, CA!Insert, CA!At, CA!Holding, CA!archive, CA!cache
  <1>2. PICK f \in Attachments, sha \in Contents, engine \in CA!Engines :
            f = s5[c].file /\ sha = s5[c].rows[f].sha /\ engine = s5[c].engine
    BY <1>1, AttachHand
  <1>3. PICK product : product = s4[<<sha, engine>>]
    OBVIOUS
  <1>4. product \in CA!Products \cup {NoBytes}
    BY <1>1, <1>3, AttachHand
  <1>5. s7 = {} /\ product # NoBytes => product.of = s5[c].rows[s5[c].file].sha
    BY <1>1, <1>2, <1>3, AttachHand, AttachProduct
  <1>6. CA!Offer(c, product) => Turns(c, s1, s2, s7, s8.changes)
    BY <1>1, <1>4, <1>5, AttachHand, AttachOffer
  <1>7. CASE CA!Persist(c)
    <2>1. s3' = s3
      BY <1>7 DEF CA!Persist, CA!cache
    <2>2. CA!Offer(c, product) \/ (CA!Move(c, "insert") /\ s6' = s6 /\ s5[c].pc = "persist")
      BY <1>2, <1>3, <1>7 DEF CA!Persist, CA!Row, CA!Key, CA!At
    <2>3. CASE CA!Move(c, "insert") /\ s6' = s6 /\ s5[c].pc = "persist"
      <3>1. Turns(c, s1, s2, s7, s8.changes)
        BY <1>1, <2>3, AttachHand, AttachMove
      <3>2. QED
        BY <1>1, <2>1, <3>1, AttachHand, AttachQuiet
    <2>4. CASE CA!Offer(c, product)
      BY <1>1, <1>6, <2>1, <2>4, AttachHand, AttachQuiet
    <2>5. QED
      BY <2>2, <2>3, <2>4
  <1>8. CASE CA!Insert(c)
    <2>1. PICK body : body = s5[c].body
      OBVIOUS
    <2>2. /\ s3' = [s3 EXCEPT ![<<sha, engine>>] = body] /\ CA!Offer(c, product)
          /\ s5[c].pc = "insert"
      BY <1>2, <1>3, <1>8, <2>1 DEF CA!Insert, CA!Row, CA!Key, CA!RowAfterInsert, CA!At
    <2>3. body \in CA!Products \cup {NoBytes}
      BY <1>1, <2>1, AttachHand, AttachRow
    <2>4. s7 = {} => body = CA!Product(sha, engine)
      BY <1>1, <1>2, <2>1, <2>2, AttachHand DEF CA!Fits, CA!TextFits
    <2>5. s3' \in [Contents \X CA!Engines -> CA!Products \cup {NoBytes}]
      BY <1>1, <2>2, <2>3, AttachHand
    <2>6. \A content \in Contents : \A other \in CA!Engines :
              s3'[<<content, other>>] = IF content = sha /\ other = engine THEN body
                                        ELSE s3[<<content, other>>]
      BY <1>1, <2>2, AttachHand
    <2>7. s7 = {} => \A content \in Contents : \A other \in CA!Engines :
               /\ s4'[<<content, other>>] \in {NoBytes, CA!Product(content, other)}
               /\ s3'[<<content, other>>] \in {NoBytes, CA!Product(content, other)}
      BY <1>1, <2>4, <2>6, AttachHand
    <2>8. QED
      BY <1>1, <1>6, <2>2, <2>5, <2>7, AttachHand, AttachCalm
  <1>9. QED
    BY <1>7, <1>8

\* A note is written.
LEMMA AttachWrite ==
  ASSUME CA!AttachmentsInv, NEW c \in Commands, CA!Write(c)
  PROVE  CA!AttachmentsInv'
  <1>1. /\ s5[c].pc = "write" /\ CA!Holding(s5[c]) /\ s5[c].pc # "check"
        /\ UNCHANGED <<s1, s2, s3, s4, s7, s8>>
    BY DEF CA!Write, CA!At, CA!Holding, CA!archive, CA!cache
  <1>2. PICK p, k : p = s5[c] /\ p \in CA!ConverterRows /\ k = s6[c] /\ k \in CA!PackageRows
    BY <1>1, AttachHand
  <1>3. PICK f \in Attachments, sha \in Contents :
            f = p.file /\ sha = p.rows[f].sha
    BY <1>1, <1>2, AttachHand
  <1>4. PICK name \in CA!Names : /\ name \in {<<"body">>, <<"attachment", f>>}
                                 /\ name = IF p.rows[f].role = "official_body" THEN <<"body">>
                                           ELSE <<"attachment", f>>
    BY DEF CA!Names
  <1>5. PICK note : note = [name |-> name, file |-> f, sha |-> sha, of |-> p.body.of]
    OBVIOUS
  <1>6. PICK outcomes, notes, links :
            /\ outcomes = [k.outcomes EXCEPT ![f] = "converted"]
            /\ notes = {n \in k.notes : n.name # name} \cup {note}
            /\ links = k.links \cup {<<f, name>>}
    OBVIOUS
  <1>7. PICK h : h = [k EXCEPT !.outcomes = outcomes, !.notes = notes, !.links = links]
    OBVIOUS
  <1>8. PICK q : q = [p EXCEPT !.pc = "next", !.body = NoBytes]
    OBVIOUS
  <1>9. /\ p = [pc |-> p.pc, rows |-> p.rows, todo |-> p.todo, file |-> p.file,
                engine |-> p.engine, body |-> p.body]
        /\ k = [outcomes |-> k.outcomes, notes |-> k.notes, links |-> k.links]
    BY <1>2, AttachRow
  <1>10. h = [outcomes |-> outcomes, notes |-> notes, links |-> links]
    BY <1>7, <1>9
  <1>11. q = [pc |-> "next", rows |-> p.rows, todo |-> p.todo, file |-> p.file,
              engine |-> p.engine, body |-> NoBytes]
    BY <1>8, <1>9
  <1>12. s5' = [s5 EXCEPT ![c] = q]
    BY <1>2, <1>8 DEF CA!Write, CA!Step
  <1>13. s6' = [s6 EXCEPT ![c] = h]
    <2>1. s6' = [s6 EXCEPT ![c] = [outcomes |-> outcomes, notes |-> notes, links |-> links]]
      BY <1>2, <1>3, <1>4, <1>5, <1>6 DEF CA!Write, CA!Row
    <2>2. QED
      BY <1>10, <2>1
  <1>14. q \in CA!ConverterRows
    BY <1>2, <1>11, AttachRow DEF CA!ConverterRows
  <1>15. h \in CA!PackageRows
    <2>1. p.body \in CA!Products
      BY <1>1, <1>2, AttachHand DEF CA!Fits, CA!RowsFit
    <2>2. note \in CA!Notes
      BY <1>5, <2>1 DEF CA!Notes, CA!Products
    <2>3. /\ k.outcomes \in [Attachments -> {"none", "converted", "failed", "skipped"}]
          /\ k.notes \subseteq CA!Notes /\ k.links \subseteq Attachments \X CA!Names
      BY <1>2, AttachRow
    <2>4. /\ outcomes \in [Attachments -> {"none", "converted", "failed", "skipped"}]
          /\ notes \subseteq CA!Notes /\ links \subseteq Attachments \X CA!Names
      BY <1>6, <2>2, <2>3
    <2>5. QED
      BY <1>10, <2>4 DEF CA!PackageRows
  <1>16. PICK F, D, T, n : F = s1 /\ D = s2 /\ T = s7 /\ n = s8.changes
    OBVIOUS
  <1>17. CA!Fits(q, h, F, D, T, n)
    <2>1. CA!Fits(p, k, F, D, T, n) /\ CA!Holding(p) /\ k \in CA!PackageRows
      BY <1>1, <1>2, <1>16, AttachHand
    <2>2. /\ q.pc = "next" /\ q.rows = p.rows /\ q.todo = p.todo /\ q.file = p.file
      BY <1>11
    <2>3. \A g \in Attachments : h.outcomes[g] = IF g = p.file THEN "converted" ELSE k.outcomes[g]
      BY <1>2, <1>3, <1>6, <1>10, AttachRow
    <2>4. T = {} => note.of = note.sha
      BY <1>1, <1>2, <1>3, <1>5, <2>1 DEF CA!Fits, CA!TextFits
    <2>5. Noted(p, k, h, T)
      <3>1. note.name = name /\ note.file = p.file
        BY <1>3, <1>5
      <3>2. /\ h.notes = {m \in k.notes : m.name # name} \cup {note}
            /\ h.links = k.links \cup {<<p.file, name>>}
        BY <1>3, <1>6, <1>10
      <3>3. QED
        BY <1>3, <1>4, <2>4, <3>1, <3>2 DEF Noted
    <2>6. PICK outcome : outcome = "converted"
      OBVIOUS
    <2>7. \A g \in Attachments : h.outcomes[g] = IF g = p.file THEN outcome ELSE k.outcomes[g]
      BY <2>3, <2>6
    <2>8. QED
      BY <2>1, <2>2, <2>5, <2>6, <2>7, AttachIsThrough
  <1>18. Turns(c, s1, s2, s7, s8.changes)
    <2>1. s5 \in [Commands -> CA!ConverterRows] /\ s6 \in [Commands -> CA!PackageRows]
      BY <1>1, AttachHand DEF CA!Typed
    <2>2. /\ \A d \in Commands : s5'[d] = IF d = c THEN q ELSE s5[d]
          /\ \A d \in Commands : s6'[d] = IF d = c THEN h ELSE s6[d]
          /\ s5' \in [Commands -> CA!ConverterRows] /\ s6' \in [Commands -> CA!PackageRows]
      BY <1>12, <1>13, <1>14, <1>15, <2>1
    <2>3. QED
      BY <1>16, <1>17, <2>2 DEF Turns
  <1>19. QED
    BY <1>1, <1>18, AttachHand, AttachQuiet

\* What is known whatever the conversion does.
LEMMA AttachKnown ==
  ASSUME CA!AttachmentsInv
  PROVE  /\ s1 \in [Attachments -> CA!Rows] /\ s2 \in [Attachments -> Contents \cup {NoBytes}]
         /\ s3 \in [Contents \X CA!Engines -> CA!Products \cup {NoBytes}]
         /\ s4 \in [Contents \X CA!Engines -> CA!Products \cup {NoBytes}]
         /\ s5 \in [Commands -> CA!ConverterRows] /\ s6 \in [Commands -> CA!PackageRows]
         /\ s7 \subseteq Attachments /\ s8 \in [changes : Nat, faults : Nat]
         /\ s7 = {} => \A f \in Attachments : s1[f].link \in {NoBytes, s1[f].sha}
         /\ s7 = {} => \A content \in Contents : \A engine \in CA!Engines :
             /\ s4[<<content, engine>>] \in {NoBytes, CA!Product(content, engine)}
             /\ s3[<<content, engine>>] \in {NoBytes, CA!Product(content, engine)}
         /\ \A c \in Commands : CA!Fits(s5[c], s6[c], s1, s2, s7, s8.changes)
  <1>1. s7 = {} => \A content \in Contents : \A engine \in CA!Engines :
             /\ s4[<<content, engine>>] \in {NoBytes, CA!Product(content, engine)}
             /\ s3[<<content, engine>>] \in {NoBytes, CA!Product(content, engine)}
    BY DEF CA!AttachmentsInv, CA!CacheFits, CA!Product, CA!Engines
  <1>2. QED
    BY <1>1 DEF CA!AttachmentsInv, CA!Typed, CA!CacheFits

\* A step of a conversion with another row and another package.
LEMMA AttachStep ==
  ASSUME CA!AttachmentsInv, NEW c \in Commands, NEW q \in CA!ConverterRows,
         NEW h \in CA!PackageRows, s5' = [s5 EXCEPT ![c] = q], s6' = [s6 EXCEPT ![c] = h],
         CA!Fits(q, h, s1, s2, s7, s8.changes), UNCHANGED <<s1, s2, s3, s4, s7>>,
         s8' \in [changes : Nat, faults : Nat], s8'.changes = s8.changes
  PROVE  CA!AttachmentsInv'
  <1>1. /\ \A d \in Commands : s5'[d] = IF d = c THEN q ELSE s5[d]
        /\ \A d \in Commands : s6'[d] = IF d = c THEN h ELSE s6[d]
        /\ s5' \in [Commands -> CA!ConverterRows] /\ s6' \in [Commands -> CA!PackageRows]
    BY AttachKnown
  <1>2. Turns(c, s1, s2, s7, s8.changes)
    BY <1>1 DEF Turns
  <1>3. QED
    BY <1>2, AttachKnown, AttachCalm

LEMMA AttachFault ==
  ASSUME CA!AttachmentsInv, CA!Fault
  PROVE  s8' \in [changes : Nat, faults : Nat] /\ s8'.changes = s8.changes
  <1>1. PICK old, new : old = s8 /\ new = [old EXCEPT !.faults = old.faults + 1]
    OBVIOUS
  <1>2. old \in [changes : Nat, faults : Nat]
    BY <1>1, AttachKnown
  <1>3. new \in [changes : Nat, faults : Nat] /\ new.changes = old.changes
    BY <1>1, <1>2
  <1>4. QED
    BY <1>1, <1>3 DEF CA!Fault

LEMMA AttachFailAttempt ==
  ASSUME CA!AttachmentsInv, NEW c \in Commands, CA!FailAttempt(c)
  PROVE  CA!AttachmentsInv'
  <1>1. /\ CA!Holding(s5[c]) /\ s5[c].pc # "check" /\ CA!NextEngine(c)
        /\ UNCHANGED <<s1, s2, s3, s4, s7>> /\ CA!Fault
    BY DEF CA!FailAttempt, CA!Holding, CA!archive, CA!cache
  <1>2. Turns(c, s1, s2, s7, s8.changes)
    BY <1>1, AttachHand, AttachNextEngine
  <1>3. QED
    BY <1>1, <1>2, AttachFault, AttachQuiet

\* Nothing under way: a conversion that died before its package was there.
LEMMA AttachIdle ==
  /\ CA!Idle \in CA!ConverterRows /\ CA!NoPackage \in CA!PackageRows
  /\ \A F, D, T, n : CA!Fits(CA!Idle, CA!NoPackage, F, D, T, n)
  <1>1. PICK p, k : p = CA!Idle /\ k = CA!NoPackage
    OBVIOUS
  <1>2. p \in CA!ConverterRows
    BY <1>1 DEF CA!Idle, CA!ConverterRows, CA!Engines
  <1>3. k \in CA!PackageRows
    BY <1>1 DEF CA!NoPackage, CA!PackageRows
  <1>4. p.pc = "idle" /\ p.todo = {}
    BY <1>1 DEF CA!Idle
  <1>5. k.notes = {} /\ k.links = {}
    BY <1>1 DEF CA!NoPackage
  <1>6. CA!RowsFit(p) /\ CA!TakenOnce(p, k) /\ CA!LinksLead(k)
    BY <1>4, <1>5 DEF CA!RowsFit, CA!TakenOnce, CA!LinksLead, CA!Holding
  <1>7. \A F, D, n : CA!TextFits(p, F, D) /\ CA!TakenAll(p, k, F)
    BY <1>4 DEF CA!TextFits, CA!TakenAll, CA!Holding
  <1>8. \A F, D, T, n : CA!Fits(p, k, F, D, T, n)
    BY <1>5, <1>6, <1>7 DEF CA!Fits
  <1>9. QED
    BY <1>1, <1>2, <1>3, <1>8

LEMMA AttachDie ==
  ASSUME CA!AttachmentsInv, NEW c \in Commands, CA!Die(c)
  PROVE  CA!AttachmentsInv'
  <1>1. UNCHANGED <<s1, s2, s3, s4, s7>> /\ CA!Fault /\ s5[c].pc \notin {"idle", "done"}
    BY DEF CA!Die, CA!archive, CA!cache
  <1>2. CASE CA!Give(c, "failed") /\ s5[c].pc # "next"
    <2>1. CA!Holding(s5[c])
      BY <1>1, <1>2 DEF CA!Holding
    <2>2. Turns(c, s1, s2, s7, s8.changes)
      BY <1>2, <2>1, AttachHand, AttachGive
    <2>3. QED
      BY <1>1, <2>1, <2>2, AttachFault, AttachQuiet
  <1>3. CASE CA!Step(c, CA!Idle) /\ s6' = [s6 EXCEPT ![c] = CA!NoPackage]
    <2>1. PICK q, h, F, D, T, n : /\ q = CA!Idle /\ h = CA!NoPackage
                                  /\ F = s1 /\ D = s2 /\ T = s7 /\ n = s8.changes
      OBVIOUS
    <2>2. q \in CA!ConverterRows /\ h \in CA!PackageRows /\ CA!Fits(q, h, F, D, T, n)
      BY <2>1, AttachIdle
    <2>3. CA!Fits(q, h, s1, s2, s7, s8.changes)
      BY <2>1, <2>2
    <2>4. s5' = [s5 EXCEPT ![c] = q] /\ s6' = [s6 EXCEPT ![c] = h]
      BY <1>3, <2>1 DEF CA!Step
    <2>5. QED
      BY <1>1, <2>2, <2>3, <2>4, AttachFault, AttachStep
  <1>4. QED
    BY <1>2, <1>3 DEF CA!Die, CA!At

\* The groups of equal content part the attachments.
LEMMA AttachGroups ==
  ASSUME NEW F
  PROVE  /\ \A f \in Attachments : f \in CA!Same(F, f) /\ CA!Same(F, f) \in CA!Groups(F)
         /\ \A group \in CA!Groups(F) :
                /\ group \in SUBSET Attachments /\ group # {}
                /\ \A f \in group : CA!Same(F, f) = group
  BY DEF CA!Same, CA!Groups

LEMMA AttachBegin ==
  ASSUME CA!AttachmentsInv, NEW c \in Commands, CA!Begin(c)
  PROVE  CA!AttachmentsInv'
  <1>1. PICK F, D, T, n : F = s1 /\ D = s2 /\ T = s7 /\ n = s8.changes
    OBVIOUS
  <1>2. PICK k : k = CA!NoPackage /\ k = s6[c]
    BY DEF CA!Begin
  <1>3. PICK p : p = CA!Idle
    OBVIOUS
  <1>4. PICK q : q = [p EXCEPT !.pc = "next", !.rows = F, !.todo = CA!Groups(F)]
    OBVIOUS
  <1>5. p = [pc |-> p.pc, rows |-> p.rows, todo |-> p.todo, file |-> p.file,
             engine |-> p.engine, body |-> p.body] /\ p \in CA!ConverterRows
    BY <1>3, AttachIdle, AttachRow
  <1>6. q = [pc |-> "next", rows |-> F, todo |-> CA!Groups(F), file |-> p.file,
             engine |-> p.engine, body |-> p.body]
    BY <1>4, <1>5
  <1>7. s5' = [s5 EXCEPT ![c] = q] /\ UNCHANGED <<s1, s2, s3, s4, s6, s7, s8>>
    BY <1>1, <1>3, <1>4 DEF CA!Begin, CA!Step, CA!archive, CA!cache
  <1>8. F \in [Attachments -> CA!Rows]
    BY <1>1, AttachKnown
  <1>9. q \in CA!ConverterRows
    <2>1. CA!Groups(F) \in SUBSET (SUBSET Attachments)
      BY AttachGroups
    <2>2. F \in [Attachments -> CA!Rows \cup {NoBytes}]
      BY <1>8
    <2>3. QED
      BY <1>5, <1>6, <2>1, <2>2, AttachRow DEF CA!ConverterRows
  <1>10. CA!Fits(q, k, F, D, T, n)
    <2>1. q.pc = "next" /\ q.rows = F /\ q.todo = CA!Groups(F) /\ ~CA!Holding(q)
      BY <1>6 DEF CA!Holding
    <2>2. /\ \A f \in Attachments : k.outcomes[f] = "none"
          /\ k.notes = {} /\ k.links = {}
      BY <1>2 DEF CA!NoPackage
    <2>3. CA!Taken(q, k) = {}
      BY <2>1, <2>2 DEF CA!Taken
    <2>4. CA!RowsFit(q) /\ CA!LinksLead(k)
      BY <1>8, <2>1, <2>2 DEF CA!RowsFit, CA!LinksLead
    <2>5. CA!TakenOnce(q, k)
      <3>1. \A g, h \in q.todo : g # {} /\ (g # h => g \cap h = {})
        BY <2>1, AttachGroups
      <3>2. QED
        BY <2>1, <2>3, <3>1 DEF CA!TakenOnce
    <2>6. T = {} => CA!TextFits(q, F, D)
      BY <1>1, <2>1, AttachKnown DEF CA!TextFits
    <2>7. CA!TakenAll(q, k, F)
      BY <2>1, AttachGroups DEF CA!TakenAll
    <2>8. QED
      BY <2>2, <2>4, <2>5, <2>6, <2>7 DEF CA!Fits
  <1>11. s6' = [s6 EXCEPT ![c] = k] /\ k \in CA!PackageRows
    BY <1>2, <1>7, AttachKnown
  <1>12. QED
    BY <1>1, <1>7, <1>9, <1>10, <1>11, AttachKnown, AttachStep

LEMMA AttachNextAttachment ==
  ASSUME CA!AttachmentsInv, NEW c \in Commands, CA!NextAttachment(c)
  PROVE  CA!AttachmentsInv'
  <1>1. PICK F, D, T, n : F = s1 /\ D = s2 /\ T = s7 /\ n = s8.changes
    OBVIOUS
  <1>2. PICK p, k : p = s5[c] /\ p \in CA!ConverterRows /\ k = s6[c] /\ k \in CA!PackageRows
    BY AttachKnown
  <1>3. /\ p.pc = "next" /\ ~CA!Holding(p) /\ CA!Fits(p, k, F, D, T, n)
        /\ p.rows \in [Attachments -> CA!Rows] /\ F \in [Attachments -> CA!Rows]
        /\ T = {} => \A f \in Attachments : F[f].link \in {NoBytes, F[f].sha}
        /\ UNCHANGED <<s1, s2, s3, s4, s6, s7, s8>>
    <2>1. /\ p.pc = "next" /\ ~CA!Holding(p)
          /\ UNCHANGED <<s1, s2, s3, s4, s6, s7, s8>>
      BY <1>2 DEF CA!NextAttachment, CA!At, CA!Holding, CA!archive, CA!cache
    <2>2. CA!Fits(p, k, F, D, T, n) /\ F \in [Attachments -> CA!Rows]
      BY <1>1, <1>2, AttachKnown
    <2>3. p.rows \in [Attachments -> CA!Rows]
      BY <2>1, <2>2 DEF CA!Fits, CA!RowsFit
    <2>4. QED
      BY <1>1, <2>1, <2>2, <2>3, AttachKnown
  <1>4. s6' = [s6 EXCEPT ![c] = k]
    BY <1>2, <1>3, AttachKnown
  <1>5. CA!Taken(p, k) = {f \in Attachments : k.outcomes[f] # "none"}
    BY <1>3 DEF CA!Taken
  <1>6. CASE p.todo = {} /\ s5' = [s5 EXCEPT ![c] = [CA!Idle EXCEPT !.pc = "done"]]
    <2>1. PICK i : i = CA!Idle
      OBVIOUS
    <2>2. PICK q : q = [i EXCEPT !.pc = "done"]
      OBVIOUS
    <2>3. i = [pc |-> i.pc, rows |-> i.rows, todo |-> i.todo, file |-> i.file,
               engine |-> i.engine, body |-> i.body] /\ i \in CA!ConverterRows
      BY <2>1, AttachIdle, AttachRow
    <2>4. q = [pc |-> "done", rows |-> i.rows, todo |-> i.todo, file |-> i.file,
               engine |-> i.engine, body |-> i.body]
      BY <2>2, <2>3
    <2>5. q \in CA!ConverterRows
      BY <2>3, <2>4, AttachRow DEF CA!ConverterRows
    <2>6. q.pc = "done" /\ q.todo = {} /\ ~CA!Holding(q)
      BY <2>1, <2>4 DEF CA!Idle, CA!Holding
    <2>7. CA!Taken(q, k) = CA!Taken(p, k)
      BY <1>3, <2>6 DEF CA!Taken
    <2>8. CA!RowsFit(q) /\ CA!TakenOnce(q, k) /\ CA!TextFits(q, F, D)
      BY <2>6 DEF CA!RowsFit, CA!TakenOnce, CA!TextFits, CA!Holding
    <2>9. n = 0 => CA!TakenAll(q, k, F)
      BY <1>3, <1>6, <2>6, <2>7 DEF CA!Fits, CA!TakenAll
    <2>10. CA!Fits(q, k, F, D, T, n)
      BY <1>3, <2>8, <2>9 DEF CA!Fits
    <2>11. s5' = [s5 EXCEPT ![c] = q]
      BY <1>6, <2>1, <2>2
    <2>12. QED
      BY <1>1, <1>2, <1>3, <1>4, <2>5, <2>10, <2>11, AttachKnown, AttachStep
  <1>7. CASE p.todo # {}
    <2>1. PICK group : group = CA!First(p.todo)
      OBVIOUS
    <2>2. group \in p.todo /\ group \in SUBSET Attachments /\ group # {}
      <3>1. \A g \in p.todo : g \in SUBSET Attachments /\ g # {}
        BY <1>2, <1>3, AttachRow DEF CA!Fits, CA!TakenOnce
      <3>2. QED
        BY <1>7, <2>1, <3>1, AttachFirst
    <2>3. PICK f \in group : f = CA!Representative(p.rows, group)
      BY <2>2, AttachRepresentative
    <2>4. f \in Attachments
      BY <2>2, <2>3
    <2>5. PICK row : row = IF c \in Separate THEN F[f] ELSE p.rows[f]
      OBVIOUS
    <2>6. PICK rows, todo : rows = [p.rows EXCEPT ![f] = row] /\ todo = p.todo \ {group}
      OBVIOUS
    <2>7. row \in CA!Rows
      BY <1>3, <2>4, <2>5
    <2>8. /\ rows \in [Attachments -> CA!Rows]
          /\ \A g \in Attachments : rows[g] = IF g = f THEN row ELSE p.rows[g]
      BY <1>3, <2>6, <2>7
    <2>9. PICK q : q = [p EXCEPT !.pc = "check", !.todo = todo, !.file = f, !.rows = rows]
      OBVIOUS
    <2>10. p = [pc |-> p.pc, rows |-> p.rows, todo |-> p.todo, file |-> p.file,
                engine |-> p.engine, body |-> p.body]
      BY <1>2, AttachRow
    <2>11. q = [pc |-> "check", rows |-> rows, todo |-> todo, file |-> f,
                engine |-> p.engine, body |-> p.body]
      BY <2>9, <2>10
    <2>12. s5' = [s5 EXCEPT ![c] = q]
      <3>1. s5' = [s5 EXCEPT ![c] = [p EXCEPT !.pc = "check", !.todo = p.todo \ {group},
                                              !.file = f, !.rows[f] = row]]
        BY <1>1, <1>2, <1>7, <2>1, <2>3, <2>5 DEF CA!NextAttachment, CA!Step
      <3>2. QED
        BY <2>6, <2>9, <3>1
    <2>13. q \in CA!ConverterRows
      <3>1. rows \in [Attachments -> CA!Rows \cup {NoBytes}]
        BY <2>8
      <3>2. todo \in SUBSET (SUBSET Attachments)
        BY <1>2, <2>6, AttachRow
      <3>3. f \in Nat
        BY <2>4, AttachmentsAssumption
      <3>4. QED
        BY <1>2, <2>11, <3>1, <3>2, <3>3, AttachRow DEF CA!ConverterRows
    <2>14. /\ q.pc = "check" /\ CA!Holding(q) /\ q.rows = rows /\ q.todo = todo /\ q.file = f
      BY <2>11 DEF CA!Holding
    <2>15. CA!Taken(q, k) = CA!Taken(p, k) \cup {f}
      BY <1>5, <2>14 DEF CA!Taken
    <2>16. \A g \in group : g \notin CA!Taken(p, k)
      BY <1>3, <2>2 DEF CA!Fits, CA!TakenOnce
    <2>17. CA!RowsFit(q)
      BY <2>4, <2>8, <2>14 DEF CA!RowsFit
    <2>18. CA!TakenOnce(q, k)
      <3>1. \A g, h \in p.todo : g # {} /\ (g # h => g \cap h = {})
        BY <1>3 DEF CA!Fits, CA!TakenOnce
      <3>2. \A g \in CA!Taken(q, k) : \A other \in todo : g \notin other
        BY <1>3, <2>2, <2>3, <2>6, <2>15, <3>1 DEF CA!Fits, CA!TakenOnce
      <3>3. k.outcomes[f] = "none"
        BY <1>5, <2>3, <2>4, <2>16
      <3>4. QED
        BY <2>6, <2>14, <3>1, <3>2, <3>3 DEF CA!TakenOnce
    <2>19. T = {} => CA!TextFits(q, F, D)
      <3>1. T = {} => \A g \in Attachments : D[g] = p.rows[g].sha => F[g].link \in {NoBytes, D[g]}
        BY <1>3 DEF CA!Fits, CA!TextFits
      <3>2. T = {} => \A g \in Attachments : D[g] = rows[g].sha => F[g].link \in {NoBytes, D[g]}
        BY <1>3, <2>5, <2>8, <3>1
      <3>3. QED
        BY <2>14, <3>2 DEF CA!TextFits
    <2>20. n = 0 => CA!TakenAll(q, k, F)
      <3> SUFFICES ASSUME n = 0
                   PROVE  CA!TakenAll(q, k, F)
        OBVIOUS
      <3>1. CA!TakenAll(p, k, F)
        BY <1>3 DEF CA!Fits
      <3>2. group \in CA!Groups(F) /\ p.todo \subseteq CA!Groups(F)
        BY <1>3, <2>2, <3>1 DEF CA!TakenAll
      <3>3. CA!Same(F, f) = group
        BY <2>3, <3>2, AttachGroups
      <3>4. ASSUME NEW g \in Attachments, CA!Same(F, g) \notin todo
            PROVE  \E h \in Attachments : CA!Same(F, g) \cap CA!Taken(q, k) = {h}
        <4>1. CASE CA!Same(F, g) = group
          BY <2>3, <2>4, <2>15, <2>16, <4>1
        <4>2. CASE CA!Same(F, g) # group
          <5>1. CA!Same(F, g) \notin p.todo
            BY <2>6, <3>4, <4>2
          <5>2. PICK h \in Attachments : CA!Same(F, g) \cap CA!Taken(p, k) = {h}
            BY <1>3, <3>1, <5>1 DEF CA!TakenAll
          <5>3. f \notin CA!Same(F, g)
            BY <3>3, <4>2, AttachGroups
          <5>4. QED
            BY <2>15, <5>2, <5>3
        <4>3. QED
          BY <4>1, <4>2
      <3>5. QED
        BY <2>6, <2>14, <3>2, <3>4 DEF CA!TakenAll
    <2>21. CA!Fits(q, k, F, D, T, n)
      BY <1>3, <2>17, <2>18, <2>19, <2>20 DEF CA!Fits
    <2>22. QED
      BY <1>1, <1>2, <1>3, <1>4, <2>12, <2>13, <2>21, AttachKnown, AttachStep
  <1>8. QED
    BY <1>2, <1>6, <1>7 DEF CA!NextAttachment, CA!Step

\* A parser product is lost.
LEMMA AttachLoseProduct ==
  ASSUME CA!AttachmentsInv, NEW key \in Contents \X CA!Engines, CA!LoseProduct(key)
  PROVE  CA!AttachmentsInv'
  <1>1. /\ s4' = [s4 EXCEPT ![key] = NoBytes] /\ CA!Fault
        /\ UNCHANGED <<s1, s2, s3, s5, s6, s7>>
    BY DEF CA!LoseProduct, CA!archive
  <1>2. /\ s4' \in [Contents \X CA!Engines -> CA!Products \cup {NoBytes}]
        /\ \A other \in Contents \X CA!Engines : s4'[other] \in {NoBytes, s4[other]}
    BY <1>1, AttachKnown
  <1>3. \A content \in Contents : \A engine \in CA!Engines :
            s4'[<<content, engine>>] \in {NoBytes, s4[<<content, engine>>]}
    BY <1>2
  <1>4. CA!Typed'
    BY <1>1, <1>2, AttachFault, AttachKnown DEF CA!Typed
  <1>5. s7' = {} => CA!CacheFits'
    BY <1>1, <1>3, AttachKnown DEF CA!CacheFits, CA!Product, CA!Engines
  <1>6. s8'.changes = s8.changes
    BY <1>1, AttachFault
  <1>7. \A c \in Commands : CA!Fits(s5'[c], s6'[c], s1', s2', s7', s8'.changes)
    BY <1>1, <1>6, AttachKnown
  <1>8. QED
    BY <1>4, <1>5, <1>7 DEF CA!AttachmentsInv

\* An original is written: what is not touched by that stays as it was.
LEMMA AttachOriginals ==
  ASSUME NEW p, NEW k, NEW F, NEW D, NEW T, NEW n, CA!Fits(p, k, F, D, T, n),
         NEW F2, NEW D2, NEW T2, NEW m, m # 0, T \subseteq T2,
         NEW f \in Attachments,
         \A g \in Attachments : g # f => F2[g] = F[g] /\ D2[g] = D[g],
         T2 = {} => /\ CA!Holding(p) => p.file # f
                    /\ p.pc \notin {"idle", "done"} =>
                           (D2[f] = p.rows[f].sha => F2[f].link \in {NoBytes, D2[f]})
  PROVE  CA!Fits(p, k, F2, D2, T2, m)
  <1>1. T2 = {} => T = {}
    OBVIOUS
  <1>2. T2 = {} => CA!TextFits(p, F2, D2)
    <2> SUFFICES ASSUME T2 = {}
                 PROVE  CA!TextFits(p, F2, D2)
      OBVIOUS
    <2>1. CA!TextFits(p, F, D) /\ CA!RowsFit(p)
      BY <1>1 DEF CA!Fits
    <2>2. p.pc \notin {"idle", "done"} =>
              \A g \in Attachments : D2[g] = p.rows[g].sha => F2[g].link \in {NoBytes, D2[g]}
      BY <2>1 DEF CA!TextFits
    <2>3. CA!Holding(p) /\ p.pc # "check" => D2[p.file] = p.rows[p.file].sha
      BY <2>1 DEF CA!TextFits, CA!RowsFit
    <2>4. QED
      BY <2>1, <2>2, <2>3 DEF CA!TextFits
  <1>3. QED
    BY <1>1, <1>2 DEF CA!Fits

LEMMA AttachChange ==
  ASSUME CA!AttachmentsInv, CA!Change
  PROVE  s8' \in [changes : Nat, faults : Nat] /\ s8'.changes # 0
  <1>1. PICK old, new : old = s8 /\ new = [old EXCEPT !.changes = old.changes + 1]
    OBVIOUS
  <1>2. old \in [changes : Nat, faults : Nat]
    BY <1>1, AttachKnown
  <1>3. new \in [changes : Nat, faults : Nat] /\ new.changes # 0
    BY <1>1, <1>2
  <1>4. QED
    BY <1>1, <1>3 DEF CA!Change

LEMMA AttachRecapture ==
  ASSUME CA!AttachmentsInv, NEW f \in Attachments, NEW content \in Contents,
         CA!Recapture(f, content)
  PROVE  CA!AttachmentsInv'
  <1>1. PICK F, D, T, n : F = s1 /\ D = s2 /\ T = s7 /\ n = s8.changes
    OBVIOUS
  <1>2. PICK row, new : row = F[f] /\ new = [row EXCEPT !.sha = content, !.verified = TRUE]
    OBVIOUS
  <1>3. F \in [Attachments -> CA!Rows] /\ D \in [Attachments -> Contents \cup {NoBytes}]
    BY <1>1, AttachKnown
  <1>4. row = [sha |-> row.sha, verified |-> row.verified, role |-> row.role, link |-> row.link]
        /\ row \in CA!Rows
    BY <1>2, <1>3 DEF CA!Rows
  <1>5. new = [sha |-> content, verified |-> TRUE, role |-> row.role, link |-> row.link]
    BY <1>2, <1>4
  <1>6. new \in CA!Rows
    BY <1>4, <1>5 DEF CA!Rows
  <1>7. s1' = [F EXCEPT ![f] = new]
    BY <1>1, <1>2 DEF CA!Recapture
  <1>8. /\ s1' \in [Attachments -> CA!Rows] /\ s1'[f] = new
        /\ \A g \in Attachments : g # f => s1'[g] = F[g]
    BY <1>3, <1>6, <1>7
  <1>9. s2' = [D EXCEPT ![f] = content] /\ UNCHANGED <<s3, s4, s5, s6>> /\ CA!Change
    BY <1>1 DEF CA!Recapture, CA!cache
  <1>10. /\ s2' \in [Attachments -> Contents \cup {NoBytes}] /\ s2'[f] = content
         /\ \A g \in Attachments : g # f => s2'[g] = D[g]
    BY <1>3, <1>9
  <1>11. T \subseteq s7' /\ s7' \subseteq Attachments
    BY <1>1, AttachKnown DEF CA!Recapture
  <1>12. s7' = {} => ~CA!Held(f) /\ row.link \in {NoBytes, content} /\ T = {}
    BY <1>1, <1>2 DEF CA!Recapture
  <1>13. CA!Typed'
    BY <1>8, <1>9, <1>10, <1>11, AttachChange, AttachKnown DEF CA!Typed
  <1>14. s7' = {} => CA!CacheFits'
    <2> SUFFICES ASSUME s7' = {}
                 PROVE  CA!CacheFits'
      OBVIOUS
    <2>1. \A g \in Attachments : s1'[g].link \in {NoBytes, s1'[g].sha}
      <3>1. s1'[f].link \in {NoBytes, s1'[f].sha}
        BY <1>5, <1>8, <1>12
      <3>2. \A g \in Attachments : g # f => s1'[g].link \in {NoBytes, s1'[g].sha}
        BY <1>1, <1>8, <1>12, AttachKnown
      <3>3. QED
        BY <3>1, <3>2
    <2>2. QED
      BY <1>1, <1>9, <1>12, <2>1, AttachKnown DEF CA!CacheFits, CA!Product, CA!Engines
  <1>15. ASSUME NEW c \in Commands
         PROVE  CA!Fits(s5'[c], s6'[c], s1', s2', s7', s8'.changes)
    <2>1. PICK p, k, F2, D2, T2, m : /\ p = s5[c] /\ k = s6[c] /\ F2 = s1' /\ D2 = s2'
                                     /\ T2 = s7' /\ m = s8'.changes
      OBVIOUS
    <2>2. CA!Fits(p, k, F, D, T, n)
      BY <1>1, <2>1, AttachKnown
    <2>3. T2 = {} => /\ CA!Holding(p) => p.file # f
                     /\ F2[f].link \in {NoBytes, D2[f]}
      BY <1>5, <1>8, <1>10, <1>12, <2>1 DEF CA!Held
    <2>4. m # 0 /\ T \subseteq T2 /\ \A g \in Attachments : g # f => F2[g] = F[g] /\ D2[g] = D[g]
      BY <1>8, <1>9, <1>10, <1>11, <2>1, AttachChange
    <2>5. CA!Fits(p, k, F2, D2, T2, m)
      BY <2>2, <2>3, <2>4, AttachOriginals
    <2>6. QED
      BY <1>9, <2>1, <2>5
  <1>16. QED
    BY <1>13, <1>14, <1>15 DEF CA!AttachmentsInv

LEMMA AttachDamage ==
  ASSUME CA!AttachmentsInv, NEW f \in Attachments, NEW content \in Contents \cup {NoBytes},
         CA!Damage(f, content)
  PROVE  CA!AttachmentsInv'
  <1>1. PICK F, D, T, n : F = s1 /\ D = s2 /\ T = s7 /\ n = s8.changes
    OBVIOUS
  <1>2. F \in [Attachments -> CA!Rows] /\ D \in [Attachments -> Contents \cup {NoBytes}]
    BY <1>1, AttachKnown
  <1>3. s2' = [D EXCEPT ![f] = content] /\ UNCHANGED <<s1, s3, s4, s5, s6>> /\ CA!Change
    BY <1>1 DEF CA!Damage, CA!cache
  <1>4. /\ s2' \in [Attachments -> Contents \cup {NoBytes}] /\ s2'[f] = content
        /\ \A g \in Attachments : g # f => s2'[g] = D[g]
    BY <1>2, <1>3
  <1>5. T \subseteq s7' /\ s7' \subseteq Attachments
    BY <1>1, AttachKnown DEF CA!Damage
  <1>6. s7' = {} => ~CA!Held(f) /\ (CA!Awaited(f, content) => F[f].link \in {NoBytes, content})
                    /\ T = {}
    BY <1>1 DEF CA!Damage
  <1>7. CA!Typed'
    BY <1>3, <1>4, <1>5, AttachChange, AttachKnown DEF CA!Typed
  <1>8. s7' = {} => CA!CacheFits'
    BY <1>1, <1>3, <1>6, AttachKnown DEF CA!CacheFits, CA!Product, CA!Engines
  <1>9. ASSUME NEW c \in Commands
        PROVE  CA!Fits(s5'[c], s6'[c], s1', s2', s7', s8'.changes)
    <2>1. PICK p, k, D2, T2, m : /\ p = s5[c] /\ k = s6[c] /\ D2 = s2'
                                 /\ T2 = s7' /\ m = s8'.changes
      OBVIOUS
    <2>2. CA!Fits(p, k, F, D, T, n)
      BY <1>1, <2>1, AttachKnown
    <2>3. T2 = {} => /\ CA!Holding(p) => p.file # f
                     /\ p.pc \notin {"idle", "done"} =>
                            (D2[f] = p.rows[f].sha => F[f].link \in {NoBytes, D2[f]})
      BY <1>4, <1>6, <2>1 DEF CA!Held, CA!Awaited
    <2>4. m # 0 /\ T \subseteq T2 /\ \A g \in Attachments : g # f => F[g] = F[g] /\ D2[g] = D[g]
      BY <1>3, <1>4, <1>5, <2>1, AttachChange
    <2>5. CA!Fits(p, k, F, D2, T2, m)
      BY <2>2, <2>3, <2>4, AttachOriginals
    <2>6. QED
      BY <1>1, <1>3, <2>1, <2>5
  <1>10. QED
    BY <1>7, <1>8, <1>9 DEF CA!AttachmentsInv

-----------------------------------------------------------------------------
\* The invariant: at the start, by every step, and while others move.
LEMMA AttachInit ==
  ASSUME CA!Init
  PROVE  CA!AttachmentsInv
  <1>1. s1 \in [Attachments -> CA!Rows] /\ \A f \in Attachments : s1[f].link = NoBytes
    <2>1. s1 \in [Attachments -> [sha : Contents, verified : BOOLEAN, role : CA!Roles,
                                  link : {NoBytes}]]
      BY DEF CA!Init
    <2>2. \A row \in [sha : Contents, verified : BOOLEAN, role : CA!Roles, link : {NoBytes}] :
              row \in CA!Rows /\ row.link = NoBytes
      BY DEF CA!Rows
    <2>3. QED
      BY <2>1, <2>2
  <1>2. s2 \in [Attachments -> Contents \cup {NoBytes}]
    <2>1. \A f \in Attachments : s1[f].sha \in Contents
      BY <1>1 DEF CA!Rows
    <2>2. QED
      BY <2>1 DEF CA!Init
  <1>3. CA!Typed
    BY <1>1, <1>2, AttachIdle DEF CA!Init, CA!Typed
  <1>4. CA!CacheFits
    BY <1>1 DEF CA!Init, CA!CacheFits
  <1>5. \A c \in Commands : CA!Fits(s5[c], s6[c], s1, s2, s7, s8.changes)
    <2>1. PICK q, h, F, D, T, n : /\ q = CA!Idle /\ h = CA!NoPackage
                                  /\ F = s1 /\ D = s2 /\ T = s7 /\ n = s8.changes
      OBVIOUS
    <2>2. CA!Fits(q, h, F, D, T, n)
      BY <2>1, AttachIdle
    <2>3. \A c \in Commands : s5[c] = q /\ s6[c] = h
      BY <2>1 DEF CA!Init
    <2>4. QED
      BY <2>1, <2>2, <2>3
  <1>6. QED
    BY <1>3, <1>4, <1>5 DEF CA!AttachmentsInv

LEMMA AttachNext ==
  ASSUME CA!AttachmentsInv, CA!Next
  PROVE  CA!AttachmentsInv'
  BY AttachBegin, AttachNextAttachment, AttachCheck, AttachReuse, AttachWrite, AttachAsk,
     AttachParse, AttachPersist, AttachFailAttempt, AttachDie, AttachLoseProduct,
     AttachRecapture, AttachDamage DEF CA!Next

LEMMA AttachStays ==
  ASSUME CA!AttachmentsInv, UNCHANGED <<s1, s2, s3, s4, s5, s6, s7, s8>>
  PROVE  CA!AttachmentsInv'
  <1>1. CA!Typed'
    BY AttachKnown DEF CA!Typed
  <1>2. s7' = {} => CA!CacheFits'
    BY AttachKnown DEF CA!CacheFits, CA!Product, CA!Engines
  <1>3. \A c \in Commands : CA!Fits(s5'[c], s6'[c], s1', s2', s7', s8'.changes)
    BY AttachKnown
  <1>4. QED
    BY <1>1, <1>2, <1>3 DEF CA!AttachmentsInv

\* It is enough: each note of the content it names, the cache of nothing else,
\* and one outcome for each content.
LEMMA AttachHolds ==
  ASSUME CA!AttachmentsInv
  PROVE  CA!AttachmentsAreTrue
  <1>1. CA!NotesAreTrue
    <2>1. s7 = {} => \A c \in Commands : \A note \in s6[c].notes : note.of = note.sha
      BY AttachKnown DEF CA!Fits
    <2>2. s7 = {} => \A content \in Contents : \A engine \in CA!Engines :
              s4[<<content, engine>>] # NoBytes => s4[<<content, engine>>].of = content
      BY AttachKnown, AttachProduct
    <2>3. s7 = {} => \A key \in Contents \X CA!Engines : s4[key] # NoBytes => s4[key].of = key[1]
      BY <2>2
    <2>4. QED
      BY <2>1, <2>3 DEF CA!NotesAreTrue, CA!Undisturbed
  <1>2. CA!CacheIsTrue
    <2>1. s7 = {} => \A content \in Contents : \A engine \in CA!Engines :
              s3[<<content, engine>>] # NoBytes =>
                  s4[<<content, engine>>] \in {s3[<<content, engine>>], NoBytes}
      BY AttachKnown
    <2>2. s7 = {} => \A key \in Contents \X CA!Engines :
              s3[key] # NoBytes => s4[key] \in {s3[key], NoBytes}
      BY <2>1
    <2>3. QED
      BY <2>2 DEF CA!CacheIsTrue, CA!Undisturbed
  <1>3. CA!PackageAddsUp
    <2>1. ASSUME NEW c \in Commands, NEW l \in s6[c].links
          PROVE  /\ s6[c].outcomes[l[1]] = "converted"
                 /\ \E note \in s6[c].notes :
                        note.name = l[2] /\ (l[2] # <<"body">> => note.file = l[1])
      BY AttachKnown DEF CA!Fits, CA!LinksLead
    <2>2. ASSUME NEW c \in Commands, CA!At(c, "done"), s8.changes = 0, NEW f \in Attachments
          PROVE  CA!Cardinality({g \in Attachments : /\ s1[g].sha = s1[f].sha
                                                     /\ s6[c].outcomes[g] # "none"}) = 1
      <3>1. PICK p, k, F : p = s5[c] /\ k = s6[c] /\ F = s1
        OBVIOUS
      <3>2. p.pc = "done" /\ ~CA!Holding(p) /\ CA!TakenOnce(p, k) /\ CA!TakenAll(p, k, F)
        BY <2>2, <3>1, AttachKnown DEF CA!At, CA!Holding, CA!Fits
      <3>3. CA!Same(F, f) \notin p.todo
        BY <3>2 DEF CA!TakenOnce
      <3>4. PICK g : CA!Same(F, f) \cap CA!Taken(p, k) = {g}
        BY <3>2, <3>3 DEF CA!TakenAll
      <3>5. {h \in Attachments : F[h].sha = F[f].sha /\ k.outcomes[h] # "none"} = {g}
        BY <3>2, <3>4 DEF CA!Same, CA!Taken
      <3>6. CA!Cardinality({g}) = 1
        <4>1. Cardinality({g}) = 1
          BY FS_Singleton
        <4>2. QED
          BY <4>1 DEF CA!Cardinality, Cardinality
      <3>7. QED
        BY <3>1, <3>5, <3>6
    <2>3. QED
      BY <2>1, <2>2 DEF CA!PackageAddsUp
  <1>4. QED
    BY <1>1, <1>2, <1>3 DEF CA!AttachmentsAreTrue

-----------------------------------------------------------------------------
\* Candidate packages, in any interleaving of the archive, of new decisions and of
\* deaths: what the package of an item is made of is what its row says, a build that
\* passed is whole, a backfill publishes what it froze and each of its commands says
\* what is stored; the notes of attachments hold the text of the content they name,
\* whatever the cache held, and a sample has the size that was asked for
\* (CandidatesAreSound; classified_candidate_build.py, backfill_mvp.py,
\* classification/parse_cache.py, classification/service.py).  Of the constants is
\* assumed that there is something to build, in a run at least, and that attachments
\* are numbered.
THEOREM CandidatesStaySound == ItemsSpec => []CandidatesAreSound
  <1> DEFINE Inv == /\ which = "attachments" => CA!AttachmentsInv
                    /\ which = "build" => CB!BuildInv
                    /\ which = "backfill" => CF!BackfillInv
  <1>1. ItemsInit => Inv
    <2>1. ItemsInit /\ which = "attachments" => CA!AttachmentsInv
      BY AttachInit DEF ItemsInit, ItemComponents
    <2>2. ItemsInit /\ which = "build" => CB!BuildInv
      BY BuildInit, CandidatesAssumption DEF ItemsInit, ItemComponents
    <2>3. ItemsInit /\ which = "backfill" => CF!BackfillInv
      BY BackfillInit DEF ItemsInit, ItemComponents
    <2>4. QED
      BY <2>1, <2>2, <2>3
  <1>2. Inv /\ [ItemsNext]_items => Inv'
    <2>1. ASSUME [ItemsNext]_items PROVE which' = which
      BY <2>1 DEF ItemsNext, items
    <2>2. ASSUME which = "attachments", CA!AttachmentsInv, [ItemsNext]_items
          PROVE  CA!AttachmentsInv'
      <3>1. CASE ItemsNext
        BY <2>2, <3>1, AttachNext DEF ItemsNext, ItemComponents
      <3>2. CASE UNCHANGED items
        <4>1. UNCHANGED <<s1, s2, s3, s4, s5, s6, s7, s8>>
          BY <3>2 DEF items
        <4>2. QED
          BY <2>2, <4>1, AttachStays
      <3>3. QED
        BY <2>2, <3>1, <3>2
    <2>3. ASSUME which = "build", CB!BuildInv, [ItemsNext]_items
          PROVE  CB!BuildInv'
      <3>1. CASE ItemsNext
        BY <2>3, <3>1, BuildNext, CandidatesAssumption DEF ItemsNext, ItemComponents
      <3>2. CASE UNCHANGED items
        <4>1. UNCHANGED <<s1, s4, s5, s6, s7, s8, s9, s10, s12>>
          BY <3>2 DEF items
        <4>2. QED
          BY <2>3, <4>1, BuildStays
      <3>3. QED
        BY <2>3, <3>1, <3>2
    <2>4. ASSUME which = "backfill", CF!BackfillInv, [ItemsNext]_items
          PROVE  CF!BackfillInv'
      <3>1. CASE ItemsNext
        BY <2>4, <3>1, BackfillNext DEF ItemsNext, ItemComponents
      <3>2. CASE UNCHANGED items
        <4>1. UNCHANGED <<s1, s2, s3, s4, s5, s6, s7, s8>>
          BY <3>2 DEF items
        <4>2. QED
          BY <2>4, <4>1, BackfillStays
      <3>3. QED
        BY <2>4, <3>1, <3>2
    <2>5. QED
      BY <2>1, <2>2, <2>3, <2>4
  <1>3. Inv => CandidatesAreSound
    BY AttachHolds, BuildHolds, SamplesHold DEF CF!BackfillInv, CandidatesAreSound
  <1> HIDE DEF Inv
  <1> QED
    BY <1>1, <1>2, <1>3, PTL DEF ItemsSpec
=============================================================================
