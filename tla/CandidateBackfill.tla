-------------------------- MODULE CandidateBackfill --------------------------
(***************************************************************************)
(* The candidate backfill (backfill_mvp.py): a command selects items,      *)
(* hashes what it will read, classifies the items in a run of its own and  *)
(* renders a package for each in a stage directory, which is renamed to    *)
(* the build of that run id.  The same command again returns the build, if *)
(* the hash is the same and the files are as they were.                    *)
(*                                                                         *)
(* Nothing is read in one transaction: the selection, the hash, the run    *)
(* and each package see the archive of different moments, and two commands *)
(* may be at work for the same run id.                                     *)
(***************************************************************************)
EXTENDS Naturals, Sequences, FiniteSets

CONSTANTS
    Items,
    Commands,     \* commands at work
    RunIds,
    None,
    MaxChanges,   \* bound: changes of the archive, damage to a build
    MaxFaults     \* bound: failed classifications, failed builds, deaths

VARIABLES
    excluded,   \* items a policy excludes
    version,    \* a number that changes with the manifest and the rows of files
    decisions,  \* item -> "none", "classified" or "needs_review"
    runs,       \* run id -> None, or [members, version, decided, failed, completed]
    builds,     \* run id -> None, or [inputs, selected, packages, intact]
    stages,     \* run ids of stage directories nobody works in
    procs,      \* command -> [pc, run, selected, inputs, packages, result]
    spent

vars == <<excluded, version, decisions, runs, builds, stages, procs, spent>>

Idle == [pc |-> "idle", run |-> CHOOSE r \in RunIds : TRUE, selected |-> {}, inputs |-> None,
         packages |-> {}, result |-> None]

Init ==
    /\ excluded = {}
    /\ version = 0
    /\ decisions = [i \in Items |-> "none"]
    /\ runs = [r \in RunIds |-> None]
    /\ builds = [r \in RunIds |-> None]
    /\ stages = {}
    /\ procs = [c \in Commands |-> Idle]
    /\ spent = [changes |-> 0, faults |-> 0]

-----------------------------------------------------------------------------
(***************************************************************************)
(* select_representative_items over a catalog: the buckets of the items in *)
(* the order of their keys, 0 for an ordinary item and otherwise the place *)
(* of the bucket in _SPECIAL_PRIORITY.                                     *)
(***************************************************************************)
InBucket(catalog, b) == {k \in DOMAIN catalog : catalog[k] = b}
Rank(catalog, k) == Cardinality({j \in InBucket(catalog, catalog[k]) : j < k})
Special(catalog) == {k \in DOMAIN catalog : catalog[k] # 0}

SpecialLimit(n) == IF (n * 35) \div 100 < 35 THEN (n * 35) \div 100 ELSE 35

\* The first n of a set in an order given by pairs of numbers.
FirstOf(n, set, Key(_)) ==
    {k \in set : Cardinality({j \in set : \/ Key(j)[1] < Key(k)[1]
                                          \/ Key(j)[1] = Key(k)[1] /\ Key(j)[2] < Key(k)[2]}) < n}

\* The special items in rounds over the buckets, up to their limit.
SpecialSample(catalog, n) ==
    FirstOf(SpecialLimit(n), Special(catalog), LAMBDA k : <<Rank(catalog, k), catalog[k]>>)

\* _evenly_spaced over the ordinary items.
SpacedRanks_Repeats(total, count) == {(r * count) \div total : r \in 0..count - 1}

SpacedRanks(total, count) ==
    IF count >= total THEN 0..total - 1 ELSE {(r * total) \div count : r \in 0..count - 1}

OrdinarySample(catalog, count) ==
    LET ordinary == InBucket(catalog, 0)
    IN  {k \in ordinary : Rank(catalog, k) \in SpacedRanks(Cardinality(ordinary), count)}

\* When the ordinary items do not fill the sample, more special ones do.
Sample(catalog, n) ==
    LET special == SpecialSample(catalog, n)
        some == special \cup OrdinarySample(catalog, n - Cardinality(special))
        rest == Special(catalog) \ special
    IN  some \cup
        FirstOf(n - Cardinality(some), rest, LAMBDA k : <<catalog[k], Rank(catalog, k)>>)

-----------------------------------------------------------------------------
At(c, pc) == procs[c].pc = pc
Step(c, changes) == procs' = [procs EXCEPT ![c] = changes]
Move(c, pc) == Step(c, [procs[c] EXCEPT !.pc = pc])
End(c) == Step(c, Idle)
EndWith(c, result) == Step(c, [Idle EXCEPT !.run = procs[c].run, !.result = result])

Targets == Items \ excluded

\* _selected: a sample or all of the targets, or keys that were named.
Select(c) ==
    /\ At(c, "idle")
    /\ \E r \in RunIds, selected \in {Targets} \cup {{i} : i \in Items} :
           /\ selected # {}
           /\ Step(c, [Idle EXCEPT !.pc = "hash", !.run = r, !.selected = selected])
    /\ UNCHANGED <<excluded, version, decisions, runs, builds, stages, spent>>

\* _load_existing: a build of other inputs, or with damaged files, is refused.
Loadable_AnyInputs(r, inputs) == builds[r].intact

Loadable(r, inputs) == builds[r].intact /\ builds[r].inputs = inputs

\* _input_hashes and _run_input_sha; an existing build ends the command.
Hash(c) ==
    LET r == procs[c].run
        inputs == <<procs[c].selected, version>>
    IN  /\ At(c, "hash")
        /\ IF builds[r] = None THEN Step(c, [procs[c] EXCEPT !.pc = "create", !.inputs = inputs])
           ELSE EndWith(c, IF Loadable(r, inputs) THEN [builds[r] EXCEPT !.inputs = inputs]
                           ELSE None)
        /\ UNCHANGED <<excluded, version, decisions, runs, builds, stages, spent>>

CreateRun(c) ==
    LET r == procs[c].run
        fresh == [members |-> procs[c].selected, version |-> procs[c].inputs[2], decided |-> {},
                  failed |-> {}, completed |-> FALSE]
        same == runs[r].members = fresh.members /\ runs[r].version = fresh.version
    IN  /\ At(c, "create")
        /\ IF procs[c].selected \cap excluded # {} \/ (runs[r] # None /\ ~same)
           THEN UNCHANGED runs /\ End(c)
           ELSE /\ runs' = IF runs[r] = None THEN [runs EXCEPT ![r] = fresh] ELSE runs
                /\ Move(c, "classify")
        /\ UNCHANGED <<excluded, version, decisions, builds, stages, spent>>

Undecided(r) == runs[r].members \ (runs[r].decided \cup runs[r].failed)

Classify(c) ==
    LET r == procs[c].run
    IN  /\ At(c, "classify")
        /\ \E i \in Undecided(r) :
               /\ runs' = [runs EXCEPT ![r].decided = @ \cup {i}]
               /\ \E status \in {"classified", "needs_review"} :
                      decisions' = [decisions EXCEPT ![i] = status]
        /\ UNCHANGED <<excluded, version, builds, stages, procs, spent>>

\* complete: a run with a failed item is not complete, and nobody resumes it.
Completes_DespiteFailures(r) == TRUE

Completes(r) == runs[r].decided = runs[r].members

Complete(c) ==
    LET r == procs[c].run
    IN  /\ At(c, "classify")
        /\ Undecided(r) = {}
        /\ IF Completes(r)
           THEN runs' = [runs EXCEPT ![r].completed = TRUE] /\ Move(c, "build")
           ELSE UNCHANGED runs /\ End(c)
        /\ UNCHANGED <<excluded, version, decisions, builds, stages, spent>>

\* The current decision of each item decides where its package goes; the
\* counts of the report must add up with the packages.
BuildPackage(c) ==
    /\ At(c, "build")
    /\ \E i \in procs[c].selected \ {p[1] : p \in procs[c].packages} :
           Step(c, [procs[c] EXCEPT !.packages = @ \cup {<<i, decisions[i]>>}])
    /\ UNCHANGED <<excluded, version, decisions, runs, builds, stages, spent>>

\* os.replace refuses to put the stage over another build.
MayPublish(r) == builds[r] = None

Publish(c) ==
    LET r == procs[c].run
    IN  /\ At(c, "build")
        /\ Cardinality(procs[c].packages) = Cardinality(procs[c].selected)
        /\ LET build == [inputs |-> procs[c].inputs, selected |-> procs[c].selected,
                         packages |-> procs[c].packages, intact |-> TRUE]
           IN  IF MayPublish(r) THEN builds' = [builds EXCEPT ![r] = build] /\ EndWith(c, build)
               ELSE UNCHANGED builds /\ End(c)
        /\ UNCHANGED <<excluded, version, decisions, runs, stages, spent>>

-----------------------------------------------------------------------------
Fault == spent.faults < MaxFaults /\ spent' = [spent EXCEPT !.faults = @ + 1]

FailToClassify(c) ==
    LET r == procs[c].run
    IN  /\ At(c, "classify")
        /\ Fault
        /\ \E i \in Undecided(r) : runs' = [runs EXCEPT ![r].failed = @ \cup {i}]
        /\ UNCHANGED <<excluded, version, decisions, builds, stages, procs>>

\* An exception removes the stage; a death leaves it.
FailToBuild(c) ==
    /\ ~At(c, "idle")
    /\ Fault
    /\ End(c)
    /\ stages' \in {stages, IF At(c, "build") THEN stages \cup {procs[c].run} ELSE stages}
    /\ UNCHANGED <<excluded, version, decisions, runs, builds>>

Change == spent.changes < MaxChanges /\ spent' = [spent EXCEPT !.changes = @ + 1]

ChangeArchive ==
    /\ Change
    /\ version' = version + 1
    /\ \E i \in Items : excluded' \in {excluded, {i}}
    /\ UNCHANGED <<decisions, runs, builds, stages, procs>>

Damage(r) ==
    /\ builds[r] # None
    /\ Change
    /\ builds' = [builds EXCEPT ![r].intact = FALSE]
    /\ UNCHANGED <<excluded, version, decisions, runs, stages, procs>>

Next ==
    \/ \E c \in Commands :
           \/ Select(c) \/ Hash(c) \/ CreateRun(c) \/ Classify(c) \/ Complete(c)
           \/ BuildPackage(c) \/ Publish(c) \/ FailToClassify(c) \/ FailToBuild(c)
    \/ ChangeArchive
    \/ \E r \in RunIds : Damage(r)

Spec == Init /\ [][Next]_vars

-----------------------------------------------------------------------------
\* What the theorems need to know of the rows, and of the commands at work.
Statuses == {"none", "classified", "needs_review"}
RunRows == [members : SUBSET Items, version : Nat, decided : SUBSET Items,
            failed : SUBSET Items, completed : BOOLEAN]
Inputs == (SUBSET Items) \X Nat
BuildRows == [inputs : Inputs, selected : SUBSET Items, packages : SUBSET (Items \X Statuses),
              intact : BOOLEAN]
CommandRows == [pc : {"idle", "hash", "create", "classify", "build"}, run : RunIds,
                selected : SUBSET Items, inputs : Inputs \cup {None},
                packages : SUBSET (Items \X Statuses), result : BuildRows \cup {None}]

Typed ==
    /\ excluded \subseteq Items /\ version \in Nat
    /\ decisions \in [Items -> Statuses]
    /\ runs \in [RunIds -> RunRows \cup {None}]
    /\ builds \in [RunIds -> BuildRows \cup {None}]
    /\ procs \in [Commands -> CommandRows]

\* An item of a run that is decided has a decision, and a complete run has one
\* for each of its items.
RunsAddUp ==
    \A r \in RunIds : runs[r] # None =>
        /\ runs[r].decided \subseteq runs[r].members
        /\ \A i \in runs[r].decided : decisions[i] # "none"
        /\ runs[r].completed => runs[r].decided = runs[r].members

\* A command works for the run of its items, and packs a decided item once.
RowFits(p) ==
    /\ p.pc \in {"create", "classify", "build"} => p.inputs \in Inputs
    /\ p.pc \in {"classify", "build"} =>
           runs[p.run] # None /\ runs[p.run].members = p.selected
    /\ p.pc = "build" => runs[p.run].completed
    /\ \A package \in p.packages : package[1] \in p.selected /\ package[2] # "none"
    /\ \A q, package \in p.packages : q[1] = package[1] => q = package

CommandsFit == \A c \in Commands : RowFits(procs[c])

\* A build has one package for every item it selected, each classified by the
\* completed run of the same id over the same items.
BuildsAreWhole ==
    \A r \in RunIds : builds[r] # None =>
        /\ runs[r] # None /\ runs[r].completed /\ runs[r].members = builds[r].selected
        /\ {p[1] : p \in builds[r].packages} = builds[r].selected
        /\ \A p \in builds[r].packages : p[2] # "none"

\* Two commands that got a result for the same run id got the same packages,
\* for the same items out of the same archive, and they are the build.
ResultsAgree ==
    \A c \in Commands : procs[c].result # None =>
        LET build == builds[procs[c].run]
        IN  /\ build # None
            /\ procs[c].result.packages = build.packages
            /\ procs[c].result.inputs = build.inputs

BackfillInv == Typed /\ RunsAddUp /\ CommandsFit /\ BuildsAreWhole /\ ResultsAgree

\* A sample has the number of items that was asked for, and only when every
\* ordinary item is in it more special ones than their share.
SamplesAreExact(catalogs) ==
    \A catalog \in catalogs : \A n \in 1..Len(catalog) :
        LET sample == Sample(catalog, n)
        IN  /\ Cardinality(sample) = n
            /\ Cardinality(sample \cap Special(catalog)) > SpecialLimit(n) =>
                   InBucket(catalog, 0) \subseteq sample
=============================================================================
