--------------------------- MODULE CandidateBuild ---------------------------
(***************************************************************************)
(* The classified candidate build (classified_candidate_build.py): the     *)
(* publishable decisions are frozen, one package is rendered for each into *)
(* a work directory, with a checkpoint after each, and the directory       *)
(* becomes the build when none waits and the originals are as they were.   *)
(* A build can be repaired item by item, and is validated from its files.  *)
(*                                                                         *)
(* Two writes make a package: its directory is renamed into place, and the *)
(* manifest says so.  A process may die between any two writes.            *)
(***************************************************************************)
EXTENDS Naturals, FiniteSets

CONSTANTS
    Items,
    MaxChanges,   \* bound: new decisions, new originals, changed titles or dates
    MaxCrashes    \* bound: deaths of a process

VARIABLES
    decisions,   \* item -> the number of its decisions
    publishable, \* item -> whether the current one may be published
    originals,   \* a number that changes with every write of an original
    place,       \* item -> where its package belongs: its title and dates
    dir,         \* [at, baseline, count]: "none", the work directory, or the build
    rows,        \* item -> its row of the manifest on disk: [decision, status, at]
    held,        \* the manifest as the running process has it
    packages,    \* the packages on disk: [item, at, decision, partial]
    litter,      \* what dead processes left among the packages: directories with an index
    proc,        \* the running process: [pc, doing, item, package, previous, todo]
    qa,          \* whether the last report passed
    spent        \* [changes, crashes, forgot]: the bounds used up, and whether a repair
                 \* was refused when it had repaired others already

inputs == <<decisions, publishable, originals, place>>
build == <<dir, rows, packages, litter>>
vars == <<inputs, build, held, proc, qa, spent>>

NoRow == [decision |-> 0, status |-> "none", at |-> 0]

NoPackage == [item |-> CHOOSE i \in Items : TRUE, at |-> 0, decision |-> 0, partial |-> FALSE]

Idle == [pc |-> "idle", doing |-> "nothing", item |-> NoPackage.item, package |-> NoPackage,
         previous |-> NoPackage, todo |-> {}]

Init ==
    /\ decisions = [i \in Items |-> 1]
    /\ publishable \in [Items -> BOOLEAN]
    /\ originals = 0
    /\ place = [i \in Items |-> 1]
    /\ dir = [at |-> "none", baseline |-> 0, count |-> decisions]
    /\ rows = [i \in Items |-> NoRow]
    /\ held = rows
    /\ packages = {} /\ litter = {}
    /\ proc = Idle
    /\ qa = FALSE
    /\ spent = [changes |-> 0, crashes |-> 0, forgot |-> FALSE]

-----------------------------------------------------------------------------
Frozen == {i \in Items : rows[i].status # "none"}

InStatus(manifest, statuses) == {i \in Items : manifest[i].status \in statuses}

Packaged == {"package_success", "package_partial"}

At(pc) == proc.pc = pc

\* start: the publishable decisions of this moment; the baseline of the
\* originals and their number come next, and the manifest last.
Start ==
    /\ At("idle") /\ dir.at = "none"
    /\ dir' = [at |-> "work", baseline |-> originals, count |-> decisions]
    /\ rows' = [i \in Items |-> IF publishable[i]
                                THEN [decision |-> decisions[i], status |-> "queued", at |-> 0]
                                ELSE NoRow]
    /\ UNCHANGED <<inputs, packages, litter, held, proc, qa, spent>>

\* process, a command that renders the waiting rows one after the other; the
\* items to repair are chosen, and must have a package.
Process ==
    /\ At("idle") /\ dir.at = "work"
    /\ held' = rows
    /\ proc' = [Idle EXCEPT !.pc = "pick", !.doing = "process",
                            !.todo = InStatus(rows, {"queued"})]
    /\ UNCHANGED <<inputs, build, qa, spent>>

Repair ==
    /\ At("idle") /\ dir.at = "build"
    /\ held' = rows
    /\ \E chosen \in (SUBSET Items) \ {{}} :
           proc' = [Idle EXCEPT !.pc = "pick", !.doing = "repair", !.todo = chosen]
    /\ UNCHANGED <<inputs, build, qa, spent>>

\* "cannot repair non-package row", or "keys missing from manifest": the repair
\* ends, and what it did is nowhere recorded.
Refused(i) == proc.doing = "repair" /\ held[i].status \notin Packaged

Pick ==
    /\ At("pick")
    /\ IF proc.todo = {}
       THEN rows' = held /\ proc' = Idle /\ UNCHANGED spent
       ELSE \E i \in proc.todo :
                /\ UNCHANGED rows
                /\ IF Refused(i)
                   THEN /\ proc' = Idle
                        /\ spent' = [spent EXCEPT !.forgot = @ \/ held # rows]
                   ELSE /\ proc' = [proc EXCEPT !.pc = "render", !.item = i, !.todo = @ \ {i}]
                        /\ UNCHANGED spent
    /\ UNCHANGED <<inputs, dir, packages, litter, held, qa>>

FrozenDecision_Current(i) == decisions[i]

FrozenDecision(i) == held[i].decision

\* The temporary directory of this process, whose name is new each time, and
\* the one an item's package is set aside in.
Temporary == [item |-> proc.item, life |-> spent.crashes]
Previous == [item |-> proc.item, life |-> 0 - 1]

\* _render_item, up to the index: a temporary directory among the packages.
\* The decision is the frozen one; the item and its files are read now.
Render ==
    LET i == proc.item
    IN  /\ At("render")
        /\ \E partial \in BOOLEAN :
               LET package == [item |-> i, at |-> place[i], decision |-> FrozenDecision(i),
                               partial |-> partial]
               IN  /\ proc' = [proc EXCEPT !.pc = "place", !.package = package]
                   /\ litter' = litter \cup {Temporary}
        /\ UNCHANGED <<inputs, dir, rows, packages, held, qa, spent>>

At1(i, where) == {p \in packages : p.item = i /\ p.at = where}

Outcome(i, status, where) ==
    held' = [held EXCEPT ![i].status = status, ![i].at = where]

\* A package already in place is an error, or is set aside for the repair.
SetAside ==
    LET i == proc.item
        old == At1(i, proc.package.at)
    IN  /\ At("place")
        /\ old # {}
        /\ IF proc.doing = "repair"
           THEN /\ packages' = packages \ old
                /\ litter' = litter \cup {Previous}
                /\ proc' = [proc EXCEPT !.pc = "put", !.previous = CHOOSE p \in old : TRUE]
                /\ UNCHANGED held
           ELSE /\ litter' = litter \ {Temporary}
                /\ Outcome(i, "package_failed", held[i].at)
                /\ proc' = [proc EXCEPT !.pc = "checkpoint"]
                /\ UNCHANGED packages
        /\ UNCHANGED <<inputs, dir, rows, qa, spent>>

Put ==
    LET i == proc.item
        p == proc.package
    IN  /\ At("put") \/ (At("place") /\ At1(i, p.at) = {})
        /\ packages' = packages \cup {p}
        /\ litter' = litter \ {Temporary}
        /\ proc' = [proc EXCEPT !.pc = "drop"]
        /\ UNCHANGED <<inputs, dir, rows, held, qa, spent>>

\* The package set aside is removed; a repair removes one at another place.
Drop ==
    LET i == proc.item
        p == proc.package
    IN  /\ At("drop")
        /\ litter' = IF proc.previous # NoPackage THEN litter \ {Previous} ELSE litter
        /\ packages' = IF proc.doing = "repair" /\ held[i].at # p.at
                       THEN packages \ At1(i, held[i].at) ELSE packages
        /\ Outcome(i, IF p.partial THEN "package_partial" ELSE "package_success", p.at)
        /\ proc' = [proc EXCEPT !.pc = "checkpoint", !.previous = NoPackage]
        /\ UNCHANGED <<inputs, dir, rows, qa, spent>>

\* An exception while rendering: what was set aside comes back, and a repaired
\* row keeps its status.
RenderFails ==
    LET i == proc.item
    IN  /\ proc.pc \in {"render", "place", "put"}
        /\ packages' = packages \cup ({proc.previous} \ {NoPackage})
        /\ litter' = litter \ ({Temporary} \cup IF proc.previous = NoPackage THEN {}
                                             ELSE {Previous})
        /\ IF proc.doing = "repair" THEN UNCHANGED held
           ELSE Outcome(i, "package_failed", held[i].at)
        /\ proc' = [proc EXCEPT !.pc = "checkpoint", !.previous = NoPackage]
        /\ UNCHANGED <<inputs, dir, rows, qa, spent>>

\* process writes the manifest after each package, a repair only at its end.
Checkpoint ==
    /\ At("checkpoint")
    /\ rows' = IF proc.doing = "process" THEN held ELSE rows
    /\ proc' = [proc EXCEPT !.pc = "pick"]
    /\ UNCHANGED <<inputs, dir, packages, litter, held, qa, spent>>

RetryFailed ==
    /\ At("idle") /\ dir.at = "work"
    /\ rows' = [i \in Items |-> IF rows[i].status = "package_failed"
                                THEN [rows[i] EXCEPT !.status = "queued"] ELSE rows[i]]
    /\ UNCHANGED <<inputs, dir, packages, litter, held, proc, qa, spent>>

Finalize ==
    /\ At("idle") /\ dir.at = "work"
    /\ InStatus(rows, {"queued"}) = {}
    /\ dir.baseline = originals
    /\ dir' = [dir EXCEPT !.at = "build"]
    /\ UNCHANGED <<inputs, rows, packages, litter, held, proc, qa, spent>>

-----------------------------------------------------------------------------
\* validate, from the files: every index below packages counts, those of
\* directories a dead process left too.
IndexCount == Cardinality(packages) + Cardinality(litter)

Passes ==
    /\ Frozen = InStatus(rows, Packaged \cup {"package_failed"})
    /\ IndexCount = Cardinality(InStatus(rows, Packaged))
    /\ \A p, q \in packages \cup litter : p.item = q.item => p = q
    /\ {p.item : p \in packages \cup litter} = InStatus(rows, Packaged)
    /\ dir.baseline = originals
    /\ dir.count = decisions

Validate ==
    /\ At("idle") /\ dir.at = "build"
    /\ qa' = Passes
    /\ UNCHANGED <<inputs, build, held, proc, spent>>

-----------------------------------------------------------------------------
Change == spent.changes < MaxChanges /\ spent' = [spent EXCEPT !.changes = @ + 1]

Decide(i) ==
    /\ Change
    /\ decisions' = [decisions EXCEPT ![i] = @ + 1]
    /\ \E b \in BOOLEAN : publishable' = [publishable EXCEPT ![i] = b]
    /\ UNCHANGED <<originals, place, build, held, proc, qa>>

Recapture ==
    /\ Change
    /\ originals' = originals + 1
    /\ UNCHANGED <<decisions, publishable, place, build, held, proc, qa>>

Redate(i) ==
    /\ Change
    /\ place' = [place EXCEPT ![i] = @ + 1]
    /\ UNCHANGED <<decisions, publishable, originals, build, held, proc, qa>>

Die ==
    /\ ~At("idle")
    /\ spent.crashes < MaxCrashes /\ spent' = [spent EXCEPT !.crashes = @ + 1]
    /\ proc' = Idle /\ held' = rows
    /\ UNCHANGED <<inputs, build, qa>>

Next ==
    \/ Start \/ Process \/ Repair \/ Pick \/ Render \/ SetAside \/ Put \/ Drop \/ RenderFails
    \/ Checkpoint \/ RetryFailed \/ Finalize \/ Validate
    \/ \E i \in Items : Decide(i) \/ Redate(i)
    \/ Recapture \/ Die

Spec == Init /\ [][Next]_vars

-----------------------------------------------------------------------------
PackagesOf(i) == {p \in packages : p.item = i}

\* A report that passed tells the truth as long as nothing was done since: at
\* the moment of validation, each row that says so has exactly one package,
\* rendered from its frozen decision, and nothing else lies among them.
PassedMeansWhole ==
    /\ At("idle") /\ dir.at = "build" /\ Passes =>
           /\ litter = {}
           /\ \A i \in Frozen :
                  IF rows[i].status \in Packaged
                  THEN \E p \in packages : PackagesOf(i) = {p} /\ p.decision = rows[i].decision
                  ELSE PackagesOf(i) = {}

\* Every package is of a frozen decision, whatever was decided since; while
\* no process has died and no repair forgot what it did, an item has no more
\* than one package at rest, and its row says where.
PackagesAreFrozen ==
    /\ \A p \in packages : p.item \in Frozen /\ p.decision = rows[p.item].decision
    /\ At("idle") /\ spent.crashes = 0 /\ ~spent.forgot =>
           /\ litter = {}
           /\ \A p, q \in packages : p.item = q.item => p = q
           /\ \A p \in packages :
                  p.at = rows[p.item].at /\ rows[p.item].status \in Packaged

BuildIsSound == PassedMeansWhole /\ PackagesAreFrozen

\* Why it is: what the running process knows and does, ...
Known == IF At("idle") THEN rows ELSE held

Typed ==
    LET row == [decision : Nat, at : Nat,
                status : {"none", "queued", "package_failed"} \cup Packaged]
        package == [item : Items, at : Nat \ {0}, decision : Nat, partial : BOOLEAN]
    IN  /\ decisions \in [Items -> Nat] /\ place \in [Items -> Nat \ {0}]
        /\ rows \in [Items -> row] /\ held \in [Items -> row]
        /\ packages \subseteq package /\ DOMAIN dir = {"at", "baseline", "count"}
        /\ spent \in [changes : Nat, crashes : Nat, forgot : BOOLEAN]
        /\ litter \subseteq [item : Items, life : {0 - 1} \cup 0..spent.crashes]
        /\ proc \in [pc : {"idle", "pick", "render", "place", "put", "drop", "checkpoint"},
                     doing : {"nothing", "process", "repair"}, item : Items,
                     package : package \cup {NoPackage}, previous : package \cup {NoPackage},
                     todo : SUBSET Items]

\* ... what it has to do with the manifest on disk,
HeldFits ==
    ~At("idle") =>
        /\ proc.doing \in {"process", "repair"} /\ dir.at # "none"
        /\ \A i \in Items : /\ held[i].decision = rows[i].decision
                            /\ held[i].status = "none" <=> rows[i].status = "none"
                            /\ rows[i].status \in Packaged => held[i].status \in Packaged
        /\ proc.doing = "process" =>
               /\ \A i \in proc.todo : held[i].status = "queued"
               /\ ~At("checkpoint") => rows = held
               /\ proc.pc \in {"render", "place", "put", "drop"} =>
                      held[proc.item].status = "queued"
        /\ ~At("pick") => proc.item \in Frozen \ proc.todo
        /\ proc.doing = "repair" /\ ~At("pick") => held[proc.item].status \in Packaged

\* ... the package it works on, and what it has set aside,
PackageFits ==
    /\ proc.pc \in {"place", "put", "drop"} =>
           /\ proc.package # NoPackage /\ proc.package.item = proc.item
           /\ proc.package.decision = rows[proc.item].decision
    /\ proc.pc \in {"place", "put"} => Temporary \in litter
    /\ At("drop") => proc.package \in packages
    /\ At("put") <=> proc.previous # NoPackage /\ ~At("drop")
    /\ proc.previous # NoPackage =>
           /\ proc.doing = "repair" /\ proc.previous.item = proc.item
           /\ proc.previous.at = proc.package.at
           /\ proc.previous.decision = rows[proc.item].decision
    /\ At("put") => At1(proc.item, proc.package.at) = {} /\ Previous \in litter

\* ... and where the packages are: a row that says there is one is right, or a
\* dead process left two directories of the item.
PackagesStand ==
    /\ dir.at = "none" => packages = {} /\ litter = {}
    /\ \A p, q \in packages : p.item = q.item /\ p.at = q.at => p = q
    /\ \A p \in packages : p.item \in Frozen /\ p.decision = rows[p.item].decision
    /\ \A i \in Items : Known[i].status \in Packaged =>
           \/ PackagesOf(i) # {}
           \/ \E l, m \in litter :
                  /\ l # m /\ l.item = i /\ m.item = i
                  /\ l.life # spent.crashes /\ m.life # spent.crashes
           \/ At("put") /\ i = proc.item

\* As long as no process has died, and none forgot what it did:
NothingLiesAbout ==
    spent.crashes = 0 /\ ~spent.forgot =>
        /\ litter \subseteq IF proc.pc \in {"place", "put", "drop"}
                            THEN (IF At("drop") THEN {} ELSE {Temporary})
                                 \cup (IF proc.previous # NoPackage THEN {Previous} ELSE {})
                            ELSE {}
        /\ \A p \in packages :
               \/ p.at = Known[p.item].at /\ Known[p.item].status \in Packaged
               \/ At("drop") /\ p = proc.package
        /\ At("put") => proc.previous.at = held[proc.item].at

BuildInv == Typed /\ HeldFits /\ PackageFits /\ PackagesStand /\ NothingLiesAbout
=============================================================================
