----------------------------- MODULE CleanupRuns -----------------------------
(***************************************************************************)
(* The clean-up of the data directory: a run lists candidates with their   *)
(* hashes, moves them into a quarantine of its own, and later puts them    *)
(* back or, after seven days and a confirmation, erases them.              *)
(*                                                                         *)
(* A command reads the run and its items once, handles one file after      *)
(* another, and writes all statuses in one transaction at its end; the     *)
(* worker and a terminal may run two commands at a time, and one that dies *)
(* or meets an error leaves the files where they are and the rows as they  *)
(* were.  What the quarantine holds is `shelf`; the counters of the run    *)
(* and its manifest file, which nobody reads, are left out.  The check of  *)
(* a file's hash and its move are one step.                                *)
(***************************************************************************)
EXTENDS Naturals, FiniteSets

CONSTANTS
    Backups,     \* backup files, numbered by their time of modification
    Week,        \* backup -> its calendar week
    Orphans,     \* files below the old directories of pending items, by number
    Protected,   \* paths named by active tasks and open reviews
    Contents, None,
    Commands,    \* processes that may run a command
    Runs,        \* row ids of runs, from 1
    MaxLoads,    \* bound: commands carried out
    MaxChanges,  \* bound: changes made by others
    MaxFaults    \* bound: interrupted commands

VARIABLES
    disk,        \* file -> content at its own path, or None
    pending,     \* referenced: orphans an archive row names; cleaned: some delivery was cleaned
    shelf,       \* run -> file -> content in the quarantine of the run, or None
    runs,        \* CleanupRun with its CleanupItems
    procs,       \* command -> what it has read and done
    erased,      \* <<run, file, content, waited>> of what purges unlinked
    disturbed,   \* a command was interrupted, or two worked on one run
    spent        \* commands, changes and faults so far

vars == <<disk, pending, shelf, runs, procs, erased, disturbed, spent>>

Files == Backups \cup Orphans

Idle == [command |-> "none"]

NoRun == [status |-> "none", aged |-> FALSE, items |-> <<>>]

Smallest(s) == CHOOSE n \in s : \A m \in s : n <= m

-----------------------------------------------------------------------------
(***************************************************************************)
(* inventory_candidates and build_cleanup_plan.                            *)
(***************************************************************************)
Newest(s, n) == {b \in s : Cardinality({a \in s : a > b}) < n}

\* The two newest, and of the rest the newest of each week.
Retained_WithoutWeeks(s) == Newest(s, 2)

Retained(s) ==
    LET rest == s \ Newest(s, 2)
    IN  Newest(s, 2) \cup {b \in rest : \A a \in rest : Week[a] = Week[b] => a <= b}

inventory_candidates(categories) ==
    LET backups == {b \in Backups : disk[b] # None}
        orphans == {o \in Orphans : disk[o] # None /\ o \notin pending.referenced}
    IN  (IF "expired_backups" \in categories THEN backups \ Retained(backups) ELSE {})
        \cup (IF "sent_pending_orphans" \in categories /\ pending.cleaned THEN orphans ELSE {})

build_cleanup_plan ==
    \E r \in Runs, categories \in SUBSET {"expired_backups", "sent_pending_orphans"} :
        /\ runs[r].status = "none" /\ \A q \in Runs : q < r => runs[q].status # "none"
        /\ categories # {}
        /\ runs' = [runs EXCEPT ![r] =
               [status |-> "planned", aged |-> FALSE,
                items |-> [f \in inventory_candidates(categories) \ Protected |->
                               [status |-> "planned", sha |-> disk[f]]]]]
        /\ UNCHANGED <<disk, pending, shelf, procs, erased, disturbed, spent>>

-----------------------------------------------------------------------------
(***************************************************************************)
(* quarantine_run, restore_run, purge_run.                                 *)
(***************************************************************************)
InStatus(r, status) == {f \in DOMAIN runs[r].items : runs[r].items[f].status = status}

Loaded(command, r, todo) ==
    [command |-> command, run |-> r, loaded |-> runs[r].status, waited |-> runs[r].aged,
     todo |-> todo, changes |-> <<>>, failed |-> FALSE]

Load(c, command, r, todo) ==
    /\ procs[c] = Idle /\ spent.loads < MaxLoads
    /\ procs' = [procs EXCEPT ![c] = Loaded(command, r, todo)]
    /\ disturbed' = (disturbed \/ \E d \in Commands : procs[d] # Idle /\ procs[d].run = r)
    /\ spent' = [spent EXCEPT !.loads = @ + 1]
    /\ UNCHANGED <<disk, pending, shelf, runs, erased>>

StartQuarantine(c, r) ==
    /\ runs[r].status \in {"planned", "quarantined"}
    /\ Load(c, "quarantine", r, InStatus(r, "planned"))

StartRestore(c, r) ==
    /\ runs[r].status \in {"quarantined", "restored"}
    /\ Load(c, "restore", r, InStatus(r, "quarantined"))

\* Seven days after the quarantine, with the confirmation.
StartPurge(c, r) ==
    /\ runs[r].status = "quarantined" /\ runs[r].aged
    /\ Load(c, "purge", r, InStatus(r, "quarantined"))

\* The next file of a command; its new status is only remembered.
At(c, command, f) ==
    /\ procs[c].command = command
    /\ procs[c].todo # {} /\ f = Smallest(procs[c].todo)
    /\ UNCHANGED <<pending, runs, disturbed, spent>>

Remember(c, f, status) ==
    procs' = [procs EXCEPT ![c].todo = @ \ {f},
                           ![c].changes = [g \in DOMAIN @ \cup {f} |->
                                               IF g = f THEN status ELSE @[g]]]

\* A file that is gone, was changed, or whose place is taken is left alone.
Takeable(r, f) == disk[f] # None /\ disk[f] = runs[r].items[f].sha

QuarantineFile(c, f) ==
    LET r == procs[c].run
    IN  /\ At(c, "quarantine", f)
        /\ IF Takeable(r, f) /\ shelf[r][f] = None
           THEN /\ shelf' = [shelf EXCEPT ![r][f] = disk[f]]
                /\ disk' = [disk EXCEPT ![f] = None]
                /\ Remember(c, f, "quarantined")
           ELSE /\ Remember(c, f, IF Takeable(r, f) THEN "failed" ELSE "skipped")
                /\ UNCHANGED <<shelf, disk>>
        /\ UNCHANGED erased

\* A file made anew in the meantime is not overwritten.
RestoreFile(c, f) ==
    LET r == procs[c].run
    IN  /\ At(c, "restore", f)
        /\ IF disk[f] = None /\ shelf[r][f] # None
           THEN /\ disk' = [disk EXCEPT ![f] = shelf[r][f]]
                /\ shelf' = [shelf EXCEPT ![r][f] = None]
                /\ Remember(c, f, "restored")
           ELSE /\ procs' = [procs EXCEPT ![c].todo = @ \ {f}, ![c].failed = TRUE]
                /\ UNCHANGED <<disk, shelf>>
        /\ UNCHANGED erased

PurgeFile(c, f) ==
    LET r == procs[c].run
    IN  /\ At(c, "purge", f)
        /\ shelf' = [shelf EXCEPT ![r][f] = None]
        /\ erased' = IF shelf[r][f] = None THEN erased
                     ELSE erased \cup {<<r, f, shelf[r][f], procs[c].waited>>}
        /\ Remember(c, f, "purged")
        /\ UNCHANGED disk

\* Only what a command has changed is written, over whatever others wrote.
Result(p) ==
    CASE p.command = "quarantine" -> "quarantined"
      [] p.command = "restore" -> IF p.failed THEN "quarantined" ELSE "restored"
      [] p.command = "purge" -> "purged"

Commit(c) ==
    LET p == procs[c]
    IN  /\ p # Idle /\ p.todo = {}
        /\ runs' = [runs EXCEPT
               ![p.run].status = IF Result(p) = p.loaded THEN @ ELSE Result(p),
               ![p.run].aged = @ /\ p.command = "restore",
               ![p.run].items = [f \in DOMAIN @ |->
                                     IF f \in DOMAIN p.changes
                                     THEN [@[f] EXCEPT !.status = p.changes[f]]
                                     ELSE @[f]]]
        /\ procs' = [procs EXCEPT ![c] = Idle]
        /\ UNCHANGED <<disk, pending, shelf, erased, disturbed, spent>>

\* A crash, or an error with one of the files.
Interrupt(c) ==
    /\ procs[c] # Idle /\ spent.faults < MaxFaults
    /\ spent' = [spent EXCEPT !.faults = @ + 1]
    /\ procs' = [procs EXCEPT ![c] = Idle]
    /\ disturbed' = TRUE
    /\ UNCHANGED <<disk, pending, shelf, runs, erased>>

-----------------------------------------------------------------------------
(***************************************************************************)
(* What others do.                                                         *)
(***************************************************************************)
SevenDaysPass ==
    /\ runs' = [r \in Runs |-> [runs[r] EXCEPT !.aged = runs[r].status = "quarantined"]]
    /\ UNCHANGED <<disk, pending, shelf, procs, erased, disturbed, spent>>

Change ==
    /\ spent.changes < MaxChanges
    /\ spent' = [spent EXCEPT !.changes = @ + 1]
    /\ UNCHANGED <<shelf, runs, procs, erased, disturbed>>

\* Backups that were ever made; every path has one of them at most.
Made == {b \in Backups : disk[b] # None \/ \E r \in Runs : b \in DOMAIN runs[r].items}

NewBackup ==
    /\ Change
    /\ \E b \in Backups, content \in Contents :
           /\ \A a \in Made : a < b
           /\ disk' = [disk EXCEPT ![b] = content]
    /\ UNCHANGED pending

WriteOrphan ==
    /\ Change
    /\ \E o \in Orphans, content \in Contents :
           disk[o] # content /\ disk' = [disk EXCEPT ![o] = content]
    /\ UNCHANGED pending

\* A delivered item is cleaned; its rows go, some file of it stays.
CleanPending ==
    /\ Change
    /\ \E o \in pending.referenced :
           pending' = [referenced |-> pending.referenced \ {o}, cleaned |-> TRUE]
    /\ UNCHANGED disk

Init ==
    /\ disk \in [Files -> Contents \cup {None}]
    /\ \A a, b \in Backups : a < b /\ disk[b] # None => disk[a] # None
    /\ pending \in [referenced : SUBSET Orphans, cleaned : BOOLEAN]
    /\ shelf = [r \in Runs |-> [f \in Files |-> None]]
    /\ runs = [r \in Runs |-> NoRun]
    /\ procs = [c \in Commands |-> Idle]
    /\ erased = {}
    /\ disturbed = FALSE
    /\ spent = [loads |-> 0, changes |-> 0, faults |-> 0]

Next ==
    \/ build_cleanup_plan \/ SevenDaysPass \/ NewBackup \/ WriteOrphan \/ CleanPending
    \/ \E c \in Commands :
           \/ \E r \in Runs : StartQuarantine(c, r) \/ StartRestore(c, r) \/ StartPurge(c, r)
           \/ \E f \in Files : QuarantineFile(c, f) \/ RestoreFile(c, f) \/ PurgeFile(c, f)
           \/ Commit(c) \/ Interrupt(c)

Spec == Init /\ [][Next]_vars

-----------------------------------------------------------------------------
\* The two newest backups, and the newest one of every week, are in their place
\* whatever plans of different days are carried out, in any order, at once or
\* half (inventory.py:126-142).
BackupsStay ==
    \A b \in Made :
        b \in Newest(Made, 2) \/ (\A a \in Made : Week[a] = Week[b] => a <= b) => disk[b] # None

\* What is in the quarantine of a run is what the plan saw, to the byte, and
\* nothing that tasks, reviews or archive rows name; what was erased lay there
\* for its seven days (quarantine.py:197-203).
OnlyPlannedIsErased ==
    /\ \A r \in Runs, f \in Files :
           shelf[r][f] # None => /\ f \in DOMAIN runs[r].items /\ f \notin Protected
                                 /\ f \notin pending.referenced
                                 /\ shelf[r][f] = runs[r].items[f].sha
    /\ \A e \in erased : e[4] /\ e[3] = runs[e[1]].items[e[2]].sha

\* Between commands that were neither interrupted nor overlapped the ledger
\* tells the quarantine: what it calls quarantined is there and nothing else
\* is, however often a path was written again and a restore refused.
LedgerIsTrue ==
    ~disturbed =>
        \A r \in Runs :
            (\A c \in Commands : procs[c] = Idle \/ procs[c].run # r) =>
                /\ {f \in Files : shelf[r][f] # None} = InStatus(r, "quarantined")
                /\ runs[r].status \in {"restored", "purged"} => InStatus(r, "quarantined") = {}

CleanupIsSafe == BackupsStay /\ OnlyPlannedIsErased /\ LedgerIsTrue

-----------------------------------------------------------------------------
(***************************************************************************)
(* Why it is: the inductive invariant of the proofs.                       *)
(***************************************************************************)
\* Files are told apart by numbers, and no backup is an orphan.
Numbered == Files \subseteq Nat /\ Backups \cap Orphans = {} /\ IsFiniteSet(Backups)

Plans ==
    /\ DOMAIN runs = Runs
    /\ pending.referenced \subseteq Orphans
    /\ \A r \in Runs :
          /\ DOMAIN runs[r] = {"status", "aged", "items"}
          /\ runs[r].status = "none" => DOMAIN runs[r].items = {}
          /\ \A f \in DOMAIN runs[r].items :
                /\ f \in Files /\ f \notin Protected /\ f \notin pending.referenced
                /\ DOMAIN runs[r].items[f] = {"status", "sha"}

\* A backup is planned when there are two newer ones, and a newer one of its week.
PlannedAreOld ==
    \A r \in Runs, b \in Backups : b \in DOMAIN runs[r].items =>
        /\ \E x, y \in Made : x # y /\ x > b /\ y > b
        /\ \E x \in Made : Week[x] = Week[b] /\ x > b

Fields == {"command", "run", "loaded", "waited", "todo", "changes", "failed"}

Programs ==
    /\ DOMAIN procs = Commands
    /\ \A c \in Commands : procs[c] # Idle =>
          /\ DOMAIN procs[c] = Fields
          /\ procs[c].command \in {"quarantine", "restore", "purge"}
          /\ procs[c].run \in Runs
          /\ runs[procs[c].run].status # "none"
          /\ procs[c].todo \subseteq DOMAIN runs[procs[c].run].items
          /\ procs[c].command = "purge" => procs[c].waited /\ ~procs[c].failed

Places ==
    /\ DOMAIN disk = Files /\ DOMAIN shelf = Runs
    /\ \A r \in Runs : DOMAIN shelf[r] = Files

\* An erased file was in a plan; OnlyPlannedIsErased says the same of its content.
Erasures == \A e \in erased : e[1] \in Runs /\ e[2] \in DOMAIN runs[e[1]].items

\* One command works on a run, and what it remembers is not on its list any more.
Alone(c) ==
    /\ \A d \in Commands \ {c} : procs[d] # Idle => procs[d].run # procs[c].run
    /\ procs[c].loaded = runs[procs[c].run].status
    /\ DOMAIN procs[c].changes \subseteq DOMAIN runs[procs[c].run].items
    /\ \A f \in procs[c].todo :
          /\ f \notin DOMAIN procs[c].changes
          /\ runs[procs[c].run].items[f].status =
                 IF procs[c].command = "quarantine" THEN "planned" ELSE "quarantined"

\* What the ledger will say of a file when the command commits.
Intended(c, f) ==
    IF f \in DOMAIN procs[c].changes THEN procs[c].changes[f]
    ELSE runs[procs[c].run].items[f].status

Working(c) ==
    LET r == procs[c].run
    IN  /\ \A f \in Files :
              shelf[r][f] # None <=> f \in DOMAIN runs[r].items /\ Intended(c, f) = "quarantined"
        /\ procs[c].command # "quarantine" /\ ~procs[c].failed =>
               \A f \in DOMAIN runs[r].items \ procs[c].todo : Intended(c, f) # "quarantined"

Works == ~disturbed => \A c \in Commands : procs[c] # Idle => Alone(c) /\ Working(c)

CInv == Plans /\ Programs /\ Places /\ Erasures /\ OnlyPlannedIsErased

CleanupInv == CInv /\ PlannedAreOld /\ Works /\ LedgerIsTrue
=============================================================================
