---------------------------- MODULE ResourceLeases ----------------------------
(***************************************************************************)
(* ResourceCoordinator (resources.py): leases in the SQLite table          *)
(* resource_leases keep the OA browser and the local GPU to one process at *)
(* a time.  A process here is one owner_id: an operation worker            *)
(* ("worker-<pid>"), which first removes the leases of dead workers, or a  *)
(* command or scheduled scan, whose owner_id is a fresh uuid.              *)
(*                                                                         *)
(* acquire deletes the expired row and inserts its own in one transaction. *)
(* recover_dead_owners reads in autocommit mode and then deletes by id, so *)
(* it is two steps.  Row ids are SQLite rowids without AUTOINCREMENT: one  *)
(* more than the largest id in the table, so a deleted id comes back.      *)
(***************************************************************************)
EXTENDS Naturals

CONSTANTS
    Owners,           \* owner ids of processes
    Workers,          \* the owner ids that begin with "worker-"
    NoOwner,
    Resources,        \* resource keys
    NoResource,
    Overrunning,      \* processes whose sessions may outlive the ttl of their lease
    RecoveryRaces,    \* may an acquire fall between the two steps of recovery?
    MaxId             \* bound on row ids

ASSUME WorkersAssumption == Workers \subseteq Owners
ASSUME NoOwnerAssumption == NoOwner \notin Owners
ASSUME NoResourceAssumption == NoResource \notin Resources
ASSUME OverrunningAssumption == Overrunning \subseteq Owners
ASSUME RecoveryRacesAssumption == RecoveryRaces \in BOOLEAN
ASSUME MaxIdAssumption == MaxId \in Nat \ {0}

VARIABLES
    leases,   \* the table, by its unique column resource_key
    pc,       \* Owners -> where the process is
    uses,     \* Owners -> the resource it uses
    ticket,   \* Owners -> the lease id acquire returned
    dead      \* Owners -> the ids a recovery has selected

vars == <<leases, pc, uses, ticket, dead>>

PCs == {"off", "booting", "recovering", "idle", "using", "gone"}

Ids == 1..MaxId

Lease == [id : Ids \cup {0}, owner : Owners \cup {NoOwner}, expired : BOOLEAN]

NoLease == [id |-> 0, owner |-> NoOwner, expired |-> FALSE]

Taken(r) == leases[r].owner # NoOwner

Alive(o) == pc[o] \notin {"off", "gone"}

\* The id SQLite gives to the next row, in a table without row r.
NextId(n, r) ==
    /\ \A s \in Resources \ {r} : leases[s].id < n
    /\ n = 1 \/ \E s \in Resources \ {r} : Taken(s) /\ leases[s].id = n - 1

Init ==
    /\ leases = [r \in Resources |-> NoLease]
    /\ pc = [o \in Owners |-> "off"]
    /\ uses = [o \in Owners |-> NoResource]
    /\ ticket = [o \in Owners |-> 0]
    /\ dead = [o \in Owners |-> {}]

-----------------------------------------------------------------------------
\* One operation worker at a time; a restart may get the pid of a dead worker.
Start(o) ==
    /\ pc[o] = "off"
    /\ o \in Workers => \A w \in Workers : ~Alive(w)
    /\ pc' = [pc EXCEPT ![o] = IF o \in Workers THEN "booting" ELSE "idle"]
    /\ UNCHANGED <<leases, uses, ticket, dead>>

ScanDeadOwners_AnyKind(o) ==
    {leases[r].id : r \in {s \in Resources : leases[s].owner \notin {p \in Owners : Alive(p)}}}

\* The leases of workers whose process is gone.
ScanDeadOwners(o) ==
    {leases[r].id : r \in {s \in Resources :
        Taken(s) /\ leases[s].owner \in Workers /\ ~Alive(leases[s].owner)}}

ReadLeases(o) ==
    /\ pc[o] = "booting"
    /\ dead' = [dead EXCEPT ![o] = ScanDeadOwners(o)]
    /\ pc' = [pc EXCEPT ![o] = "recovering"]
    /\ UNCHANGED <<leases, uses, ticket>>

DeleteDead(o) ==
    /\ pc[o] = "recovering"
    /\ leases' = [r \in Resources |->
                     IF leases[r].id \in dead[o] THEN NoLease ELSE leases[r]]
    /\ dead' = [dead EXCEPT ![o] = {}]
    /\ pc' = [pc EXCEPT ![o] = "idle"]
    /\ UNCHANGED <<uses, ticket>>

Free_IgnoresExpiry(r) == TRUE

\* The unique constraint lets the insert pass.
Free(r) == ~Taken(r) \/ leases[r].expired

\* acquire; when the row is taken it changes nothing and the caller gives up.
Acquire(o, r) ==
    /\ pc[o] = "idle"
    /\ Free(r)
    /\ RecoveryRaces \/ \A w \in Workers : pc[w] # "recovering"
    /\ \E n \in Ids :
          /\ NextId(n, r)
          /\ leases' = [leases EXCEPT ![r] = [id |-> n, owner |-> o, expired |-> FALSE]]
          /\ ticket' = [ticket EXCEPT ![o] = n]
    /\ uses' = [uses EXCEPT ![o] = r]
    /\ pc' = [pc EXCEPT ![o] = "using"]
    /\ UNCHANGED dead

Mine_ById(o, r) == leases[r].id = ticket[o]

\* The row that release and heartbeat address: id and owner_id match.
Mine(o, r) == leases[r].id = ticket[o] /\ leases[r].owner = o

\* The callers ignore the result of a heartbeat.
Heartbeat(o) ==
    /\ pc[o] = "using"
    /\ leases' = [r \in Resources |->
                     IF Mine(o, r) THEN [leases[r] EXCEPT !.expired = FALSE] ELSE leases[r]]
    /\ UNCHANGED <<pc, uses, ticket, dead>>

Release(o) ==
    /\ pc[o] = "using"
    /\ leases' = [r \in Resources |-> IF Mine(o, r) THEN NoLease ELSE leases[r]]
    /\ pc' = [pc EXCEPT ![o] = "idle"]
    /\ uses' = [uses EXCEPT ![o] = NoResource]
    /\ ticket' = [ticket EXCEPT ![o] = 0]
    /\ UNCHANGED dead

\* A command that ends or is killed never returns with the same owner id.
Stop(o) ==
    /\ Alive(o)
    /\ pc' = [pc EXCEPT ![o] = IF o \in Workers THEN "off" ELSE "gone"]
    /\ uses' = [uses EXCEPT ![o] = NoResource]
    /\ ticket' = [ticket EXCEPT ![o] = 0]
    /\ dead' = [dead EXCEPT ![o] = {}]
    /\ UNCHANGED leases

\* Is this the lease of a session that ends or renews in time?
InUse(r) ==
    \E o \in Owners \ Overrunning : pc[o] = "using" /\ uses[o] = r /\ Mine(o, r)

Expire(r) ==
    /\ Taken(r)
    /\ ~leases[r].expired
    /\ ~InUse(r)
    /\ leases' = [leases EXCEPT ![r].expired = TRUE]
    /\ UNCHANGED <<pc, uses, ticket, dead>>

OwnerStep(o) ==
    \/ Start(o)
    \/ ReadLeases(o)
    \/ DeleteDead(o)
    \/ \E r \in Resources : Acquire(o, r)
    \/ Heartbeat(o)
    \/ Release(o)
    \/ Stop(o)

Next ==
    \/ \E o \in Owners : OwnerStep(o)
    \/ \E r \in Resources : Expire(r)

Spec == Init /\ [][Next]_vars
-----------------------------------------------------------------------------
(* Properties.                                                             *)

\* The variables have the types the code's columns and locals have.
TypeOK ==
    /\ leases \in [Resources -> Lease]
    /\ pc \in [Owners -> PCs]
    /\ uses \in [Owners -> Resources \cup {NoResource}]
    /\ ticket \in [Owners -> Ids \cup {0}]
    /\ dead \in [Owners -> SUBSET Ids]

\* "exclusive_gpu_lease" (tests/test_resources.py:17): processes whose sessions
\* end or renew within the ttl never use the same browser or GPU at the same
\* time, whatever the sessions that overrun do; crashes, reused pids and reused
\* row ids do not matter, if no acquire overtakes a recovery.
ExclusiveUse ==
    \A o, p \in Owners \ Overrunning :
        pc[o] = "using" /\ pc[p] = "using" /\ uses[o] = uses[p] => o = p

\* A live, unexpired lease stays with the process that uses it until that
\* process ends its session: not a late release or heartbeat of a process whose
\* row was taken over and whose row id has come back, not a competing acquire,
\* and not a recovery, which is to "Remove only leases tied to worker PIDs that
\* no longer exist" (resources.py:76).
LiveLeaseIsKept ==
    [][\A o \in Owners, r \in Resources :
          pc[o] = "using" /\ uses[o] = r /\ Mine(o, r) /\ ~leases[r].expired =>
              pc'[o] # "using" \/ Mine(o, r)']_vars
=============================================================================
