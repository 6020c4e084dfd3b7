--------------------------- MODULE ComponentsProofs ---------------------------
(***************************************************************************)
(* What is proved of the components that MCComponents checks together, for *)
(* every value of their constants: the leases (ResourceLeases, with its    *)
(* own variables), the verdicts of an audit (AuditEvidence), the clean-up  *)
(* of the data directory (CleanupRuns), the batches of an operator         *)
(* (ArchiveBatches) and what an archive is worth to a decision             *)
(* (ArchiveReadiness), which are instances over the variables s1, s2, ...; *)
(* the invariants stand beside the properties in the modules of the        *)
(* instances.  What is proved in CandidatesProofs of the components of     *)
(* MCItems holds of MCComponents too (ComponentsTakeItems).                *)
(***************************************************************************)
EXTENDS MCComponents, Sequences, FiniteSetTheorems, WellFoundedInduction, TLAPS

(***************************************************************************)
(* The leases.  ExclusiveUse alone is not inductive: that the second       *)
(* process cannot acquire follows from the first one's row being there and *)
(* unexpired (UsersHoldLeases), which survives a release or a recovery     *)
(* only because rows are told apart by their ids (IdsAreUnique) and        *)
(* because the ids a recovery has read are not in use (RecoveryIsSafe).    *)
(* That a live lease is kept needs the last of every session, also of one  *)
(* that overruns (RecoverySpares).                                         *)
(***************************************************************************)
Disciplined == Owners \ Overrunning

UsersHoldLeases ==
    \A o \in Disciplined : pc[o] = "using" =>
        /\ uses[o] \in Resources
        /\ leases[uses[o]].owner = o
        /\ leases[uses[o]].id = ticket[o]
        /\ ~leases[uses[o]].expired

IdsAreUnique ==
    /\ \A r \in Resources : Taken(r) <=> leases[r].id # 0
    /\ \A r, s \in Resources :
          leases[r].id = leases[s].id /\ leases[r].id # 0 => r = s

RecoveryIsSafe ==
    \A w \in Owners :
        /\ pc[w] \in {"booting", "recovering"} => w \in Workers
        /\ dead[w] # {} => pc[w] = "recovering"
        /\ \A o \in Disciplined : pc[o] = "using" => leases[uses[o]].id \notin dead[w]

IInv == TypeOK /\ UsersHoldLeases /\ IdsAreUnique /\ RecoveryIsSafe

Table == TypeOK /\ IdsAreUnique

\* The lease of any session, expired or not, as long as it is the session's.
HasLease(o) == pc[o] = "using" /\ uses[o] \in Resources /\ Mine(o, uses[o])

RecoverySpares ==
    \A w \in Owners :
        /\ pc[w] \in {"booting", "recovering"} => w \in Workers
        /\ dead[w] # {} => pc[w] = "recovering"
        /\ \A o \in Owners : HasLease(o) => leases[uses[o]].id \notin dead[w]

-----------------------------------------------------------------------------
\* The initial table is empty and nobody runs.
LEMMA InitIInv == Init => IInv
  <1> SUFFICES ASSUME Init PROVE IInv
    OBVIOUS
  <1> USE WorkersAssumption, NoOwnerAssumption, NoResourceAssumption, MaxIdAssumption
  <1>1. TypeOK
    BY DEF Init, TypeOK, NoLease, Lease, PCs
  <1>2. UsersHoldLeases
    BY DEF Init, UsersHoldLeases, Disciplined
  <1>3. IdsAreUnique
    BY DEF Init, IdsAreUnique, NoLease, Taken
  <1>4. RecoveryIsSafe
    BY DEF Init, RecoveryIsSafe, Disciplined
  <1> QED
    BY <1>1, <1>2, <1>3, <1>4 DEF IInv

\* Type correctness and unique ids need no assumption on timing.
LEMMA TableInductive == Table /\ [Next]_vars => Table'
  <1> USE WorkersAssumption, NoOwnerAssumption, NoResourceAssumption, MaxIdAssumption
  <1> SUFFICES ASSUME Table, [Next]_vars PROVE Table'
    OBVIOUS
  <1>t. \A r \in Resources : leases[r] \in Lease
    BY DEF Table, TypeOK
  <1>n. NoLease \in Lease /\ NoLease.id = 0 /\ NoLease.owner = NoOwner
    BY DEF NoLease, Lease
  \* Removing rows keeps the table well formed.
  <1>rm. ASSUME NEW gone \in SUBSET Resources,
                leases' = [r \in Resources |-> IF r \in gone THEN NoLease ELSE leases[r]]
         PROVE  leases' \in [Resources -> Lease] /\ IdsAreUnique'
    <2>1. leases' \in [Resources -> Lease]
      BY <1>rm, <1>t, <1>n
    <2>2. \A r \in Resources :
             \/ leases'[r] = leases[r]
             \/ leases'[r].id = 0 /\ leases'[r].owner = NoOwner
      BY <1>rm, <1>n
    <2>3. IdsAreUnique'
      BY <2>2 DEF Table, IdsAreUnique, Taken
    <2> QED
      BY <2>1, <2>3
  <1>1. ASSUME NEW o \in Owners, Start(o) PROVE Table'
    BY <1>1 DEF Start, Table, TypeOK, PCs, IdsAreUnique, Taken
  <1>2. ASSUME NEW o \in Owners, ReadLeases(o) PROVE Table'
    <2>1. ScanDeadOwners(o) \subseteq Ids
      <3>1. SUFFICES ASSUME NEW r \in Resources, Taken(r) PROVE leases[r].id \in Ids
        BY DEF ScanDeadOwners
      <3>2. leases[r].id # 0
        BY <3>1 DEF Table, IdsAreUnique
      <3> QED
        BY <1>t, <3>2 DEF Lease
    <2> QED
      BY <1>2, <2>1 DEF ReadLeases, Table, TypeOK, PCs, IdsAreUnique, Taken
  <1>3. ASSUME NEW o \in Owners, DeleteDead(o) PROVE Table'
    <2> DEFINE gone == {r \in Resources : leases[r].id \in dead[o]}
    <2>1. leases' = [r \in Resources |-> IF r \in gone THEN NoLease ELSE leases[r]]
      BY <1>3 DEF DeleteDead
    <2>2. leases' \in [Resources -> Lease] /\ IdsAreUnique'
      BY <1>rm, <2>1, Zenon
    <2> QED
      BY <1>3, <2>2 DEF DeleteDead, Table, TypeOK, PCs
  <1>4. ASSUME NEW o \in Owners, NEW r \in Resources, Acquire(o, r) PROVE Table'
    <2>1. PICK n \in Ids :
             /\ NextId(n, r)
             /\ leases' = [leases EXCEPT ![r] = [id |-> n, owner |-> o, expired |-> FALSE]]
             /\ ticket' = [ticket EXCEPT ![o] = n]
      BY <1>4, Zenon DEF Acquire
    <2>2. [id |-> n, owner |-> o, expired |-> FALSE] \in Lease
      BY DEF Lease
    <2>3. TypeOK'
      BY <1>4, <2>1, <2>2 DEF Acquire, Table, TypeOK, PCs
    <2>4. \A s \in Resources :
             IF s = r THEN leases'[s].id = n /\ leases'[s].owner = o
                      ELSE leases'[s] = leases[s]
      BY <2>1 DEF Table, TypeOK
    <2>5. n # 0 /\ o # NoOwner /\ \A s \in Resources \ {r} : leases[s].id # n
      BY <2>1, <1>t DEF NextId, Ids, Lease
    <2>6. IdsAreUnique'
      BY <2>4, <2>5 DEF Table, IdsAreUnique, Taken
    <2> QED
      BY <2>3, <2>6 DEF Table
  <1>5. ASSUME NEW o \in Owners, Heartbeat(o) PROVE Table'
    <2>1. \A r \in Resources :
             [leases[r] EXCEPT !.expired = FALSE] \in Lease
             /\ [leases[r] EXCEPT !.expired = FALSE].id = leases[r].id
             /\ [leases[r] EXCEPT !.expired = FALSE].owner = leases[r].owner
      BY <1>t, Zenon DEF Lease
    <2>2. \A r \in Resources : leases'[r] \in Lease /\ leases'[r].id = leases[r].id
                               /\ leases'[r].owner = leases[r].owner
      BY <1>5, <1>t, <2>1 DEF Heartbeat
    <2>3. leases' \in [Resources -> Lease]
      BY <1>5, <2>2 DEF Heartbeat
    <2>4. IdsAreUnique'
      BY <2>2 DEF Table, IdsAreUnique, Taken
    <2> QED
      BY <1>5, <2>3, <2>4 DEF Heartbeat, Table, TypeOK
  <1>6. ASSUME NEW o \in Owners, Release(o) PROVE Table'
    <2> DEFINE gone == {r \in Resources : Mine(o, r)}
    <2>1. leases' = [r \in Resources |-> IF r \in gone THEN NoLease ELSE leases[r]]
      BY <1>6 DEF Release
    <2>2. leases' \in [Resources -> Lease] /\ IdsAreUnique'
      BY <1>rm, <2>1, Zenon
    <2> QED
      BY <1>6, <2>2 DEF Release, Table, TypeOK, PCs
  <1>7. ASSUME NEW o \in Owners, Stop(o) PROVE Table'
    BY <1>7 DEF Stop, Table, TypeOK, PCs, IdsAreUnique, Taken
  <1>8. ASSUME NEW r \in Resources, Expire(r) PROVE Table'
    <2>1. \A s \in Resources : leases'[s] \in Lease /\ leases'[s].id = leases[s].id
                               /\ leases'[s].owner = leases[s].owner
      BY <1>8, <1>t, Zenon DEF Expire, Table, TypeOK, Lease
    <2>2. leases' \in [Resources -> Lease]
      BY <1>8, <2>1, Zenon DEF Expire, Table, TypeOK
    <2>3. IdsAreUnique'
      BY <2>1 DEF Table, IdsAreUnique, Taken
    <2> QED
      BY <1>8, <2>2, <2>3 DEF Expire, Table, TypeOK
  <1>9. CASE UNCHANGED vars
    BY <1>9 DEF vars, Table, TypeOK, IdsAreUnique, Taken
  <1> QED
    BY <1>1, <1>2, <1>3, <1>4, <1>5, <1>6, <1>7, <1>8, <1>9 DEF Next, OwnerStep

\* Under the two timing assumptions a user's row stays in place.
LEMMA UseInductive ==
  ASSUME ~RecoveryRaces
  PROVE  IInv /\ [Next]_vars => (UsersHoldLeases /\ RecoveryIsSafe)'
  <1> USE WorkersAssumption, NoOwnerAssumption, NoResourceAssumption, MaxIdAssumption
  <1>d. Disciplined \subseteq Owners
    BY DEF Disciplined
  <1> USE <1>d
  <1> SUFFICES ASSUME IInv, [Next]_vars PROVE (UsersHoldLeases /\ RecoveryIsSafe)'
    OBVIOUS
  <1>t. /\ \A r \in Resources : leases[r] \in Lease
        /\ leases \in [Resources -> Lease]
        /\ pc \in [Owners -> PCs] /\ uses \in [Owners -> Resources \cup {NoResource}]
        /\ ticket \in [Owners -> Ids \cup {0}] /\ dead \in [Owners -> SUBSET Ids]
    BY DEF IInv, TypeOK
  <1>u. /\ \A o \in Disciplined : pc[o] = "using" =>
              /\ uses[o] \in Resources /\ Mine(o, uses[o]) /\ ~leases[uses[o]].expired
              /\ leases[uses[o]].id # 0
    BY <1>t DEF IInv, UsersHoldLeases, IdsAreUnique, Taken, Mine
  <1>1. ASSUME NEW o \in Owners, Start(o) PROVE (UsersHoldLeases /\ RecoveryIsSafe)'
    BY <1>1, <1>t DEF Start, IInv, UsersHoldLeases, RecoveryIsSafe
  <1>2. ASSUME NEW o \in Owners, ReadLeases(o) PROVE (UsersHoldLeases /\ RecoveryIsSafe)'
    <2>1. \A p \in Disciplined : pc[p] = "using" => leases[uses[p]].id \notin ScanDeadOwners(o)
      <3> SUFFICES ASSUME NEW p \in Disciplined, pc[p] = "using",
                          NEW r \in Resources, leases[r].id = leases[uses[p]].id
                   PROVE  Alive(leases[r].owner)
        BY DEF ScanDeadOwners
      <3>1. r = uses[p]
        BY <1>u DEF IInv, IdsAreUnique
      <3> QED
        BY <1>u, <3>1 DEF Mine, Alive
    <2>2. pc[o] = "booting" /\ \A p \in Owners \ {o} : pc'[p] = pc[p] /\ dead'[p] = dead[p]
      BY <1>2, <1>t DEF ReadLeases
    <2>3. pc'[o] = "recovering" /\ dead'[o] = ScanDeadOwners(o)
          /\ UNCHANGED <<leases, uses, ticket>>
      BY <1>2, <1>t DEF ReadLeases
    <2> QED
      BY <2>1, <2>2, <2>3 DEF IInv, UsersHoldLeases, RecoveryIsSafe
  <1>3. ASSUME NEW o \in Owners, DeleteDead(o) PROVE (UsersHoldLeases /\ RecoveryIsSafe)'
    <2>1. \A p \in Disciplined : pc[p] = "using" => leases'[uses[p]] = leases[uses[p]]
      BY <1>3, <1>u DEF DeleteDead, IInv, RecoveryIsSafe
    <2>2. /\ \A p \in Owners \ {o} : pc'[p] = pc[p] /\ dead'[p] = dead[p]
          /\ pc'[o] = "idle" /\ dead'[o] = {} /\ UNCHANGED <<uses, ticket>>
      BY <1>3, <1>t DEF DeleteDead
    <2> QED
      BY <2>1, <2>2 DEF IInv, UsersHoldLeases, RecoveryIsSafe
  <1>4. ASSUME NEW o \in Owners, NEW r \in Resources, Acquire(o, r)
        PROVE  (UsersHoldLeases /\ RecoveryIsSafe)'
    <2>1. PICK n \in Ids :
             /\ leases' = [leases EXCEPT ![r] = [id |-> n, owner |-> o, expired |-> FALSE]]
             /\ ticket' = [ticket EXCEPT ![o] = n]
      BY <1>4, Zenon DEF Acquire
    <2>2. \A p \in Disciplined : pc[p] = "using" => uses[p] # r
      BY <1>4, <1>u DEF Acquire, Free, Taken, Mine
    <2>3. /\ \A p \in Owners \ {o} : pc'[p] = pc[p] /\ uses'[p] = uses[p] /\ ticket'[p] = ticket[p]
          /\ pc[o] = "idle" /\ pc'[o] = "using" /\ uses'[o] = r /\ ticket'[o] = n
          /\ UNCHANGED dead
      BY <1>4, <2>1, <1>t DEF Acquire
    <2>4. /\ leases'[r].owner = o /\ leases'[r].id = n /\ ~leases'[r].expired
          /\ \A s \in Resources \ {r} : leases'[s] = leases[s]
      BY <2>1, <1>t
    <2>5. UsersHoldLeases'
      BY <2>2, <2>3, <2>4, <1>u DEF IInv, UsersHoldLeases
    <2>6. \A w \in Owners : dead[w] = {}
      BY <1>4 DEF Acquire, IInv, RecoveryIsSafe
    <2>7. RecoveryIsSafe'
      BY <2>3, <2>6 DEF IInv, RecoveryIsSafe
    <2> QED
      BY <2>5, <2>7
  <1>5. ASSUME NEW o \in Owners, Heartbeat(o) PROVE (UsersHoldLeases /\ RecoveryIsSafe)'
    <2>1. \A r \in Resources :
             /\ [leases[r] EXCEPT !.expired = FALSE].id = leases[r].id
             /\ [leases[r] EXCEPT !.expired = FALSE].owner = leases[r].owner
             /\ [leases[r] EXCEPT !.expired = FALSE].expired = FALSE
      BY <1>t DEF Lease
    <2>2. \A r \in Resources :
             /\ leases'[r].id = leases[r].id /\ leases'[r].owner = leases[r].owner
             /\ ~leases[r].expired => ~leases'[r].expired
      BY <1>5, <2>1 DEF Heartbeat
    <2> QED
      BY <1>5, <1>u, <2>2 DEF Heartbeat, IInv, UsersHoldLeases, RecoveryIsSafe
  <1>6. ASSUME NEW o \in Owners, Release(o) PROVE (UsersHoldLeases /\ RecoveryIsSafe)'
    <2>1. \A p \in Disciplined \ {o} : pc[p] = "using" => leases'[uses[p]] = leases[uses[p]]
      BY <1>6, <1>u DEF Release, Mine
    <2>2. /\ \A p \in Owners \ {o} : pc'[p] = pc[p] /\ uses'[p] = uses[p] /\ ticket'[p] = ticket[p]
          /\ pc[o] = "using" /\ pc'[o] = "idle" /\ UNCHANGED dead
      BY <1>6, <1>t DEF Release
    <2> QED
      BY <2>1, <2>2 DEF IInv, UsersHoldLeases, RecoveryIsSafe
  <1>7. ASSUME NEW o \in Owners, Stop(o) PROVE (UsersHoldLeases /\ RecoveryIsSafe)'
    <2>1. /\ \A p \in Owners \ {o} : pc'[p] = pc[p] /\ uses'[p] = uses[p]
                                     /\ ticket'[p] = ticket[p] /\ dead'[p] = dead[p]
          /\ pc'[o] \in {"off", "gone"} /\ dead'[o] = {} /\ UNCHANGED leases
      BY <1>7, <1>t DEF Stop
    <2> QED
      BY <2>1 DEF IInv, UsersHoldLeases, RecoveryIsSafe
  <1>8. ASSUME NEW r \in Resources, Expire(r) PROVE (UsersHoldLeases /\ RecoveryIsSafe)'
    <2>1. \A o \in Disciplined : pc[o] = "using" => uses[o] # r
      BY <1>8, <1>u DEF Expire, InUse, Disciplined
    <2>2. \A s \in Resources : leases'[s].id = leases[s].id
      BY <1>8, <1>t DEF Expire, Lease
    <2>3. \A s \in Resources \ {r} : leases'[s] = leases[s]
      BY <1>8, <1>t DEF Expire
    <2> QED
      BY <1>8, <1>u, <2>1, <2>2, <2>3 DEF Expire, IInv, UsersHoldLeases, RecoveryIsSafe
  <1>9. CASE UNCHANGED vars
    BY <1>9 DEF vars, IInv, UsersHoldLeases, RecoveryIsSafe
  <1> QED
    BY <1>1, <1>2, <1>3, <1>4, <1>5, <1>6, <1>7, <1>8, <1>9 DEF Next, OwnerStep

-----------------------------------------------------------------------------
\* A recovery has selected no lease whose session is still open.
LEMMA SparesInductive ==
  ASSUME ~RecoveryRaces
  PROVE  Table /\ RecoverySpares /\ [Next]_vars => RecoverySpares'
  <1> USE WorkersAssumption, NoOwnerAssumption, NoResourceAssumption, MaxIdAssumption
  <1> SUFFICES ASSUME Table, RecoverySpares, [Next]_vars PROVE RecoverySpares'
    OBVIOUS
  <1>t. /\ \A r \in Resources : leases[r] \in Lease
        /\ leases \in [Resources -> Lease]
        /\ pc \in [Owners -> PCs] /\ uses \in [Owners -> Resources \cup {NoResource}]
        /\ ticket \in [Owners -> Ids \cup {0}] /\ dead \in [Owners -> SUBSET Ids]
    BY DEF Table, TypeOK
  \* A step that opens no session, renames no row and selects nothing.
  <1>k. ASSUME \A p \in Owners : HasLease(p)' =>
                  HasLease(p) /\ leases'[uses'[p]].id = leases[uses[p]].id,
               \A p \in Owners : dead'[p] \subseteq dead[p],
               \A p \in Owners :
                  /\ pc'[p] \in {"booting", "recovering"} => p \in Workers
                  /\ dead'[p] # {} => pc'[p] = "recovering"
        PROVE  RecoverySpares'
    BY <1>k DEF RecoverySpares
  <1>1. ASSUME NEW o \in Owners, Start(o) PROVE RecoverySpares'
    BY <1>1, <1>t, <1>k DEF Start, RecoverySpares, HasLease, Mine
  <1>2. ASSUME NEW o \in Owners, ReadLeases(o) PROVE RecoverySpares'
    <2>1. \A p \in Owners : HasLease(p) => leases[uses[p]].id \notin ScanDeadOwners(o)
      <3> SUFFICES ASSUME NEW p \in Owners, HasLease(p),
                          NEW r \in Resources, Taken(r), leases[r].id = leases[uses[p]].id
                   PROVE  Alive(leases[r].owner)
        BY DEF ScanDeadOwners
      <3>1. r = uses[p]
        BY DEF Table, IdsAreUnique, HasLease
      <3> QED
        BY <3>1 DEF HasLease, Mine, Alive
    <2>2. pc[o] = "booting" /\ \A p \in Owners \ {o} : pc'[p] = pc[p] /\ dead'[p] = dead[p]
      BY <1>2, <1>t DEF ReadLeases
    <2>3. pc'[o] = "recovering" /\ dead'[o] = ScanDeadOwners(o)
          /\ UNCHANGED <<leases, uses, ticket>>
      BY <1>2, <1>t DEF ReadLeases
    <2>4. \A p \in Owners : HasLease(p)' => HasLease(p)
      BY <2>2, <2>3 DEF HasLease, Mine
    <2> QED
      BY <2>1, <2>2, <2>3, <2>4 DEF RecoverySpares
  <1>3. ASSUME NEW o \in Owners, DeleteDead(o) PROVE RecoverySpares'
    <2>1. \A r \in Resources : leases'[r] = leases[r] \/ leases'[r].owner = NoOwner
      BY <1>3 DEF DeleteDead, NoLease
    <2>2. /\ \A p \in Owners \ {o} : pc'[p] = pc[p] /\ dead'[p] = dead[p]
          /\ pc'[o] = "idle" /\ dead'[o] = {} /\ UNCHANGED <<uses, ticket>>
      BY <1>3, <1>t DEF DeleteDead
    <2>3. \A p \in Owners : HasLease(p)' =>
             HasLease(p) /\ leases'[uses'[p]].id = leases[uses[p]].id
      BY <2>1, <2>2 DEF HasLease, Mine
    <2> QED
      BY <2>2, <2>3, <1>k DEF RecoverySpares
  <1>4. ASSUME NEW o \in Owners, NEW r \in Resources, Acquire(o, r) PROVE RecoverySpares'
    <2>1. \A w \in Owners : dead[w] = {}
      BY <1>4 DEF Acquire, RecoverySpares
    <2>2. UNCHANGED dead /\ \A p \in Owners : pc'[p] \in {"booting", "recovering"} => pc'[p] = pc[p]
      BY <1>4, <1>t DEF Acquire
    <2> QED
      BY <2>1, <2>2 DEF RecoverySpares
  <1>5. ASSUME NEW o \in Owners, Heartbeat(o) PROVE RecoverySpares'
    <2>1. \A r \in Resources :
             /\ [leases[r] EXCEPT !.expired = FALSE].id = leases[r].id
             /\ [leases[r] EXCEPT !.expired = FALSE].owner = leases[r].owner
      BY <1>t DEF Lease
    <2>2. \A r \in Resources : leases'[r].id = leases[r].id /\ leases'[r].owner = leases[r].owner
      BY <1>5, <2>1 DEF Heartbeat
    <2>3. \A p \in Owners : HasLease(p)' =>
             HasLease(p) /\ leases'[uses'[p]].id = leases[uses[p]].id
      BY <1>5, <2>2 DEF Heartbeat, HasLease, Mine
    <2> QED
      BY <1>5, <2>3, <1>k DEF Heartbeat, RecoverySpares
  <1>6. ASSUME NEW o \in Owners, Release(o) PROVE RecoverySpares'
    <2>1. \A r \in Resources : leases'[r] = leases[r] \/ leases'[r].owner = NoOwner
      BY <1>6 DEF Release, NoLease
    <2>2. /\ \A p \in Owners \ {o} : pc'[p] = pc[p] /\ uses'[p] = uses[p] /\ ticket'[p] = ticket[p]
          /\ pc[o] = "using" /\ pc'[o] = "idle" /\ UNCHANGED dead
      BY <1>6, <1>t DEF Release
    <2>3. \A p \in Owners : HasLease(p)' =>
             HasLease(p) /\ leases'[uses'[p]].id = leases[uses[p]].id
      BY <2>1, <2>2 DEF HasLease, Mine
    <2> QED
      BY <2>2, <2>3, <1>k DEF RecoverySpares
  <1>7. ASSUME NEW o \in Owners, Stop(o) PROVE RecoverySpares'
    <2>1. /\ \A p \in Owners \ {o} : pc'[p] = pc[p] /\ uses'[p] = uses[p]
                                     /\ ticket'[p] = ticket[p] /\ dead'[p] = dead[p]
          /\ pc'[o] \in {"off", "gone"} /\ dead'[o] = {} /\ UNCHANGED leases
      BY <1>7, <1>t DEF Stop
    <2>2. \A p \in Owners : HasLease(p)' =>
             HasLease(p) /\ leases'[uses'[p]].id = leases[uses[p]].id
      BY <2>1 DEF HasLease, Mine
    <2> QED
      BY <2>1, <2>2, <1>k DEF RecoverySpares
  <1>8. ASSUME NEW r \in Resources, Expire(r) PROVE RecoverySpares'
    <2>1. \A s \in Resources : leases'[s].id = leases[s].id /\ leases'[s].owner = leases[s].owner
      BY <1>8, <1>t DEF Expire, Lease
    <2>2. \A p \in Owners : HasLease(p)' =>
             HasLease(p) /\ leases'[uses'[p]].id = leases[uses[p]].id
      BY <1>8, <2>1 DEF Expire, HasLease, Mine
    <2> QED
      BY <1>8, <2>2, <1>k DEF Expire, RecoverySpares
  <1>9. CASE UNCHANGED vars
    BY <1>9 DEF vars, RecoverySpares, HasLease, Mine
  <1> QED
    BY <1>1, <1>2, <1>3, <1>4, <1>5, <1>6, <1>7, <1>8, <1>9 DEF Next, OwnerStep

\* A step takes an unexpired lease from an open session only by ending it.
LEMMA StepKeepsLeases ==
  ASSUME Table, RecoverySpares, [Next]_vars,
         NEW o \in Owners, NEW r \in Resources,
         pc[o] = "using", uses[o] = r, Mine(o, r), ~leases[r].expired
  PROVE  pc'[o] # "using" \/ Mine(o, r)'
  <1> USE NoOwnerAssumption
  <1>t. /\ \A s \in Resources : leases[s] \in Lease
        /\ leases \in [Resources -> Lease]
        /\ pc \in [Owners -> PCs] /\ uses \in [Owners -> Resources \cup {NoResource}]
        /\ ticket \in [Owners -> Ids \cup {0}]
    BY DEF Table, TypeOK
  <1>m. leases[r].id = ticket[o] /\ leases[r].owner = o
    BY DEF Mine
  \* The row and the ticket stay as they are.
  <1>k. ASSUME leases'[r].id = leases[r].id, leases'[r].owner = leases[r].owner,
               ticket'[o] = ticket[o]
        PROVE  Mine(o, r)'
    BY <1>k, <1>m DEF Mine
  <1>1. ASSUME NEW p \in Owners, Start(p) PROVE Mine(o, r)'
    BY <1>1, <1>k DEF Start
  <1>2. ASSUME NEW p \in Owners, ReadLeases(p) PROVE Mine(o, r)'
    BY <1>2, <1>k DEF ReadLeases
  <1>3. ASSUME NEW p \in Owners, DeleteDead(p) PROVE Mine(o, r)'
    <2>1. leases[r].id \notin dead[p]
      BY DEF RecoverySpares, HasLease
    <2> QED
      BY <1>3, <2>1, <1>k DEF DeleteDead
  <1>4. ASSUME NEW p \in Owners, NEW s \in Resources, Acquire(p, s) PROVE Mine(o, r)'
    <2>1. s # r /\ p # o
      BY <1>4, <1>m DEF Acquire, Free, Taken
    <2>2. leases'[r] = leases[r] /\ ticket'[o] = ticket[o]
      BY <1>4, <2>1, <1>t DEF Acquire
    <2> QED
      BY <2>2, <1>k
  <1>5. ASSUME NEW p \in Owners, Heartbeat(p) PROVE Mine(o, r)'
    <2>1. /\ [leases[r] EXCEPT !.expired = FALSE].id = leases[r].id
          /\ [leases[r] EXCEPT !.expired = FALSE].owner = leases[r].owner
      BY <1>t DEF Lease
    <2> QED
      BY <1>5, <2>1, <1>k DEF Heartbeat
  <1>6. ASSUME NEW p \in Owners, Release(p) PROVE pc'[o] # "using" \/ Mine(o, r)'
    <2>1. CASE p = o
      BY <1>6, <2>1, <1>t DEF Release
    <2>2. CASE p # o
      <3>1. leases'[r] = leases[r] /\ ticket'[o] = ticket[o]
        BY <1>6, <2>2, <1>t, <1>m DEF Release, Mine
      <3> QED
        BY <3>1, <1>k
    <2> QED
      BY <2>1, <2>2
  <1>7. ASSUME NEW p \in Owners, Stop(p) PROVE pc'[o] # "using" \/ Mine(o, r)'
    BY <1>7, <1>t, <1>k DEF Stop
  <1>8. ASSUME NEW s \in Resources, Expire(s) PROVE Mine(o, r)'
    <2>1. leases'[r].id = leases[r].id /\ leases'[r].owner = leases[r].owner
      BY <1>8, <1>t DEF Expire, Lease
    <2> QED
      BY <1>8, <2>1, <1>k DEF Expire
  <1>9. CASE UNCHANGED vars
    BY <1>9, <1>k DEF vars
  <1> QED
    BY <1>1, <1>2, <1>3, <1>4, <1>5, <1>6, <1>7, <1>8, <1>9 DEF Next, OwnerStep

-----------------------------------------------------------------------------
\* Whatever the timing, the table stays well formed: TypeOK, and a row id names
\* one row.
THEOREM LeaseTable == Spec => [](TypeOK /\ IdsAreUnique)
  <1>1. Init => Table
    BY InitIInv DEF IInv, Table
  <1> QED
    BY <1>1, TableInductive, PTL DEF Spec, Table

\* Two processes whose sessions end or renew within their ttl never use the same
\* resource at the same time (ExclusiveUse), if no acquire falls between the two
\* steps of a recovery; crashes, reused pids and ids and other processes'
\* overrunning sessions included.
THEOREM LeaseExclusion ==
  ASSUME ~RecoveryRaces
  PROVE  Spec => []ExclusiveUse
  <1>1. IInv /\ [Next]_vars => IInv'
    BY TableInductive, UseInductive DEF IInv, Table
  <1>2. IInv => ExclusiveUse
    BY DEF IInv, UsersHoldLeases, ExclusiveUse, Disciplined
  <1> QED
    BY InitIInv, <1>1, <1>2, PTL DEF Spec

\* A live, unexpired lease stays with its process until that ends the session,
\* also when the session may overrun: no late release or heartbeat, competing
\* acquire or recovery takes it (LiveLeaseIsKept; resources.py:76), if no
\* acquire falls between the two steps of a recovery.
THEOREM LiveLeases ==
  ASSUME ~RecoveryRaces
  PROVE  Spec => LiveLeaseIsKept
  <1> DEFINE KInv == Table /\ RecoverySpares
  <1>1. Init => KInv
    BY InitIInv DEF Init, IInv, Table, RecoverySpares
  <1>2. KInv /\ [Next]_vars => KInv'
    BY TableInductive, SparesInductive
  <1>3. KInv /\ [Next]_vars =>
           [\A o \in Owners, r \in Resources :
               pc[o] = "using" /\ uses[o] = r /\ Mine(o, r) /\ ~leases[r].expired =>
                   pc'[o] # "using" \/ Mine(o, r)']_vars
    BY StepKeepsLeases
  <1> HIDE DEF KInv
  <1> QED
    BY <1>1, <1>2, <1>3, PTL DEF Spec, LiveLeaseIsKept

-----------------------------------------------------------------------------
(***************************************************************************)
(* The verdicts of an audit.  The variables are s1: online, s2: local,     *)
(* s3: held, s4: how, s5: status, s6: reason, s7: repaired.                *)
(***************************************************************************)
\* A verdict of equality was compared to the last byte, and none of the two safe
\* ones passes over a row that is not held.
LEMMA ClassifiedIsSound ==
  ASSUME IsFiniteSet(E!Rows), NEW online \in SUBSET E!Rows, NEW local \in SUBSET E!Rows,
         NEW archived \in BOOLEAN, NEW deep \in BOOLEAN, archived = FALSE => local = {}
  PROVE  /\ E!Classified(online, local, archived, deep) = "matched" =>
                online = local /\ ~E!Unhashed(online)
         /\ E!Classified(online, local, archived, deep) = "historical_retained" =>
                \A o \in online : \E l \in local : l.id = o.id
  <1> DEFINE recognized == Cardinality(online)
             downloaded == E!canonical_downloaded_count(online, local)
             verdict == E!Classified(online, local, archived, deep)
  <1>1. verdict = E!classify_evidence(recognized, downloaded, online, local, archived, deep)
    BY DEF E!Classified, E!Cardinality, Cardinality
  <1>2. verdict = "matched" => online = local /\ ~E!Unhashed(online)
    BY <1>1 DEF E!classify_evidence
  <1>3. ASSUME verdict = "historical_retained", NEW o \in online
        PROVE  \E l \in local : l.id = o.id
    <2>1. ~(recognized > downloaded) /\ (archived => E!Inventory(online) = E!Inventory(local))
      BY <1>1, <1>3 DEF E!classify_evidence
    <2>2. CASE archived
      <3>1. DOMAIN E!Inventory(online) = DOMAIN E!Inventory(local)
        BY <2>1, <2>2
      <3>2. \A rows \in SUBSET E!Rows : DOMAIN E!Inventory(rows) = {row.id : row \in rows}
        BY Zenon DEF E!Inventory, E!Signature, E!OnlyId, E!Quantify
      <3>3. {row.id : row \in online} = {row.id : row \in local}
        BY <3>1, <3>2, Zenon
      <3>4. o.id \in {row.id : row \in local}
        BY <3>3
      <3>5. QED
        BY <3>4
    <2>3. CASE archived = FALSE
      <3>1. local = {} /\ IsFiniteSet(online) /\ online # {}
        BY <2>3, FS_Subset
      <3>2. Cardinality(online) \in Nat /\ Cardinality(online) # 0 /\ Cardinality(local) = 0
        BY <3>1, FS_CardinalityType, FS_EmptySet
      <3>3. downloaded = 0
        BY <3>2 DEF E!canonical_downloaded_count, E!Cardinality, Cardinality
      <3>4. QED
        BY <2>1, <3>2, <3>3
    <2>4. QED
      BY <2>2, <2>3, Zenon
  <1>4. QED
    BY <1>2, <1>3

\* The numbers that are compared are numbers.
LEMMA CountsAreNumbers ==
  ASSUME IsFiniteSet(E!Rows), NEW online \in SUBSET E!Rows, NEW local \in SUBSET E!Rows
  PROVE  /\ E!Cardinality(online) \in Nat /\ E!Cardinality(local) \in Nat
         /\ E!canonical_downloaded_count(online, local) \in Nat
  <1>1. IsFiniteSet(online) /\ IsFiniteSet(local)
    BY FS_Subset
  <1> DEFINE rows == {l \in local : l.bytes # NoBytes}
             hashes == {row.bytes : row \in rows}
  <1>2. IsFiniteSet(rows)
    BY <1>1, FS_Subset
  <1>3. IsFiniteSet(hashes)
    <2> DEFINE f == [row \in rows |-> row.bytes]
    <2>1. f \in Surjection(rows, hashes)
      BY DEF Surjection
    <2>2. QED
      BY <1>2, <2>1, FS_Surjection
  <1>4. Cardinality(online) \in Nat /\ Cardinality(local) \in Nat /\ Cardinality(hashes) \in Nat
    BY <1>1, <1>3, FS_CardinalityType
  <1>5. QED
    BY <1>4 DEF E!canonical_downloaded_count, E!Cardinality, Cardinality

\* An item whose attachments were read, at the audit and after a later batch.
LEMMA ComparedIsSound ==
  ASSUME IsFiniteSet(E!Rows), E!EvidenceInv, s4.kind = "compared"
  PROVE  /\ s6 = E!explain_evidence_difference(s1, s2)
         /\ s5 = "matched" => s1 = s2 /\ ~E!Unhashed(s1)
         /\ s5 = "historical_retained" => \A o \in s1 : \E l \in s2 : l.id = o.id
  <1>1. /\ s1 \in SUBSET E!Rows /\ s2 \in SUBSET E!Rows
        /\ s4.archived \in BOOLEAN /\ s4.depth \in BOOLEAN /\ (s4.archived = FALSE => s2 = {})
    BY DEF E!EvidenceInv, E!Observations
  <1>2. /\ E!Reason(s4, s1, s2) = E!explain_evidence_difference(s1, s2)
        /\ E!Stored(s4, s1) = s1
        /\ E!Status(s4, s1, s2, s3) = E!ComparedStatus(s1, s2, s4.archived, s4.depth)
    BY Zenon DEF E!Reason, E!Stored, E!Status
  <1>3. \/ E!evidence_is_historical_subset(s1, s2) /\ s5 = "historical_retained"
        \/ s5 = E!Classified(s1, s2, s4.archived, s4.depth)
        \/ s5 = E!Classified(s1, s2, TRUE, s4.depth)
    BY <1>2, Zenon DEF E!EvidenceInv, E!ComparedStatus, E!RecomputedStatus, E!Classified
  <1>4. s6 = E!explain_evidence_difference(s1, s2)
    BY <1>2, Zenon DEF E!EvidenceInv
  <1>5. E!evidence_is_historical_subset(s1, s2) => \A o \in s1 : \E l \in s2 : l.id = o.id
    BY DEF E!evidence_is_historical_subset
  <1>6. s5 = "matched" => s1 = s2 /\ ~E!Unhashed(s1)
    <2>1. \A known, deep : E!Classified(s1, s2, known, deep) = "matched"
                            => s1 = s2 /\ ~E!Unhashed(s1)
      BY DEF E!Classified, E!classify_evidence
    <2>2. QED
      BY <1>3, <2>1
  <1>7. s5 = "historical_retained" => \A o \in s1 : \E l \in s2 : l.id = o.id
    BY <1>1, <1>3, <1>5, ClassifiedIsSound, Zenon
  <1>8. QED
    BY <1>4, <1>6, <1>7

\* One whose attachments were listed.
LEMMA ListedIsSound ==
  ASSUME IsFiniteSet(E!Rows), E!EvidenceInv, s4.kind = "listed"
  PROVE  /\ s6 = "inventory_only"
         /\ s5 = "matched" => /\ E!Cardinality(s1) = E!Cardinality(s3) /\ E!Keys(s1) = E!Keys(s3)
                              /\ ~s4.excluded /\ ~s4.depth
  <1>1. /\ s5 = E!Status(s4, s1, s2, s3) /\ s6 = E!Reason(s4, s1, s2)
        /\ s1 \in SUBSET E!Rows /\ s3 \in SUBSET E!Rows
    BY DEF E!EvidenceInv
  <1>2. s5 = E!ListedStatus(s1, s3, s4.excluded, s4.depth) /\ s6 = "inventory_only"
    BY <1>1 DEF E!Status, E!Reason
  <1>3. E!Cardinality(s1) \in Nat /\ E!Cardinality(s3) \in Nat
    BY <1>1, CountsAreNumbers
  <1>4. QED
    BY <1>2, <1>3 DEF E!ListedStatus, E!classify_attachment_counts

\* One of which only the number of attachments was seen.
LEMMA CountedIsSound ==
  ASSUME IsFiniteSet(E!Rows), E!EvidenceInv, s4.kind = "counted"
  PROVE  /\ s6 = "evidence_unavailable" \/ s7 = TRUE
         /\ s5 = "matched" => E!Cardinality(s1) = E!canonical_downloaded_count(s1, s2)
  <1> DEFINE n == E!Cardinality(s1)
             d == E!canonical_downloaded_count(s1, s2)
  <1>1. /\ s1 \in SUBSET E!Rows /\ s2 \in SUBSET E!Rows
        /\ \/ s5 = E!Status(s4, s1, s2, s3) /\ s6 = E!Reason(s4, s1, s2)
           \/ s7 = TRUE /\ s5 = E!RecomputedStatus(n, d, E!Stored(s4, s1), s2, s4.depth)
    BY DEF E!EvidenceInv
  <1>2. n \in Nat /\ d \in Nat
    BY <1>1, CountsAreNumbers
  <1>3. CASE s5 = E!Status(s4, s1, s2, s3) /\ s6 = E!Reason(s4, s1, s2)
    <2>1. s5 = E!CountedStatus(s1, s2) /\ s6 = "evidence_unavailable"
      BY <1>3 DEF E!Status, E!Reason
    <2>2. QED
      BY <1>2, <2>1 DEF E!CountedStatus, E!classify_attachment_counts
  <1>4. CASE s7 = TRUE /\ s5 = E!RecomputedStatus(n, d, E!Stored(s4, s1), s2, s4.depth)
    <2>1. s5 = "matched" => s5 = E!classify_evidence(n, d, E!Stored(s4, s1), s2, TRUE, s4.depth)
      BY <1>4, Zenon DEF E!RecomputedStatus
    <2>2. s5 = "matched" => ~(n > d) /\ ~(n < d)
      BY <2>1 DEF E!classify_evidence
    <2> HIDE DEF n, d
    <2>3. s5 = "matched" => n = d
      BY <1>2, <2>2
    <2>4. s7 = TRUE
      BY <1>4
    <2>5. QED
      BY <2>3, <2>4 DEF n, d
  <1>5. QED
    BY <1>1, <1>3, <1>4

\* Either verdict, of the audit or of the later batch, has the properties.
LEMMA EvidenceHolds ==
  ASSUME IsFiniteSet(E!Rows), E!EvidenceInv
  PROVE  E!SafeMeansHeld /\ E!MatchedMeansEqual /\ E!MissingIsReported
  <1>1. s4.kind \in {"compared", "listed", "counted"}
    BY DEF E!EvidenceInv, E!Observations
  <1>2. CASE s4.kind = "compared"
    <2>1. E!SafeMeansHeld
      BY <1>2, ComparedIsSound DEF E!SafeMeansHeld, E!Safe, E!explain_evidence_difference,
           E!SAFE_COMPARISON_REASONS, E!evidence_is_historical_subset
    <2>2. E!MatchedMeansEqual
      BY <1>2, ComparedIsSound DEF E!MatchedMeansEqual
    <2>3. E!MissingIsReported
      BY <1>2, ComparedIsSound DEF E!MissingIsReported, E!SAFE_AUDIT_STATUSES
    <2>4. QED
      BY <2>1, <2>2, <2>3
  <1>3. CASE s4.kind = "listed"
    <2>1. E!SafeMeansHeld
      BY <1>3, ListedIsSound DEF E!SafeMeansHeld, E!Safe, E!SAFE_COMPARISON_REASONS
    <2>2. E!MatchedMeansEqual
      BY <1>3, ListedIsSound DEF E!MatchedMeansEqual
    <2>3. E!MissingIsReported
      BY <1>3, ListedIsSound DEF E!MissingIsReported, E!Safe, E!SAFE_COMPARISON_REASONS
    <2>4. QED
      BY <2>1, <2>2, <2>3
  <1>4. CASE s4.kind = "counted"
    <2>1. E!SafeMeansHeld
      BY <1>4, CountedIsSound DEF E!SafeMeansHeld, E!Safe, E!SAFE_COMPARISON_REASONS
    <2>2. E!MatchedMeansEqual
      BY <1>4, CountedIsSound DEF E!MatchedMeansEqual
    <2>3. E!MissingIsReported
      BY <1>4 DEF E!MissingIsReported
    <2>4. QED
      BY <2>1, <2>2, <2>3
  <1>5. QED
    BY <1>1, <1>2, <1>3, <1>4

\* An item counts as safe only if every attachment that OA shows is held with the
\* same bytes.  It is called matched, where the attachments were read, only if all
\* bytes are equal, and where they were listed or counted if the keys, or the
\* numbers, are; one that is not held at all is reported where it was read, and
\* never called matched where it was listed.  So at the audit and after a later
\* batch recomputed the verdict, for any finite number of attachments
\* (VerdictIsSound; online_audit.py).  The one exception is named there: what is
\* recomputed of an item that was only counted.
THEOREM VerdictsAreSound ==
  ASSUME IsFiniteSet(E!Rows)
  PROVE  AllSpec => []VerdictIsSound
  <1> DEFINE Inv == which = "evidence" => E!EvidenceInv
  <1>1. AllInit => Inv
    BY DEF AllInit, E!Init, E!EvidenceInv
  <1>2. Inv /\ [AllNext]_all => Inv'
    <2> SUFFICES ASSUME which = "evidence", E!EvidenceInv, [AllNext]_all PROVE E!EvidenceInv'
      BY DEF AllNext, all
    <2>1. CASE UNCHANGED <<s1, s2, s3, s4, s5, s6, s7>>
      BY <2>1 DEF E!EvidenceInv
    <2>2. CASE E!Repair
      <3>1. s4.kind # "listed"
        BY <2>2 DEF E!EvidenceInv, E!Repair, E!Reason
      <3>2. QED
        BY <2>2, <3>1 DEF E!EvidenceInv, E!Repair
    <2>3. QED
      BY <2>1, <2>2 DEF AllNext, all, slots, Slots7to19, Slots7to11, E!Next
  <1>3. Inv => VerdictIsSound
    BY EvidenceHolds DEF VerdictIsSound
  <1> QED
    BY <1>1, <1>2, <1>3, PTL DEF AllSpec

-----------------------------------------------------------------------------
(***************************************************************************)
(* The clean-up.  Its variables are s1: disk, s2: pending, s3: shelf,      *)
(* s4: runs, s5: procs, s6: erased, s7: disturbed, s8: spent.              *)
(*                                                                         *)
(* What a command may move follows from its list of files (Programs),      *)
(* which stays inside its run's plan, and from the plan itself (Plans),    *)
(* which holds nothing that was protected or referenced when it was made,  *)
(* never changes the hash it saw, and has of the backups only those with   *)
(* two newer ones and a newer one of their week (PlannedAreOld).  What the *)
(* ledger will say when a command commits is what it intends for every     *)
(* file (Works); once it has committed, that is LedgerIsTrue.              *)
(***************************************************************************)
LEMMA SameCardinality == \A S : CR!Cardinality(S) = Cardinality(S)
  BY DEF CR!Cardinality, Cardinality

LEMMA SameFinite == \A S : CR!IsFiniteSet(S) <=> IsFiniteSet(S)
  BY DEF CR!IsFiniteSet, IsFiniteSet

\* The next file of a command is one of its list.
LEMMA SmallestIsIn ==
  ASSUME CR!Numbered, NEW s \in SUBSET CR!Files, s # {}
  PROVE  CR!Smallest(s) \in s
  <1>1. s \subseteq Nat
    BY DEF CR!Numbered
  <1>2. PICK n \in s : \A m \in s : ~(<<m, n>> \in OpToRel(<, Nat))
    BY <1>1, NatLessThanWellFounded, WFMin, Zenon
  <1>3. \A m \in s : n <= m
    <2> SUFFICES ASSUME NEW m \in s PROVE n <= m
      OBVIOUS
    <2>1. m \in Nat /\ n \in Nat
      BY <1>1
    <2>2. ~(m < n)
      BY <1>2, <2>1, Zenon DEF OpToRel
    <2> QED
      BY <2>1, <2>2
  <1> QED
    BY <1>3 DEF CR!Smallest

\* The quarantine is empty and nothing planned at first.
LEMMA InitCInv == CR!Init => CR!CInv
  <1> SUFFICES ASSUME CR!Init PROVE CR!CInv
    OBVIOUS
  <1>1. DOMAIN CR!NoRun = {"status", "aged", "items"} /\ CR!NoRun.status = "none"
        /\ CR!NoRun.items = <<>>
    BY DEF CR!NoRun
  <1>2. DOMAIN <<>> = {}
    OBVIOUS
  <1>3. CR!Plans
    BY <1>1, <1>2 DEF CR!Init, CR!Plans
  <1>4. CR!Programs
    BY DEF CR!Init, CR!Programs, CR!Idle
  <1>5. CR!Places
    BY DEF CR!Init, CR!Places
  <1>6. CR!Erasures /\ CR!OnlyPlannedIsErased
    BY DEF CR!Init, CR!Erasures, CR!OnlyPlannedIsErased
  <1> QED
    BY <1>3, <1>4, <1>5, <1>6 DEF CR!CInv

-----------------------------------------------------------------------------
\* A new plan: its run had none before.
LEMMA CleanupPlan ==
  ASSUME CR!Numbered, CR!CInv, CR!build_cleanup_plan
  PROVE  CR!CInv'
  <1>1. PICK r \in Runs, categories \in SUBSET {"expired_backups", "sent_pending_orphans"} :
           /\ s4[r].status = "none"
           /\ s4' = [s4 EXCEPT ![r] =
                  [status |-> "planned", aged |-> FALSE,
                   items |-> [f \in CR!inventory_candidates(categories) \ Protected |->
                                  [status |-> "planned", sha |-> s1[f]]]]]
           /\ UNCHANGED <<s1, s2, s3, s5, s6, s7, s8>>
    BY Zenon DEF CR!build_cleanup_plan
  <1> DEFINE planned == CR!inventory_candidates(categories) \ Protected
             run == [status |-> "planned", aged |-> FALSE,
                     items |-> [f \in planned |-> [status |-> "planned", sha |-> s1[f]]]]
  <1>2. \A f \in planned : f \in CR!Files /\ f \notin Protected /\ f \notin s2.referenced
    <2>1. s2.referenced \cap Backups = {}
      BY DEF CR!CInv, CR!Plans, CR!Numbered
    <2> QED
      BY <2>1 DEF CR!inventory_candidates, CR!Files
  <1>3. /\ DOMAIN s4' = Runs /\ s4'[r] = run
        /\ \A q \in Runs \ {r} : s4'[q] = s4[q]
    BY <1>1 DEF CR!CInv, CR!Plans
  <1>4. /\ DOMAIN run = {"status", "aged", "items"} /\ run.status = "planned"
        /\ DOMAIN run.items = planned
        /\ \A f \in planned : DOMAIN run.items[f] = {"status", "sha"}
    OBVIOUS
  <1>5. DOMAIN s4[r].items = {}
    BY <1>1 DEF CR!CInv, CR!Plans
  <1> HIDE DEF run, planned
  <1>6. CR!Plans'
    BY <1>1, <1>2, <1>3, <1>4 DEF CR!CInv, CR!Plans
  <1>7. CR!Programs'
    BY <1>1, <1>3 DEF CR!CInv, CR!Programs
  <1>8. CR!Places'
    BY <1>1 DEF CR!CInv, CR!Places
  <1>9. CR!Erasures' /\ CR!OnlyPlannedIsErased'
    BY <1>1, <1>3, <1>5 DEF CR!CInv, CR!Erasures, CR!OnlyPlannedIsErased
  <1> QED
    BY <1>6, <1>7, <1>8, <1>9 DEF CR!CInv

-----------------------------------------------------------------------------
\* A step of no command that writes files at their own paths, or drops the row
\* that names one.
LEMMA CleanupOthers ==
  ASSUME CR!CInv,
         UNCHANGED <<s3, s4, s5, s6>>,
         DOMAIN s1' = CR!Files,
         s2'.referenced \subseteq s2.referenced
  PROVE  CR!CInv'
  <1>1. CR!Plans'
    BY DEF CR!CInv, CR!Plans
  <1>2. CR!Programs'
    BY DEF CR!CInv, CR!Programs
  <1>3. CR!Places'
    BY DEF CR!CInv, CR!Places
  <1>4. CR!Erasures' /\ CR!OnlyPlannedIsErased'
    BY DEF CR!CInv, CR!Erasures, CR!OnlyPlannedIsErased
  <1> QED
    BY <1>1, <1>2, <1>3, <1>4 DEF CR!CInv

\* A step that only writes statuses and ages of runs, and stops commands.
LEMMA CleanupStatus ==
  ASSUME CR!CInv,
         UNCHANGED <<s1, s2, s3, s6>>,
         DOMAIN s4' = Runs,
         \A r \in Runs :
            /\ DOMAIN s4'[r] = {"status", "aged", "items"}
            /\ s4'[r].status = "none" <=> s4[r].status = "none"
            /\ DOMAIN s4'[r].items = DOMAIN s4[r].items
            /\ \A f \in DOMAIN s4[r].items :
                  /\ DOMAIN s4'[r].items[f] = {"status", "sha"}
                  /\ s4'[r].items[f].sha = s4[r].items[f].sha,
         DOMAIN s5' = Commands,
         \A c \in Commands : s5'[c] = s5[c] \/ s5'[c] = CR!Idle
  PROVE  CR!CInv'
  <1>1. CR!Plans'
    BY DEF CR!CInv, CR!Plans
  <1>2. CR!Programs'
    BY DEF CR!CInv, CR!Programs
  <1>3. CR!Places'
    BY DEF CR!CInv, CR!Places
  <1>4. CR!Erasures' /\ CR!OnlyPlannedIsErased'
    BY DEF CR!CInv, CR!Erasures, CR!OnlyPlannedIsErased
  <1> QED
    BY <1>1, <1>2, <1>3, <1>4 DEF CR!CInv

\* A command reads its run and the files that are its matter.
LEMMA CleanupLoad ==
  ASSUME CR!CInv, NEW c \in Commands, NEW r \in Runs,
         NEW command \in {"quarantine", "restore", "purge"}, NEW todo,
         todo \subseteq DOMAIN s4[r].items, s4[r].status # "none",
         command = "purge" => s4[r].aged,
         CR!Load(c, command, r, todo)
  PROVE  CR!CInv'
  <1>1. /\ DOMAIN s5' = Commands /\ s5'[c] = CR!Loaded(command, r, todo)
        /\ \A d \in Commands \ {c} : s5'[d] = s5[d]
        /\ UNCHANGED <<s1, s2, s3, s4, s6>>
    BY DEF CR!Load, CR!CInv, CR!Programs
  <1> DEFINE p == CR!Loaded(command, r, todo)
  <1>2. /\ DOMAIN p = CR!Fields /\ p.command = command /\ p.run = r
        /\ p.todo = todo /\ p.waited = s4[r].aged /\ ~p.failed
    BY DEF CR!Loaded, CR!Fields
  <1> HIDE DEF p
  <1>3. CR!Plans'
    BY <1>1 DEF CR!CInv, CR!Plans
  <1>4. CR!Programs'
    BY <1>1, <1>2 DEF CR!CInv, CR!Programs, p
  <1>5. CR!Places'
    BY <1>1 DEF CR!CInv, CR!Places
  <1>6. CR!Erasures' /\ CR!OnlyPlannedIsErased'
    BY <1>1 DEF CR!CInv, CR!Erasures, CR!OnlyPlannedIsErased
  <1> QED
    BY <1>3, <1>4, <1>5, <1>6 DEF CR!CInv

\* What one file of a command leaves of its list.
LEMMA CleanupList ==
  ASSUME CR!CInv, NEW c \in Commands, s5[c] # CR!Idle,
         UNCHANGED <<s2, s4>>,
         DOMAIN s5' = Commands,
         \A d \in Commands \ {c} : s5'[d] = s5[d],
         DOMAIN s5'[c] = CR!Fields, s5'[c].command = s5[c].command,
         s5'[c].run = s5[c].run, s5'[c].waited = s5[c].waited,
         s5[c].command = "purge" => s5'[c].failed = s5[c].failed,
         s5'[c].todo \subseteq s5[c].todo,
         CR!Places', CR!Erasures', CR!OnlyPlannedIsErased'
  PROVE  CR!CInv'
  <1>1. CR!Plans'
    BY DEF CR!CInv, CR!Plans
  <1>2. CR!Programs'
    BY DEF CR!CInv, CR!Programs
  <1> QED
    BY <1>1, <1>2 DEF CR!CInv

\* The command goes on with its list.
LEMMA CleanupRemember ==
  ASSUME CR!CInv, NEW c \in Commands, s5[c] # CR!Idle, NEW f, NEW status,
         CR!Remember(c, f, status)
  PROVE  /\ DOMAIN s5' = Commands
         /\ \A d \in Commands \ {c} : s5'[d] = s5[d]
         /\ DOMAIN s5'[c] = CR!Fields /\ s5'[c].command = s5[c].command
         /\ s5'[c].run = s5[c].run /\ s5'[c].waited = s5[c].waited
         /\ s5'[c].failed = s5[c].failed
         /\ s5'[c].todo \subseteq s5[c].todo
  <1>1. DOMAIN s5 = Commands /\ DOMAIN s5[c] = CR!Fields
    BY DEF CR!CInv, CR!Programs
  <1>2. PICK changes :
           s5' = [s5 EXCEPT ![c].todo = @ \ {f}, ![c].changes = changes]
    BY DEF CR!Remember
  <1>3. s5'[c] = [s5[c] EXCEPT !.todo = @ \ {f}, !.changes = changes]
    BY <1>1, <1>2
  <1> QED
    BY <1>1, <1>2, <1>3 DEF CR!Fields

\* One file of a command, whichever command it is.
LEMMA CleanupFile ==
  ASSUME CR!Numbered, CR!CInv, NEW c \in Commands, NEW f \in CR!Files,
         CR!QuarantineFile(c, f) \/ CR!RestoreFile(c, f) \/ CR!PurgeFile(c, f)
  PROVE  CR!CInv'
  <1> DEFINE r == s5[c].run
  <1>1. /\ s5[c] # CR!Idle
        /\ s5[c].todo # {} /\ f = CR!Smallest(s5[c].todo)
        /\ UNCHANGED <<s2, s4>>
    BY DEF CR!QuarantineFile, CR!RestoreFile, CR!PurgeFile, CR!At, CR!Idle
  <1>2. /\ r \in Runs /\ s5[c].todo \subseteq DOMAIN s4[r].items
        /\ DOMAIN s5 = Commands /\ DOMAIN s5[c] = CR!Fields
    BY <1>1 DEF CR!CInv, CR!Programs
  <1>3. s5[c].todo \in SUBSET CR!Files
    BY <1>2 DEF CR!CInv, CR!Plans
  <1>4. f \in DOMAIN s4[r].items
    BY <1>1, <1>2, <1>3, SmallestIsIn
  <1>5. f \notin Protected /\ f \notin s2.referenced
    BY <1>2, <1>4 DEF CR!CInv, CR!Plans
  <1>p. DOMAIN s1 = CR!Files /\ DOMAIN s3 = Runs /\ \A q \in Runs : DOMAIN s3[q] = CR!Files
    BY DEF CR!CInv, CR!Places
  \* The shelf of one run changes in one place, to nothing or to what was planned.
  <1>s. ASSUME NEW content, content = NoBytes \/ content = s4[r].items[f].sha,
               s3' = [s3 EXCEPT ![r][f] = content],
               DOMAIN s1' = CR!Files
        PROVE  /\ CR!Places'
               /\ s6' = s6 => CR!Erasures' /\ CR!OnlyPlannedIsErased'
               /\ \A q \in Runs, g \in CR!Files :
                     s3'[q][g] # NoBytes => /\ g \in DOMAIN s4[q].items /\ g \notin Protected
                                            /\ g \notin s2.referenced
                                            /\ s3'[q][g] = s4[q].items[g].sha
    <2>1. /\ DOMAIN s3' = Runs /\ \A q \in Runs : DOMAIN s3'[q] = CR!Files
          /\ \A q \in Runs, g \in CR!Files :
                s3'[q][g] = IF q = r /\ g = f THEN content ELSE s3[q][g]
      BY <1>2, <1>s, <1>p
    <2>2. CR!Places'
      BY <2>1, <1>s DEF CR!Places
    <2>3. \A q \in Runs, g \in CR!Files :
             s3'[q][g] # NoBytes => /\ g \in DOMAIN s4[q].items /\ g \notin Protected
                                    /\ g \notin s2.referenced
                                    /\ s3'[q][g] = s4[q].items[g].sha
      BY <2>1, <1>s, <1>4, <1>5 DEF CR!CInv, CR!OnlyPlannedIsErased
    <2>4. s6' = s6 => CR!Erasures' /\ CR!OnlyPlannedIsErased'
      BY <2>3, <1>1 DEF CR!CInv, CR!Erasures, CR!OnlyPlannedIsErased
    <2> QED
      BY <2>2, <2>3, <2>4
  <1>6. CASE CR!QuarantineFile(c, f)
    <2>1. PICK status : CR!Remember(c, f, status)
      BY <1>6 DEF CR!QuarantineFile
    <2>2. CR!Places' /\ CR!Erasures' /\ CR!OnlyPlannedIsErased'
      <3>1. CASE CR!Takeable(r, f) /\ s3[r][f] = NoBytes
        <4>1. /\ s3' = [s3 EXCEPT ![r][f] = s1[f]]
              /\ s1' = [s1 EXCEPT ![f] = NoBytes] /\ s6' = s6
          BY <1>6, <3>1 DEF CR!QuarantineFile
        <4>2. s1[f] = s4[r].items[f].sha /\ DOMAIN s1' = CR!Files
          BY <3>1, <4>1, <1>p DEF CR!Takeable
        <4> QED
          BY <4>1, <4>2, <1>s, Zenon
      <3>2. CASE ~(CR!Takeable(r, f) /\ s3[r][f] = NoBytes)
        <4>1. UNCHANGED <<s3, s1, s6>>
          BY <1>6, <3>2 DEF CR!QuarantineFile
        <4> QED
          BY <4>1, <1>1 DEF CR!CInv, CR!Places, CR!Erasures, CR!OnlyPlannedIsErased
      <3> QED
        BY <3>1, <3>2
    <2> QED
      BY <1>1, <2>1, <2>2, CleanupRemember, CleanupList
  <1>7. CASE CR!RestoreFile(c, f)
    <2>1. CASE s1[f] = NoBytes /\ s3[r][f] # NoBytes
      <3>1. /\ s3' = [s3 EXCEPT ![r][f] = NoBytes]
            /\ s1' = [s1 EXCEPT ![f] = s3[r][f]] /\ s6' = s6
            /\ CR!Remember(c, f, "restored")
        BY <1>7, <2>1 DEF CR!RestoreFile
      <3>2. DOMAIN s1' = CR!Files
        BY <3>1, <1>p
      <3>3. CR!Places' /\ CR!Erasures' /\ CR!OnlyPlannedIsErased'
        BY <3>1, <3>2, <1>s, Zenon
      <3> QED
        BY <1>1, <3>1, <3>3, CleanupRemember, CleanupList
    <2>2. CASE ~(s1[f] = NoBytes /\ s3[r][f] # NoBytes)
      <3>1. /\ UNCHANGED <<s1, s3, s6>>
            /\ s5' = [s5 EXCEPT ![c].todo = @ \ {f}, ![c].failed = TRUE]
        BY <1>7, <2>2, Zenon DEF CR!RestoreFile
      <3>2. s5'[c] = [s5[c] EXCEPT !.todo = @ \ {f}, !.failed = TRUE]
        BY <3>1, <1>2
      <3>3. /\ DOMAIN s5' = Commands
            /\ \A d \in Commands \ {c} : s5'[d] = s5[d]
            /\ DOMAIN s5'[c] = CR!Fields /\ s5'[c].command = s5[c].command
            /\ s5'[c].run = s5[c].run /\ s5'[c].waited = s5[c].waited
            /\ s5[c].command # "purge"
            /\ s5'[c].todo \subseteq s5[c].todo
        BY <1>7, <3>1, <3>2, <1>2 DEF CR!Fields, CR!RestoreFile, CR!At
      <3>4. CR!Places' /\ CR!Erasures' /\ CR!OnlyPlannedIsErased'
        BY <3>1, <1>1 DEF CR!CInv, CR!Places, CR!Erasures, CR!OnlyPlannedIsErased
      <3> QED
        BY <1>1, <3>3, <3>4, CleanupList
    <2> QED
      BY <2>1, <2>2
  <1>8. CASE CR!PurgeFile(c, f)
    <2>1. /\ s3' = [s3 EXCEPT ![r][f] = NoBytes]
          /\ CR!Remember(c, f, "purged") /\ s1' = s1
          /\ s6' = IF s3[r][f] = NoBytes THEN s6
                       ELSE s6 \cup {<<r, f, s3[r][f], s5[c].waited>>}
          /\ s5[c].command = "purge"
      BY <1>8 DEF CR!PurgeFile, CR!At
    <2>2. s5[c].waited
      BY <1>1, <2>1 DEF CR!CInv, CR!Programs
    <2>3. /\ CR!Places'
          /\ s6' = s6 => CR!Erasures' /\ CR!OnlyPlannedIsErased'
          /\ \A q \in Runs, g \in CR!Files :
                s3'[q][g] # NoBytes => /\ g \in DOMAIN s4[q].items /\ g \notin Protected
                                       /\ g \notin s2.referenced
                                       /\ s3'[q][g] = s4[q].items[g].sha
      BY <2>1, <1>s, <1>p, Zenon
    <2>4. CASE s3[r][f] = NoBytes
      BY <2>1, <2>3, <2>4, <1>1, CleanupRemember, CleanupList
    <2>5. CASE s3[r][f] # NoBytes
      <3> DEFINE e == <<r, f, s3[r][f], s5[c].waited>>
      <3>1. e[1] = r /\ e[2] = f /\ e[3] = s3[r][f] /\ e[4] = s5[c].waited
        OBVIOUS
      <3>2. s3[r][f] = s4[r].items[f].sha
        BY <2>5, <1>2 DEF CR!CInv, CR!OnlyPlannedIsErased
      <3>3. s6' = s6 \cup {e}
        BY <2>1, <2>5
      <3> HIDE DEF e
      <3>4. CR!Erasures'
        BY <3>1, <3>3, <1>1, <1>2, <1>4 DEF CR!CInv, CR!Erasures
      <3>5. CR!OnlyPlannedIsErased'
        BY <2>2, <2>3, <3>1, <3>2, <3>3, <1>1, Zenon DEF CR!CInv, CR!OnlyPlannedIsErased
      <3> QED
        BY <2>1, <2>3, <3>4, <3>5, <1>1, CleanupRemember, CleanupList
    <2> QED
      BY <2>4, <2>5
  <1> QED
    BY <1>6, <1>7, <1>8

\* The statuses of what a command changed are written over those of its run.
LEMMA CleanupCommit ==
  ASSUME CR!CInv, NEW c \in Commands, CR!Commit(c)
  PROVE  CR!CInv'
  <1> DEFINE p == s5[c]
             r == s5[c].run
             status == IF CR!Result(p) = p.loaded THEN s4[r].status ELSE CR!Result(p)
             aged == s4[r].aged /\ p.command = "restore"
             rowsNow == [f \in DOMAIN s4[r].items |->
                          IF f \in DOMAIN p.changes
                          THEN [s4[r].items[f] EXCEPT !.status = p.changes[f]]
                          ELSE s4[r].items[f]]
  <1>1. r \in Runs /\ s4[r].status # "none" /\ DOMAIN s4 = Runs
        /\ DOMAIN s4[r] = {"status", "aged", "items"}
    BY DEF CR!Commit, CR!CInv, CR!Programs, CR!Plans
  <1>2. UNCHANGED <<s1, s2, s3, s6>>
    BY DEF CR!Commit
  <1>3. p.command \in {"quarantine", "restore", "purge"}
    BY DEF CR!Commit, CR!CInv, CR!Programs
  <1>4. status # "none"
    BY <1>1, <1>3 DEF CR!Result
  <1>5. s4' = [s4 EXCEPT ![r].status = status, ![r].aged = aged, ![r].items = rowsNow]
    BY <1>1 DEF CR!Commit
  <1>6. \A f \in DOMAIN s4[r].items :
           DOMAIN rowsNow[f] = {"status", "sha"} /\ rowsNow[f].sha = s4[r].items[f].sha
    BY <1>1 DEF CR!CInv, CR!Plans
  <1>7. DOMAIN rowsNow = DOMAIN s4[r].items
    OBVIOUS
  <1> HIDE DEF rowsNow, status, aged
  <1>8. s4'[r] = [s4[r] EXCEPT !.status = status, !.aged = aged, !.items = rowsNow]
    BY <1>1, <1>5, Zenon
  <1>9. /\ DOMAIN s4'[r] = {"status", "aged", "items"}
        /\ s4'[r].status = status /\ s4'[r].items = rowsNow
    BY <1>1, <1>8
  <1>10. DOMAIN s4' = Runs /\ \A q \in Runs \ {r} : s4'[q] = s4[q]
    BY <1>1, <1>5
  <1>11. \A q \in Runs :
            /\ DOMAIN s4'[q] = {"status", "aged", "items"}
            /\ s4'[q].status = "none" <=> s4[q].status = "none"
            /\ DOMAIN s4'[q].items = DOMAIN s4[q].items
            /\ \A f \in DOMAIN s4[q].items :
                  /\ DOMAIN s4'[q].items[f] = {"status", "sha"}
                  /\ s4'[q].items[f].sha = s4[q].items[f].sha
    BY <1>1, <1>4, <1>6, <1>7, <1>9, <1>10 DEF CR!CInv, CR!Plans
  <1>12. DOMAIN s5' = Commands /\ \A d \in Commands : s5'[d] = s5[d] \/ s5'[d] = CR!Idle
    BY DEF CR!Commit, CR!CInv, CR!Programs
  <1> QED
    BY <1>2, <1>10, <1>11, <1>12, CleanupStatus

\* Plans, lists and places stay what they are, and nothing else is erased.
LEMMA CInvStep ==
  ASSUME CR!Numbered
  PROVE  CR!CInv /\ [CR!Next]_(CR!vars) => CR!CInv'
  <1> SUFFICES ASSUME CR!CInv, [CR!Next]_(CR!vars) PROVE CR!CInv'
    OBVIOUS
  <1>1. CASE CR!build_cleanup_plan
    BY <1>1, CleanupPlan
  <1>2. CASE CR!SevenDaysPass
    <2>1. /\ s4' = [r \in Runs |-> [s4[r] EXCEPT !.aged = s4[r].status = "quarantined"]]
          /\ UNCHANGED <<s1, s2, s3, s5, s6>>
      BY <1>2 DEF CR!SevenDaysPass
    <2>2. \A r \in Runs : /\ DOMAIN s4'[r] = {"status", "aged", "items"}
                          /\ s4'[r].status = s4[r].status
                          /\ s4'[r].items = s4[r].items
      BY <2>1 DEF CR!CInv, CR!Plans
    <2>3. /\ DOMAIN s4' = Runs /\ DOMAIN s5' = Commands
          /\ \A r \in Runs : \A f \in DOMAIN s4[r].items :
                DOMAIN s4'[r].items[f] = {"status", "sha"}
      BY <2>1, <2>2 DEF CR!CInv, CR!Plans, CR!Programs
    <2> QED
      BY <2>1, <2>2, <2>3, CleanupStatus
  <1>3. CASE CR!NewBackup \/ CR!WriteOrphan \/ CR!CleanPending
    <2>1. UNCHANGED <<s3, s4, s5, s6>>
      BY <1>3 DEF CR!NewBackup, CR!WriteOrphan, CR!CleanPending, CR!Change
    <2>2. DOMAIN s1' = CR!Files
      BY <1>3 DEF CR!NewBackup, CR!WriteOrphan, CR!CleanPending, CR!CInv, CR!Places
    <2>3. s2'.referenced \subseteq s2.referenced
      BY <1>3 DEF CR!NewBackup, CR!WriteOrphan, CR!CleanPending
    <2> QED
      BY <2>1, <2>2, <2>3, CleanupOthers
  <1>4. ASSUME NEW c \in Commands, NEW r \in Runs,
               CR!StartQuarantine(c, r) \/ CR!StartRestore(c, r) \/ CR!StartPurge(c, r)
        PROVE  CR!CInv'
    <2>1. \A status : CR!InStatus(r, status) \subseteq DOMAIN s4[r].items
      BY DEF CR!InStatus
    <2> QED
      BY <1>4, <2>1, CleanupLoad DEF CR!StartQuarantine, CR!StartRestore, CR!StartPurge
  <1>5. ASSUME NEW c \in Commands, NEW f \in CR!Files,
               CR!QuarantineFile(c, f) \/ CR!RestoreFile(c, f) \/ CR!PurgeFile(c, f)
        PROVE  CR!CInv'
    BY <1>5, CleanupFile
  <1>6. ASSUME NEW c \in Commands, CR!Commit(c) PROVE CR!CInv'
    BY <1>6, CleanupCommit
  <1>7. ASSUME NEW c \in Commands, CR!Interrupt(c) PROVE CR!CInv'
    <2>1. /\ s5' = [s5 EXCEPT ![c] = CR!Idle] 
          /\ UNCHANGED <<s1, s2, s3, s4, s6>>
      BY <1>7 DEF CR!Interrupt
    <2>2. /\ DOMAIN s5' = Commands
          /\ \A d \in Commands : s5'[d] = s5[d] \/ s5'[d] = CR!Idle
      BY <2>1 DEF CR!CInv, CR!Programs
    <2> QED
      BY <2>1, <2>2, CleanupStatus DEF CR!CInv, CR!Plans
  <1>8. CASE UNCHANGED CR!vars
    BY <1>8, CleanupOthers DEF CR!vars, CR!CInv, CR!Places
  <1> QED
    BY <1>1, <1>2, <1>3, <1>4, <1>5, <1>6, <1>7, <1>8 DEF CR!Next

-----------------------------------------------------------------------------
\* Two elements make a cardinality of two.
LEMMA TwoElements ==
  ASSUME NEW T, IsFiniteSet(T)
  PROVE  Cardinality(T) < 2 <=> ~ \E x, y \in T : x # y
  <1>1. Cardinality(T) \in Nat /\ (Cardinality(T) = 0 <=> T = {})
    BY FS_CardinalityType, FS_EmptySet
  <1>2. CASE T = {}
    BY <1>1, <1>2
  <1>3. CASE T # {}
    <2>1. PICK x \in T : TRUE
      BY <1>3
    <2> DEFINE rest == T \ {x}
    <2>2. IsFiniteSet(rest) /\ Cardinality(rest) = Cardinality(T) - 1
      BY <2>1, FS_RemoveElement
    <2>3. rest = {} <=> ~ \E y, z \in T : y # z
      BY <2>1
    <2> HIDE DEF rest
    <2>4. Cardinality(rest) = 0 <=> rest = {}
      BY <2>2, FS_EmptySet, Zenon
    <2>5. QED
      BY <1>1, <1>3, <2>2, <2>3, <2>4
  <1>4. QED
    BY <1>2, <1>3

\* Two newer elements keep an element from being one of the newest two.
LEMMA NewestTwo ==
  ASSUME NEW S, IsFiniteSet(S), NEW b \in S
  PROVE  b \notin CR!Newest(S, 2) <=> \E x, y \in S : x # y /\ x > b /\ y > b
  <1> DEFINE T == {a \in S : a > b}
  <1>1. IsFiniteSet(T)
    BY FS_Subset
  <1>2. b \in CR!Newest(S, 2) <=> Cardinality(T) < 2
    BY SameCardinality DEF CR!Newest
  <1>3. (\E x, y \in T : x # y) <=> \E x, y \in S : x # y /\ x > b /\ y > b
    OBVIOUS
  <1> HIDE DEF T
  <1>4. QED
    BY <1>1, <1>2, <1>3, TwoElements

\* The backups that are planned have two newer ones, and a newer one of their week.
LEMMA CandidatesAreOld ==
  ASSUME CR!Numbered, NEW categories, NEW b \in Backups, b \in CR!inventory_candidates(categories)
  PROVE  /\ \E x, y \in CR!Made : x # y /\ x > b /\ y > b
         /\ \E x \in CR!Made : Week[x] = Week[b] /\ x > b
  <1> DEFINE S == {a \in Backups : s1[a] # NoBytes}
             rest == S \ CR!Newest(S, 2)
  <1>1. S \subseteq CR!Made /\ S \subseteq Nat /\ IsFiniteSet(S)
    BY FS_Subset, SameFinite DEF CR!Made, CR!Numbered, CR!Files
  <1>2. b \in S \ CR!Retained(S)
    BY DEF CR!inventory_candidates, CR!Numbered
  <1>3. b \in rest /\ ~ \A a \in rest : Week[a] = Week[b] => a <= b
    BY <1>2 DEF CR!Retained
  <1>4. \E x, y \in S : x # y /\ x > b /\ y > b
    BY <1>1, <1>3, NewestTwo
  <1>5. PICK a \in rest : Week[a] = Week[b] /\ ~(a <= b)
    BY <1>3
  <1>6. a \in S /\ a > b
    BY <1>1, <1>3, <1>5
  <1>7. QED
    BY <1>1, <1>4, <1>5, <1>6

\* Which is why no retained backup can be missing.
LEMMA OldKeepsRetained ==
  ASSUME CR!Numbered, CR!PlannedAreOld
  PROVE  CR!BackupsStay
  <1> SUFFICES ASSUME NEW b \in CR!Made, s1[b] = NoBytes
               PROVE  /\ b \notin CR!Newest(CR!Made, 2)
                      /\ \E a \in CR!Made : Week[a] = Week[b] /\ ~(a <= b)
    BY DEF CR!BackupsStay
  <1>1. CR!Made \subseteq Nat /\ IsFiniteSet(CR!Made) /\ b \in Backups
    BY FS_Subset, SameFinite DEF CR!Made, CR!Numbered, CR!Files
  <1>2. /\ \E x, y \in CR!Made : x # y /\ x > b /\ y > b
        /\ \E x \in CR!Made : Week[x] = Week[b] /\ x > b
    BY <1>1 DEF CR!Made, CR!PlannedAreOld
  <1>3. b \notin CR!Newest(CR!Made, 2)
    BY <1>1, <1>2, NewestTwo
  <1>4. PICK a \in CR!Made : Week[a] = Week[b] /\ a > b
    BY <1>2
  <1>5. ~(a <= b)
    <2>1. a \in Nat /\ b \in Nat
      BY <1>1
    <2>2. QED
      BY <1>4, <2>1
  <1>6. QED
    BY <1>3, <1>4, <1>5

\* A backup that was made stays made, and only the inventory plans one.
LEMMA OldStep ==
  ASSUME CR!Numbered, CR!CInv, CR!PlannedAreOld, [CR!Next]_(CR!vars)
  PROVE  CR!PlannedAreOld'
  <1>1. /\ \A r \in Runs : DOMAIN s4[r].items \subseteq DOMAIN s4'[r].items
        /\ \A r \in Runs : \A b \in Backups :
              b \in DOMAIN s4'[r].items =>
                  \/ b \in DOMAIN s4[r].items
                  \/ \E categories : b \in CR!inventory_candidates(categories)
    <2>1. CASE CR!build_cleanup_plan
      <3>1. PICK r \in Runs, categories \in SUBSET {"expired_backups", "sent_pending_orphans"} :
               /\ s4[r].status = "none"
               /\ s4' = [s4 EXCEPT ![r] =
                      [status |-> "planned", aged |-> FALSE,
                       items |-> [f \in CR!inventory_candidates(categories) \ Protected |->
                                      [status |-> "planned", sha |-> s1[f]]]]]
        BY <2>1, Zenon DEF CR!build_cleanup_plan
      <3>2. /\ DOMAIN s4'[r].items \subseteq CR!inventory_candidates(categories)
            /\ \A q \in Runs \ {r} : s4'[q] = s4[q]
        BY <3>1 DEF CR!CInv, CR!Plans
      <3>3. DOMAIN s4[r].items = {}
        BY <3>1 DEF CR!CInv, CR!Plans
      <3>4. QED
        BY <3>2, <3>3
    <2>2. CASE CR!SevenDaysPass
      <3>1. \A r \in Runs : s4'[r].items = s4[r].items
        BY <2>2 DEF CR!SevenDaysPass, CR!CInv, CR!Plans
      <3>2. QED
        BY <3>1
    <2>3. ASSUME NEW c \in Commands, CR!Commit(c)
          PROVE  \A r \in Runs : DOMAIN s4'[r].items = DOMAIN s4[r].items
      <3>1. s5[c].run \in Runs
        BY <2>3 DEF CR!Commit, CR!CInv, CR!Programs
      <3>2. PICK status, aged :
               s4' = [s4 EXCEPT
                   ![s5[c].run].status = status, ![s5[c].run].aged = aged,
                   ![s5[c].run].items = [f \in DOMAIN @ |->
                                         IF f \in DOMAIN s5[c].changes
                                         THEN [@[f] EXCEPT !.status = s5[c].changes[f]]
                                         ELSE @[f]]]
        BY <2>3, Zenon DEF CR!Commit
      <3>3. /\ \A r \in Runs \ {s5[c].run} : s4'[r] = s4[r]
            /\ DOMAIN s4'[s5[c].run].items = DOMAIN s4[s5[c].run].items
        BY <3>1, <3>2, Zenon DEF CR!CInv, CR!Plans
      <3>4. QED
        BY <3>3
    <2>4. CASE UNCHANGED s4
      BY <2>4
    <2>5. QED
      BY <2>1, <2>2, <2>3, <2>4, Zenon
      DEF CR!Next, CR!vars, CR!NewBackup, CR!WriteOrphan, CR!CleanPending, CR!Change, CR!Interrupt,
          CR!StartQuarantine, CR!StartRestore, CR!StartPurge, CR!Load, CR!QuarantineFile,
          CR!RestoreFile, CR!PurgeFile, CR!At
  <1>2. \A b \in Backups : s1[b] # NoBytes =>
           s1'[b] # NoBytes \/ \E r \in Runs : b \in DOMAIN s4'[r].items
    <2>1. ASSUME NEW c \in Commands, NEW f \in CR!Files, CR!QuarantineFile(c, f),
                 NEW b \in Backups, s1[b] # NoBytes
          PROVE  s1'[b] # NoBytes \/ \E r \in Runs : b \in DOMAIN s4'[r].items
      <3>1. /\ s5[c].todo # {} /\ f = CR!Smallest(s5[c].todo) /\ s5[c] # CR!Idle
            /\ s4' = s4
        BY <2>1 DEF CR!QuarantineFile, CR!At, CR!Idle
      <3>2. s5[c].todo \subseteq DOMAIN s4[s5[c].run].items /\ s5[c].run \in Runs
        BY <3>1 DEF CR!CInv, CR!Programs
      <3>3. f \in DOMAIN s4[s5[c].run].items
        <4>1. s5[c].todo \in SUBSET CR!Files
          BY <3>2 DEF CR!CInv, CR!Plans
        <4>2. QED
          BY <4>1, <3>1, <3>2, SmallestIsIn
      <3>4. b # f => s1'[b] = s1[b]
        BY <2>1 DEF CR!QuarantineFile, CR!CInv, CR!Places, CR!Files
      <3>5. QED
        BY <2>1, <3>1, <3>2, <3>3, <3>4
    <2>2. ASSUME NEW c \in Commands, NEW f \in CR!Files, CR!RestoreFile(c, f)
          PROVE  \A b \in Backups : s1[b] # NoBytes => s1'[b] = s1[b]
      BY <2>2 DEF CR!RestoreFile, CR!CInv, CR!Places, CR!Files
    <2>3. CASE CR!NewBackup \/ CR!WriteOrphan
      <3>1. PICK g \in CR!Files : (\E content : s1' = [s1 EXCEPT ![g] = content]) /\
                                        (g \in Backups => \A a \in CR!Made : a < g)
        BY <2>3 DEF CR!NewBackup, CR!WriteOrphan, CR!Files, CR!Numbered
      <3>2. \A b \in Backups : s1[b] # NoBytes => b # g
        BY <3>1 DEF CR!Made, CR!Numbered, CR!Files
      <3>3. QED
        BY <3>1, <3>2 DEF CR!CInv, CR!Places, CR!Files
    <2>4. CASE UNCHANGED s1
      BY <2>4
    <2>5. QED
      BY <2>1, <2>2, <2>3, <2>4, Zenon
      DEF CR!Next, CR!vars, CR!build_cleanup_plan, CR!SevenDaysPass, CR!CleanPending, CR!Commit,
          CR!Interrupt, CR!StartQuarantine, CR!StartRestore, CR!StartPurge, CR!Load, CR!PurgeFile
  <1>3. CR!Made \subseteq CR!Made'
    BY <1>1, <1>2 DEF CR!Made
  <1>4. ASSUME NEW r \in Runs, NEW b \in Backups, b \in DOMAIN s4'[r].items
        PROVE  /\ \E x, y \in CR!Made : x # y /\ x > b /\ y > b
               /\ \E x \in CR!Made : Week[x] = Week[b] /\ x > b
    BY <1>1, <1>4, CandidatesAreOld DEF CR!PlannedAreOld
  <1>5. QED
    BY <1>3, <1>4 DEF CR!PlannedAreOld

-----------------------------------------------------------------------------
\* A step that no ledger, quarantine or command takes part in.
LEMMA LedgerKept ==
  ASSUME CR!CInv, CR!Works, CR!LedgerIsTrue,
         UNCHANGED <<s3, s5, s7>>,
         \A r \in Runs : s4'[r].status = s4[r].status /\ s4'[r].items = s4[r].items
  PROVE  CR!Works' /\ CR!LedgerIsTrue'
  <1>1. \A r \in Runs : \A status : CR!InStatus(r, status)' = CR!InStatus(r, status)
    BY DEF CR!InStatus
  <1>2. CR!LedgerIsTrue'
    BY <1>1 DEF CR!LedgerIsTrue
  <1>3. ASSUME NEW c \in Commands, s5[c] # CR!Idle, ~s7
        PROVE  CR!Alone(c)' /\ CR!Working(c)'
    <2>1. s5[c].run \in Runs /\ CR!Alone(c) /\ CR!Working(c)
      BY <1>3 DEF CR!CInv, CR!Programs, CR!Works
    <2>2. CR!Alone(c)'
      BY <2>1 DEF CR!Alone
    <2>3. CR!Working(c)'
      BY <2>1 DEF CR!Working, CR!Intended
    <2>4. QED
      BY <2>2, <2>3
  <1>4. CR!Works'
    BY <1>3 DEF CR!Works
  <1>5. QED
    BY <1>2, <1>4

\* A new plan starts with nothing in its quarantine, and no command works on it.
LEMMA LedgerPlan ==
  ASSUME CR!Numbered, CR!CInv, CR!Works, CR!LedgerIsTrue, CR!build_cleanup_plan
  PROVE  CR!Works' /\ CR!LedgerIsTrue'
  <1>1. PICK r \in Runs, categories \in SUBSET {"expired_backups", "sent_pending_orphans"} :
           /\ s4[r].status = "none"
           /\ s4' = [s4 EXCEPT ![r] =
                  [status |-> "planned", aged |-> FALSE,
                   items |-> [f \in CR!inventory_candidates(categories) \ Protected |->
                                  [status |-> "planned", sha |-> s1[f]]]]]
           /\ UNCHANGED <<s1, s2, s3, s5, s6, s7, s8>>
    BY Zenon DEF CR!build_cleanup_plan
  <1>2. /\ \A q \in Runs \ {r} : s4'[q] = s4[q]
        /\ s4'[r].status = "planned"
        /\ \A f \in DOMAIN s4'[r].items : s4'[r].items[f].status = "planned"
    BY <1>1 DEF CR!CInv, CR!Plans
  <1>3. \A f \in CR!Files : s3[r][f] = NoBytes
    BY <1>1 DEF CR!CInv, CR!Plans, CR!OnlyPlannedIsErased
  <1>4. ASSUME NEW c \in Commands, s5[c] # CR!Idle
        PROVE  s5[c].run \in Runs \ {r}
    BY <1>1, <1>4 DEF CR!CInv, CR!Programs
  <1>5. CR!LedgerIsTrue'
    <2> SUFFICES ASSUME ~s7', NEW q \in Runs,
                        \A c \in Commands : s5'[c] = CR!Idle \/ s5'[c].run # q
                 PROVE  /\ {f \in CR!Files : s3'[q][f] # NoBytes} = CR!InStatus(q, "quarantined")'
                        /\ s4'[q].status \in {"restored", "purged"} =>
                               CR!InStatus(q, "quarantined")' = {}
      BY DEF CR!LedgerIsTrue
    <2>1. CASE q = r
      <3>1. CR!InStatus(r, "quarantined")' = {}
        BY <1>2 DEF CR!InStatus
      <3>2. QED
        BY <2>1, <3>1, <1>1, <1>2, <1>3
    <2>2. CASE q # r
      <3>1. CR!InStatus(q, "quarantined")' = CR!InStatus(q, "quarantined")
        BY <2>2, <1>2 DEF CR!InStatus
      <3>2. QED
        BY <2>2, <3>1, <1>1, <1>2 DEF CR!LedgerIsTrue
    <2>3. QED
      BY <2>1, <2>2
  <1>6. ASSUME NEW c \in Commands, s5[c] # CR!Idle, ~s7
        PROVE  CR!Alone(c)' /\ CR!Working(c)'
    <2>1. s4'[s5[c].run] = s4[s5[c].run] /\ CR!Alone(c) /\ CR!Working(c)
      BY <1>2, <1>4, <1>6 DEF CR!Works
    <2>2. CR!Alone(c)'
      BY <1>1, <2>1 DEF CR!Alone
    <2>3. CR!Working(c)'
      BY <1>1, <2>1 DEF CR!Working, CR!Intended
    <2>4. QED
      BY <2>2, <2>3
  <1>7. CR!Works'
    BY <1>1, <1>6 DEF CR!Works
  <1>8. QED
    BY <1>5, <1>7

\* A command starts from a ledger that tells the quarantine, or on a run where
\* another one is at work, which is a disturbance.
LEMMA LedgerLoad ==
  ASSUME CR!CInv, CR!Works, CR!LedgerIsTrue, NEW c \in Commands, NEW r \in Runs,
         CR!StartQuarantine(c, r) \/ CR!StartRestore(c, r) \/ CR!StartPurge(c, r)
  PROVE  CR!Works' /\ CR!LedgerIsTrue'
  <1>1. PICK command \in {"quarantine", "restore", "purge"} :
           CR!Load(c, command, r, CR!InStatus(r, IF command = "quarantine" THEN "planned"
                                           ELSE "quarantined"))
    <2>1. CASE CR!StartQuarantine(c, r)
      BY <2>1 DEF CR!StartQuarantine
    <2>2. CASE CR!StartRestore(c, r)
      BY <2>2 DEF CR!StartRestore
    <2>3. CASE CR!StartPurge(c, r)
      BY <2>3 DEF CR!StartPurge
    <2>4. QED
      BY <2>1, <2>2, <2>3
  <1> DEFINE before == IF command = "quarantine" THEN "planned" ELSE "quarantined"
             p == CR!Loaded(command, r, CR!InStatus(r, before))
  <1>2. /\ s5[c] = CR!Idle /\ DOMAIN s5' = Commands /\ s5'[c] = p
        /\ \A d \in Commands \ {c} : s5'[d] = s5[d]
        /\ s7' = (s7 \/ \E d \in Commands : s5[d] # CR!Idle /\ s5[d].run = r)
        /\ UNCHANGED <<s1, s2, s3, s4, s6>>
    BY <1>1 DEF CR!Load, CR!CInv, CR!Programs
  <1>3. /\ p.command = command /\ p.run = r /\ p.loaded = s4[r].status
        /\ p.todo = CR!InStatus(r, before) /\ DOMAIN p.changes = {}
    BY DEF CR!Loaded
  <1> HIDE DEF p
  <1>4. command # "none" /\ p # CR!Idle
    BY <1>3 DEF CR!Idle
  <1>5. \A q \in Runs : \A status : CR!InStatus(q, status)' = CR!InStatus(q, status)
    BY <1>2 DEF CR!InStatus
  <1>6. CR!LedgerIsTrue'
    <2> SUFFICES ASSUME ~s7', NEW q \in Runs,
                        \A d \in Commands : s5'[d] = CR!Idle \/ s5'[d].run # q
                 PROVE  /\ {f \in CR!Files : s3'[q][f] # NoBytes} = CR!InStatus(q, "quarantined")'
                        /\ s4'[q].status \in {"restored", "purged"} =>
                               CR!InStatus(q, "quarantined")' = {}
      BY DEF CR!LedgerIsTrue
    <2>1. \A d \in Commands : s5[d] = CR!Idle \/ s5[d].run # q
      BY <1>2
    <2>2. QED
      BY <2>1, <1>2, <1>5, Zenon DEF CR!LedgerIsTrue
  <1>7. ASSUME NEW d \in Commands, s5'[d] # CR!Idle, ~s7'
        PROVE  CR!Alone(d)' /\ CR!Working(d)'
    <2>1. ~s7 /\ \A e \in Commands : s5[e] # CR!Idle => s5[e].run # r
      BY <1>2, <1>7, Zenon
    <2>2. CASE d = c
      <3>1. CR!Alone(c)'
        <4>1. \A f \in CR!InStatus(r, before) : s4[r].items[f].status = before
          BY DEF CR!InStatus
        <4>2. \A e \in Commands \ {c} : s5'[e] # CR!Idle => s5'[e].run # r
          BY <1>2, <2>1
        <4>3. QED
          BY <1>2, <1>3, <4>1, <4>2 DEF CR!Alone
      <3>2. \A f \in CR!Files : s3[r][f] # NoBytes <=> f \in CR!InStatus(r, "quarantined")
        BY <2>1 DEF CR!LedgerIsTrue
      <3>3. \A f \in DOMAIN s4[r].items :
               f \in CR!InStatus(r, "quarantined") <=> s4[r].items[f].status = "quarantined"
        BY DEF CR!InStatus
      <3>4. CR!InStatus(r, "quarantined") \subseteq DOMAIN s4[r].items
        BY DEF CR!InStatus
      <3>5. CR!Working(c)'
        BY <1>2, <1>3, <3>2, <3>3, <3>4 DEF CR!Working, CR!Intended
      <3>6. QED
        BY <2>2, <3>1, <3>5
    <2>3. CASE d # c
      <3>1. s5'[d] = s5[d] /\ s5[d] # CR!Idle /\ s5[d].run # r /\ CR!Alone(d) /\ CR!Working(d)
        BY <1>2, <1>7, <2>1, <2>3 DEF CR!Works
      <3>2. CR!Alone(d)'
        BY <1>2, <1>3, <3>1 DEF CR!Alone
      <3>3. CR!Working(d)'
        BY <1>2, <3>1 DEF CR!Working, CR!Intended
      <3>4. QED
        BY <3>2, <3>3
    <2>4. QED
      BY <2>2, <2>3
  <1>8. CR!Works'
    BY <1>7 DEF CR!Works
  <1>9. QED
    BY <1>6, <1>8

\* One file of a command: its list, its memory and one place of its quarantine.
LEMMA LedgerWork ==
  ASSUME CR!CInv, CR!Works, CR!LedgerIsTrue, NEW c \in Commands, s5[c] # CR!Idle,
         NEW f \in s5[c].todo,
         UNCHANGED <<s4, s7>>,
         \A q \in Runs \ {s5[c].run} : s3'[q] = s3[q],
         \A g \in CR!Files \ {f} : s3'[s5[c].run][g] = s3[s5[c].run][g],
         DOMAIN s5' = Commands, \A d \in Commands \ {c} : s5'[d] = s5[d],
         s5'[c] # CR!Idle, s5'[c].command = s5[c].command,
         s5'[c].run = s5[c].run, s5'[c].loaded = s5[c].loaded,
         s5'[c].todo = s5[c].todo \ {f},
         ~s5'[c].failed => ~s5[c].failed,
         \/ /\ s5'[c].changes = s5[c].changes /\ s5'[c].failed
            /\ s3'[s5[c].run][f] = s3[s5[c].run][f]
         \/ /\ DOMAIN s5'[c].changes = DOMAIN s5[c].changes \cup {f}
            /\ \A g \in DOMAIN s5[c].changes \ {f} :
                  s5'[c].changes[g] = s5[c].changes[g]
            /\ ~s7 => (s3'[s5[c].run][f] # NoBytes <=>
                                  s5'[c].changes[f] = "quarantined")
            /\ s5[c].command # "quarantine" => s5'[c].changes[f] # "quarantined"
  PROVE  CR!Works' /\ CR!LedgerIsTrue'
  <1> DEFINE r == s5[c].run
  <1>1. /\ r \in Runs /\ s5[c].todo \subseteq DOMAIN s4[r].items
        /\ DOMAIN s4[r].items \subseteq CR!Files
    BY DEF CR!CInv, CR!Programs, CR!Plans
  <1>2. /\ \A q \in Runs \ {r} : s3'[q] = s3[q]
        /\ \A g \in CR!Files \ {f} : s3'[r][g] = s3[r][g]
        /\ s4' = s4
    OBVIOUS
  <1>3. \A q \in Runs : \A status : CR!InStatus(q, status)' = CR!InStatus(q, status)
    BY DEF CR!InStatus
  <1>4. CR!LedgerIsTrue'
    <2> SUFFICES ASSUME ~s7', NEW q \in Runs,
                        \A d \in Commands : s5'[d] = CR!Idle \/ s5'[d].run # q
                 PROVE  /\ {g \in CR!Files : s3'[q][g] # NoBytes} = CR!InStatus(q, "quarantined")'
                        /\ s4'[q].status \in {"restored", "purged"} =>
                               CR!InStatus(q, "quarantined")' = {}
      BY DEF CR!LedgerIsTrue
    <2>1. q # r
      OBVIOUS
    <2>2. \A d \in Commands : s5[d] = CR!Idle \/ s5[d].run # q
      BY <2>1
    <2>3. QED
      BY <1>2, <1>3, <2>1, <2>2 DEF CR!LedgerIsTrue
  <1>5. ASSUME ~s7 PROVE CR!Alone(c)' /\ CR!Working(c)'
    <2>1. CR!Alone(c) /\ CR!Working(c)
      BY <1>5 DEF CR!Works
    <2>2. f \notin DOMAIN s5[c].changes
      BY <2>1 DEF CR!Alone
    <2>3. /\ \A d \in Commands \ {c} : s5'[d] # CR!Idle => s5'[d].run # r
          /\ s5'[c].loaded = s4'[r].status
          /\ DOMAIN s5'[c].changes \subseteq DOMAIN s4[r].items
      BY <2>1, <1>1 DEF CR!Alone
    <2>4. \A g \in s5'[c].todo :
             /\ g \notin DOMAIN s5'[c].changes
             /\ s4[r].items[g].status =
                    IF s5[c].command = "quarantine" THEN "planned" ELSE "quarantined"
      BY <2>1 DEF CR!Alone
    <2>5. CR!Alone(c)'
      BY <2>3, <2>4 DEF CR!Alone
    <2>6. \A g \in CR!Files \ {f} : CR!Intended(c, g)' = CR!Intended(c, g)
      BY <2>2 DEF CR!Intended
    <2>7. CASE s5'[c].changes = s5[c].changes /\ s5'[c].failed
               /\ s3'[r][f] = s3[r][f]
      <3>1. \A g \in CR!Files : CR!Intended(c, g)' = CR!Intended(c, g)
        BY <2>7 DEF CR!Intended
      <3>2. QED
        BY <1>2, <2>1, <2>5, <2>7, <3>1 DEF CR!Working
    <2>8. CASE /\ DOMAIN s5'[c].changes = DOMAIN s5[c].changes \cup {f}
               /\ (s3'[r][f] # NoBytes <=> s5'[c].changes[f] = "quarantined")
               /\ s5[c].command # "quarantine" => s5'[c].changes[f] # "quarantined"
      <3>1. CR!Intended(c, f)' = s5'[c].changes[f]
        BY <2>8 DEF CR!Intended
      <3>2. \A g \in CR!Files : s3'[r][g] # NoBytes <=>
               g \in DOMAIN s4'[r].items /\ CR!Intended(c, g)' = "quarantined"
        BY <1>1, <1>2, <2>1, <2>6, <2>8, <3>1 DEF CR!Working
      <3>3. s5'[c].command # "quarantine" /\ ~s5'[c].failed =>
               \A g \in DOMAIN s4'[r].items \ s5'[c].todo : CR!Intended(c, g)' # "quarantined"
        BY <1>1, <2>1, <2>6, <2>8, <3>1 DEF CR!Working
      <3>4. CR!Working(c)'
        BY <3>2, <3>3 DEF CR!Working
      <3>5. QED
        BY <2>5, <3>4
    <2>9. QED
      BY <1>5, <2>7, <2>8
  <1>6. ASSUME NEW d \in Commands \ {c}, s5[d] # CR!Idle, ~s7
        PROVE  CR!Alone(d)' /\ CR!Working(d)'
    <2>1. s5'[d] = s5[d] /\ s5[d].run \in Runs \ {r} /\ CR!Alone(d) /\ CR!Working(d)
      BY <1>6 DEF CR!Works, CR!Alone, CR!CInv, CR!Programs
    <2>2. CR!Alone(d)'
      BY <2>1 DEF CR!Alone
    <2>3. s3'[s5[d].run] = s3[s5[d].run]
      BY <1>2, <2>1
    <2>4. \A g \in CR!Files : CR!Intended(d, g)' = CR!Intended(d, g)
      BY <1>2, <2>1 DEF CR!Intended
    <2>5. /\ \A g \in CR!Files :
                s3'[s5[d].run][g] # NoBytes <=>
                    g \in DOMAIN s4[s5[d].run].items /\ CR!Intended(d, g)' = "quarantined"
          /\ s5[d].command # "quarantine" /\ ~s5[d].failed =>
                \A g \in DOMAIN s4[s5[d].run].items \ s5[d].todo :
                    CR!Intended(d, g)' # "quarantined"
      <3> QED
        BY <2>1, <2>3, <2>4, <1>1 DEF CR!Working, CR!CInv, CR!Plans
    <2>6. CR!Working(d)'
      BY <1>2, <2>1, <2>5 DEF CR!Working
    <2>7. QED
      BY <2>2, <2>6
  <1>7. CR!Works'
    BY <1>5, <1>6 DEF CR!Works
  <1>8. QED
    BY <1>4, <1>7

\* What a command remembers of a file.
LEMMA RememberChange ==
  ASSUME CR!CInv, NEW c \in Commands, s5[c] # CR!Idle, NEW f, NEW status,
         CR!Remember(c, f, status)
  PROVE  /\ DOMAIN s5' = Commands /\ \A d \in Commands \ {c} : s5'[d] = s5[d]
         /\ s5'[c] # CR!Idle /\ s5'[c].command = s5[c].command
         /\ s5'[c].run = s5[c].run /\ s5'[c].loaded = s5[c].loaded
         /\ s5'[c].failed = s5[c].failed
         /\ s5'[c].todo = s5[c].todo \ {f}
         /\ DOMAIN s5'[c].changes = DOMAIN s5[c].changes \cup {f}
         /\ \A g \in DOMAIN s5[c].changes \ {f} : s5'[c].changes[g] = s5[c].changes[g]
         /\ s5'[c].changes[f] = status
  <1> DEFINE changes == [g \in DOMAIN s5[c].changes \cup {f} |->
                            IF g = f THEN status ELSE s5[c].changes[g]]
  <1>1. DOMAIN s5 = Commands /\ DOMAIN s5[c] = CR!Fields
        /\ s5[c].command \in {"quarantine", "restore", "purge"}
    BY DEF CR!CInv, CR!Programs
  <1>2. s5' = [s5 EXCEPT ![c].todo = @ \ {f}, ![c].changes = changes]
    BY <1>1 DEF CR!Remember, CR!Fields
  <1>3. /\ DOMAIN changes = DOMAIN s5[c].changes \cup {f} /\ changes[f] = status
        /\ \A g \in DOMAIN s5[c].changes \ {f} : changes[g] = s5[c].changes[g]
    OBVIOUS
  <1> HIDE DEF changes
  <1>4. /\ s5'[c] = [s5[c] EXCEPT !.todo = @ \ {f}, !.changes = changes]
        /\ DOMAIN s5' = Commands /\ \A d \in Commands \ {c} : s5'[d] = s5[d]
    BY <1>1, <1>2
  <1>5. /\ s5'[c].command = s5[c].command /\ s5'[c].run = s5[c].run
        /\ s5'[c].loaded = s5[c].loaded /\ s5'[c].failed = s5[c].failed
        /\ s5'[c].todo = s5[c].todo \ {f} /\ s5'[c].changes = changes
    BY <1>1, <1>4 DEF CR!Fields
  <1>6. s5'[c] # CR!Idle
    BY <1>1, <1>5 DEF CR!Idle
  <1>7. QED
    BY <1>3, <1>4, <1>5, <1>6

\* One file of a command, as its intentions.
LEMMA LedgerFile ==
  ASSUME CR!Numbered, CR!CInv, CR!Works, CR!LedgerIsTrue, NEW c \in Commands, NEW f \in CR!Files,
         CR!QuarantineFile(c, f) \/ CR!RestoreFile(c, f) \/ CR!PurgeFile(c, f)
  PROVE  CR!Works' /\ CR!LedgerIsTrue'
  <1> DEFINE r == s5[c].run
  <1>1. /\ s5[c] # CR!Idle /\ s5[c].todo # {} /\ f = CR!Smallest(s5[c].todo)
        /\ UNCHANGED <<s4, s7>>
    BY DEF CR!QuarantineFile, CR!RestoreFile, CR!PurgeFile, CR!At, CR!Idle
  <1>2. /\ r \in Runs /\ s5[c].todo \subseteq DOMAIN s4[r].items
        /\ DOMAIN s5 = Commands /\ DOMAIN s5[c] = CR!Fields
        /\ s5[c].command \in {"quarantine", "restore", "purge"}
        /\ DOMAIN s3 = Runs /\ DOMAIN s3[r] = CR!Files
    BY <1>1 DEF CR!CInv, CR!Programs, CR!Places
  <1>3. f \in s5[c].todo
    <2>1. s5[c].todo \in SUBSET CR!Files
      BY <1>2 DEF CR!CInv, CR!Plans
    <2>2. QED
      BY <1>1, <2>1, SmallestIsIn
  <1>5. ~s7 => (s3[r][f] # NoBytes <=> s5[c].command # "quarantine")
    <2> SUFFICES ASSUME ~s7 PROVE s3[r][f] # NoBytes <=> s5[c].command # "quarantine"
      OBVIOUS
    <2>1. CR!Alone(c) /\ CR!Working(c)
      BY <1>1 DEF CR!Works
    <2>2. CR!Intended(c, f) = IF s5[c].command = "quarantine" THEN "planned" ELSE "quarantined"
      BY <1>3, <2>1 DEF CR!Alone, CR!Intended
    <2>3. QED
      BY <1>2, <1>3, <2>1, <2>2 DEF CR!Working
  <1>6. CASE CR!QuarantineFile(c, f)
    <2>0. s5[c].command = "quarantine"
      BY <1>6 DEF CR!QuarantineFile, CR!At
    <2>1. CASE CR!Takeable(r, f) /\ s3[r][f] = NoBytes
      <3>1. /\ s3' = [s3 EXCEPT ![r][f] = s1[f]] /\ CR!Remember(c, f, "quarantined")
            /\ s1[f] # NoBytes
        BY <1>6, <2>1 DEF CR!QuarantineFile, CR!Takeable
      <3>2. /\ \A q \in Runs \ {r} : s3'[q] = s3[q]
            /\ \A g \in CR!Files \ {f} : s3'[r][g] = s3[r][g]
            /\ s3'[r][f] # NoBytes
        BY <1>2, <3>1
      <3>3. QED
        BY <1>1, <1>3, <2>0, <3>1, <3>2, RememberChange, LedgerWork
    <2>2. CASE ~(CR!Takeable(r, f) /\ s3[r][f] = NoBytes)
      <3>1. PICK status \in {"failed", "skipped"} : CR!Remember(c, f, status)
        BY <1>6, <2>2 DEF CR!QuarantineFile
      <3>2. s3' = s3
        BY <1>6, <2>2 DEF CR!QuarantineFile
      <3>3. QED
        BY <1>1, <1>3, <1>5, <2>0, <3>1, <3>2, RememberChange, LedgerWork
    <2>3. QED
      BY <2>1, <2>2
  <1>7. CASE CR!RestoreFile(c, f)
    <2>0. s5[c].command = "restore"
      BY <1>7 DEF CR!RestoreFile, CR!At
    <2>1. CASE s1[f] = NoBytes /\ s3[r][f] # NoBytes
      <3>1. s3' = [s3 EXCEPT ![r][f] = NoBytes] /\ CR!Remember(c, f, "restored")
        BY <1>7, <2>1 DEF CR!RestoreFile
      <3>2. /\ \A q \in Runs \ {r} : s3'[q] = s3[q]
            /\ \A g \in CR!Files \ {f} : s3'[r][g] = s3[r][g]
            /\ s3'[r][f] = NoBytes
        BY <1>2, <3>1
      <3>3. s5'[c].changes[f] = "restored"
        BY <1>1, <3>1, RememberChange
      <3>4. QED
        BY <1>1, <1>3, <2>0, <3>1, <3>2, <3>3, RememberChange, LedgerWork
    <2>2. CASE ~(s1[f] = NoBytes /\ s3[r][f] # NoBytes)
      <3>1. /\ s5' = [s5 EXCEPT ![c].todo = @ \ {f}, ![c].failed = TRUE]
            /\ s3' = s3
        BY <1>7, <2>2, Zenon DEF CR!RestoreFile
      <3>2. /\ s5'[c] = [s5[c] EXCEPT !.todo = @ \ {f}, !.failed = TRUE]
            /\ DOMAIN s5' = Commands /\ \A d \in Commands \ {c} : s5'[d] = s5[d]
        BY <3>1, <1>2
      <3>3. /\ s5'[c].command = s5[c].command /\ s5'[c].run = s5[c].run
            /\ s5'[c].loaded = s5[c].loaded /\ s5'[c].failed
            /\ s5'[c].todo = s5[c].todo \ {f} /\ s5'[c].changes = s5[c].changes
        BY <1>2, <3>2 DEF CR!Fields
      <3>4. s5'[c] # CR!Idle
        BY <2>0, <3>3 DEF CR!Idle
      <3>5. QED
        BY <1>1, <1>3, <2>0, <3>1, <3>2, <3>3, <3>4, LedgerWork, Zenon
    <2>3. QED
      BY <2>1, <2>2
  <1>8. CASE CR!PurgeFile(c, f)
    <2>1. /\ s5[c].command = "purge" /\ s3' = [s3 EXCEPT ![r][f] = NoBytes]
          /\ CR!Remember(c, f, "purged")
      BY <1>8 DEF CR!PurgeFile, CR!At
    <2>2. /\ \A q \in Runs \ {r} : s3'[q] = s3[q]
          /\ \A g \in CR!Files \ {f} : s3'[r][g] = s3[r][g]
          /\ s3'[r][f] = NoBytes
      BY <1>2, <2>1
    <2>3. s5'[c].changes[f] = "purged"
      BY <1>1, <2>1, RememberChange
    <2>4. QED
      BY <1>1, <1>3, <2>1, <2>2, <2>3, RememberChange, LedgerWork
  <1>9. QED
    BY <1>6, <1>7, <1>8

\* The ledger then says what was intended.
LEMMA LedgerCommit ==
  ASSUME CR!CInv, CR!Works, CR!LedgerIsTrue, NEW c \in Commands, CR!Commit(c)
  PROVE  CR!Works' /\ CR!LedgerIsTrue'
  <1> DEFINE p == s5[c]
             r == s5[c].run
             status == IF CR!Result(p) = p.loaded THEN s4[r].status ELSE CR!Result(p)
             aged == s4[r].aged /\ p.command = "restore"
             rowsNow == [f \in DOMAIN s4[r].items |->
                          IF f \in DOMAIN p.changes
                          THEN [s4[r].items[f] EXCEPT !.status = p.changes[f]]
                          ELSE s4[r].items[f]]
  <1>1. /\ p # CR!Idle /\ p.todo = {} /\ s5' = [s5 EXCEPT ![c] = CR!Idle]
        /\ UNCHANGED <<s3, s7>>
    BY DEF CR!Commit
  <1>2. /\ r \in Runs /\ DOMAIN s4 = Runs /\ DOMAIN s4[r] = {"status", "aged", "items"}
        /\ DOMAIN s5 = Commands /\ p.command \in {"quarantine", "restore", "purge"}
        /\ p.command = "purge" => ~p.failed
        /\ DOMAIN s4[r].items \subseteq CR!Files
    BY <1>1 DEF CR!CInv, CR!Programs, CR!Plans
  <1>3. s4' = [s4 EXCEPT ![r].status = status, ![r].aged = aged, ![r].items = rowsNow]
    BY <1>2 DEF CR!Commit
  <1>4. /\ DOMAIN rowsNow = DOMAIN s4[r].items
        /\ \A f \in DOMAIN s4[r].items : rowsNow[f].status = CR!Intended(c, f)
    BY <1>2 DEF CR!CInv, CR!Plans, CR!Intended
  <1>5. CR!Result(p) \in {"restored", "purged"} => p.command # "quarantine" /\ ~p.failed
    BY <1>2 DEF CR!Result
  <1> HIDE DEF rowsNow, status, aged
  <1>6. /\ s4'[r].status = status /\ s4'[r].items = rowsNow
        /\ \A q \in Runs \ {r} : s4'[q] = s4[q]
    <2>1. s4'[r] = [s4[r] EXCEPT !.status = status, !.aged = aged, !.items = rowsNow]
      BY <1>2, <1>3, Zenon
    <2>2. QED
      BY <1>2, <1>3, <2>1
  <1>7. CR!LedgerIsTrue'
    <2> SUFFICES ASSUME ~s7', NEW q \in Runs,
                        \A d \in Commands : s5'[d] = CR!Idle \/ s5'[d].run # q
                 PROVE  /\ {f \in CR!Files : s3'[q][f] # NoBytes} = CR!InStatus(q, "quarantined")'
                        /\ s4'[q].status \in {"restored", "purged"} =>
                               CR!InStatus(q, "quarantined")' = {}
      BY DEF CR!LedgerIsTrue
    <2>1. CASE q = r
      <3>1. CR!Alone(c) /\ CR!Working(c)
        BY <1>1 DEF CR!Works
      <3>2. status = CR!Result(p)
        BY <3>1 DEF status, CR!Alone
      <3>3. CR!InStatus(q, "quarantined")' =
               {f \in DOMAIN s4[q].items : CR!Intended(c, f) = "quarantined"}
        BY <1>4, <1>6, <2>1 DEF CR!InStatus
      <3>4. {f \in CR!Files : s3'[q][f] # NoBytes} = CR!InStatus(q, "quarantined")'
        BY <1>1, <1>2, <2>1, <3>1, <3>3 DEF CR!Working
      <3>5. s4'[q].status \in {"restored", "purged"} => CR!InStatus(q, "quarantined")' = {}
        BY <1>1, <1>5, <1>6, <2>1, <3>1, <3>2, <3>3 DEF CR!Working
      <3>6. QED
        BY <3>4, <3>5
    <2>2. CASE q # r
      <3>1. CR!InStatus(q, "quarantined")' = CR!InStatus(q, "quarantined")
        BY <1>6, <2>2 DEF CR!InStatus
      <3>2. \A d \in Commands : s5[d] = CR!Idle \/ s5[d].run # q
        BY <1>1, <1>2, <2>2
      <3>3. QED
        BY <1>1, <1>6, <2>2, <3>1, <3>2 DEF CR!LedgerIsTrue
    <2>3. QED
      BY <2>1, <2>2
  <1>8. ASSUME NEW d \in Commands, s5'[d] # CR!Idle, ~s7
        PROVE  CR!Alone(d)' /\ CR!Working(d)'
    <2>1. d # c /\ s5'[d] = s5[d] /\ s5[d] # CR!Idle
      BY <1>1, <1>2, <1>8
    <2>2. CR!Alone(d) /\ CR!Working(d) /\ s5[d].run \in Runs \ {r}
      BY <1>1, <1>8, <2>1 DEF CR!Works, CR!Alone, CR!CInv, CR!Programs
    <2>3. \A e \in Commands : s5'[e] = s5[e] \/ s5'[e] = CR!Idle
      BY <1>1, <1>2
    <2>4. CR!Alone(d)'
      BY <1>6, <2>1, <2>2, <2>3 DEF CR!Alone
    <2>5. CR!Working(d)'
      BY <1>1, <1>6, <2>1, <2>2 DEF CR!Working, CR!Intended
    <2>6. QED
      BY <2>4, <2>5
  <1>9. CR!Works'
    BY <1>1, <1>8 DEF CR!Works
  <1>10. QED
    BY <1>7, <1>9

\* The whole invariant is inductive.
LEMMA CleanupInductive ==
  ASSUME CR!Numbered
  PROVE  CR!CleanupInv /\ [CR!Next]_(CR!vars) => CR!CleanupInv'
  <1> SUFFICES ASSUME CR!CleanupInv, [CR!Next]_(CR!vars) PROVE CR!CleanupInv'
    OBVIOUS
  <1>1. CR!CInv /\ CR!PlannedAreOld /\ CR!Works /\ CR!LedgerIsTrue
    BY DEF CR!CleanupInv
  <1>2. CR!CInv' /\ CR!PlannedAreOld'
    BY <1>1, CInvStep, OldStep
  <1>3. CR!Works' /\ CR!LedgerIsTrue'
    <2>1. CASE CR!build_cleanup_plan
      BY <1>1, <2>1, LedgerPlan
    <2>2. CASE CR!SevenDaysPass
      <3>1. /\ UNCHANGED <<s3, s5, s7>>
            /\ \A r \in Runs : s4'[r].status = s4[r].status /\ s4'[r].items = s4[r].items
        BY <1>1, <2>2 DEF CR!SevenDaysPass, CR!CInv, CR!Plans
      <3>2. QED
        BY <1>1, <3>1, LedgerKept
    <2>3. CASE CR!NewBackup \/ CR!WriteOrphan \/ CR!CleanPending \/ UNCHANGED CR!vars
      <3>1. UNCHANGED <<s3, s5, s7, s4>>
        BY <2>3 DEF CR!NewBackup, CR!WriteOrphan, CR!CleanPending, CR!Change, CR!vars
      <3>2. QED
        BY <1>1, <3>1, LedgerKept
    <2>4. ASSUME NEW c \in Commands, NEW r \in Runs,
                 CR!StartQuarantine(c, r) \/ CR!StartRestore(c, r) \/ CR!StartPurge(c, r)
          PROVE  CR!Works' /\ CR!LedgerIsTrue'
      BY <1>1, <2>4, LedgerLoad
    <2>5. ASSUME NEW c \in Commands, NEW f \in CR!Files,
                 CR!QuarantineFile(c, f) \/ CR!RestoreFile(c, f) \/ CR!PurgeFile(c, f)
          PROVE  CR!Works' /\ CR!LedgerIsTrue'
      BY <1>1, <2>5, LedgerFile
    <2>6. ASSUME NEW c \in Commands, CR!Commit(c)
          PROVE  CR!Works' /\ CR!LedgerIsTrue'
      BY <1>1, <2>6, LedgerCommit
    <2>7. ASSUME NEW c \in Commands, CR!Interrupt(c)
          PROVE  CR!Works' /\ CR!LedgerIsTrue'
      <3>1. s7'
        BY <2>7 DEF CR!Interrupt
      <3>2. QED
        BY <3>1 DEF CR!Works, CR!LedgerIsTrue
    <2>8. QED
      BY <2>1, <2>2, <2>3, <2>4, <2>5, <2>6, <2>7 DEF CR!Next
  <1>4. QED
    BY <1>2, <1>3 DEF CR!CleanupInv

\* It holds of the empty ledger.
LEMMA InitCleanupInv == CR!Init => CR!CleanupInv
  <1> SUFFICES ASSUME CR!Init PROVE CR!CleanupInv
    OBVIOUS
  <1>1. \A r \in Runs : DOMAIN s4[r].items = {} /\ s4[r].status = "none"
    BY DEF CR!Init, CR!NoRun
  <1>2. CR!PlannedAreOld
    BY <1>1 DEF CR!PlannedAreOld
  <1>3. CR!Works
    BY DEF CR!Init, CR!Works
  <1>4. CR!LedgerIsTrue
    BY <1>1 DEF CR!Init, CR!LedgerIsTrue, CR!InStatus
  <1>5. QED
    BY <1>2, <1>3, <1>4, InitCInv DEF CR!CleanupInv

\* And it has the properties as consequences.
LEMMA CleanupHolds ==
  ASSUME CR!Numbered, CR!CleanupInv
  PROVE  CR!CleanupIsSafe
  BY OldKeepsRetained DEF CR!CleanupInv, CR!CInv, CR!CleanupIsSafe

-----------------------------------------------------------------------------
\* Whatever plans are carried out in whatever order, at once, half or again: the
\* two newest backups and the newest of every week are in their place; what lies
\* in a quarantine is what its plan saw, to the byte, and nothing protected or
\* referenced; what was erased lay there for seven days; and between commands that
\* were neither interrupted nor overlapped the ledger tells the quarantine
\* (CleanupIsSafe; inventory.py:126-142, quarantine.py).  Assumed is only that
\* files have numbers, that there are finitely many backups, and that no backup
\* lies below the directories of pending items.
THEOREM CleanupKeepsAndErases ==
  ASSUME CR!Numbered
  PROVE  AllSpec => []CleanupIsSafe
  <1> DEFINE Inv == which = "cleanup" => CR!CleanupInv
  <1>1. AllInit => Inv
    BY InitCleanupInv DEF AllInit
  <1>2. Inv /\ [AllNext]_all => Inv'
    <2> SUFFICES ASSUME which = "cleanup", CR!CleanupInv, [AllNext]_all PROVE CR!CleanupInv'
      BY DEF AllNext, all
    <2>1. [CR!Next]_(CR!vars)
      <3>1. CASE AllNext
        BY <3>1 DEF AllNext
      <3>2. CASE UNCHANGED all
        BY <3>2 DEF all, slots, CR!vars, Slots7to19, Slots7to11, Slots8to11
      <3>3. QED
        BY <3>1, <3>2
    <2>2. QED
      BY <2>1, CleanupInductive
  <1>3. Inv => CleanupIsSafe
    BY CleanupHolds DEF CleanupIsSafe
  <1> QED
    BY <1>1, <1>2, <1>3, PTL DEF AllSpec

-----------------------------------------------------------------------------
(***************************************************************************)
(* The batches of an operator.  The variables are s1: batch, s2: item,     *)
(* s3: source, s4: policies, s5: jobs, s6: worker, s7: procs, s8: notes,   *)
(* s9: spent.                                                              *)
(*                                                                         *)
(* A batch that validates is settled because the number stored as skipped  *)
(* is at most the number of items that are skipped now (SkippedStays): an  *)
(* item leaves that state only by a second capture.  The list is counted   *)
(* once because nothing is listed before the discovery (PlannedIsEmpty)    *)
(* and whoever captures or ends well comes after it (KnowsTheList).        *)
(***************************************************************************)
ProcFields == {"pc", "doing", "found", "todo", "item", "outcome", "code"}

LEMMA SameSizes ==
  \A S : AB!Cardinality(S) = Cardinality(S) /\ (AB!IsFiniteSet(S) <=> IsFiniteSet(S))
  BY DEF AB!Cardinality, Cardinality, AB!IsFiniteSet, IsFiniteSet

\* The newest of some items is one of them.
LEMMA MaxIsIn ==
  ASSUME AB!ItemsOrdered, NEW S \in SUBSET Items, S # {}
  PROVE  AB!Max(S) \in S
  <1> DEFINE Above(x) == {y \in S : y > x}
             heights == {AB!Cardinality(Above(x)) : x \in S}
  <1>1. AB!IsFiniteSet(S) /\ S \subseteq Int
    BY FS_Subset, SameSizes, Zenon DEF AB!ItemsOrdered
  <1>2. \A x \in S : AB!IsFiniteSet(Above(x)) /\ AB!Cardinality(Above(x)) \in Nat
    BY <1>1, FS_Subset, FS_CardinalityType, SameSizes
  <1>3. heights \subseteq Nat /\ heights # {}
    BY <1>2, Zenon
  <1>4. PICK n \in heights : \A m \in heights : ~(<<m, n>> \in OpToRel(<, Nat))
    BY <1>3, NatLessThanWellFounded, WFMin, Zenon
  <1>5. PICK x \in S : n = AB!Cardinality(Above(x))
    BY <1>4, Zenon
  <1>6. ASSUME NEW y \in S, y > x PROVE FALSE
    <2>0. x \in Int /\ y \in Int /\ \A z \in S : z \in Int
      BY <1>1
    <2>1. Above(y) \subseteq Above(x) /\ y \in Above(x) /\ y \notin Above(y)
      <3>1. \A z \in S : z > y => z > x
        BY <1>6, <2>0
      <3>2. ~(y > y)
        BY <2>0
      <3>3. QED
        BY <1>6, <3>1, <3>2
    <2>2. AB!Cardinality(Above(y)) <= AB!Cardinality(Above(x))
          /\ AB!Cardinality(Above(y)) # AB!Cardinality(Above(x))
      BY <1>2, <2>1, FS_Subset, SameSizes
    <2>3. <<AB!Cardinality(Above(y)), n>> \in OpToRel(<, Nat)
      BY <1>2, <1>5, <2>2 DEF OpToRel
    <2>4. AB!Cardinality(Above(y)) \in heights
      BY Zenon
    <2>5. QED
      BY <1>4, <2>3, <2>4, Zenon
  <1>7. \A y \in S : x >= y
    BY <1>1, <1>6
  <1>8. QED
    BY <1>7 DEF AB!Max

\* The statuses of a batch and the counts are finite.
LEMMA FiniteItems ==
  ASSUME AB!ItemsOrdered, NEW S \in SUBSET Items
  PROVE  AB!IsFiniteSet(S) /\ AB!Cardinality(S) \in Nat
  BY FS_Subset, FS_CardinalityType, SameSizes, Zenon DEF AB!ItemsOrdered

-----------------------------------------------------------------------------
\* What a step of a command does to the records of the commands.
LEMMA Moved ==
  ASSUME AB!Records, NEW c \in Commands, NEW at, AB!Move(c, at)
  PROVE  /\ DOMAIN s7' = Commands /\ \A d \in Commands \ {c} : s7'[d] = s7[d]
         /\ \A d \in Commands : AB!Recorded(d)'
         /\ s7'[c].pc = at /\ s7'[c].found = s7[c].found
         /\ s7'[c].todo = s7[c].todo /\ s7'[c].item = s7[c].item
  BY DEF AB!Records, AB!Recorded, AB!Move, AB!Step, AB!Idle

LEMMA Exited ==
  ASSUME AB!Records, NEW c \in Commands, NEW code, NEW outcome, AB!Exit(c, code, outcome)
  PROVE  /\ DOMAIN s7' = Commands /\ \A d \in Commands \ {c} : s7'[d] = s7[d]
         /\ \A d \in Commands : AB!Recorded(d)'
         /\ s7'[c].pc = "exited" /\ s7'[c].found = {} /\ s7'[c].todo = {}
         /\ s7'[c].code = code
  BY DEF AB!Records, AB!Recorded, AB!Exit, AB!Step, AB!Idle

LEMMA Closed ==
  ASSUME AB!Records, NEW c \in Commands, NEW outcome, AB!Closing(c, outcome)
  PROVE  /\ DOMAIN s7' = Commands /\ \A d \in Commands \ {c} : s7'[d] = s7[d]
         /\ \A d \in Commands : AB!Recorded(d)'
         /\ s7'[c].pc = "close" /\ s7'[c].found = s7[c].found
         /\ s7'[c].todo = s7[c].todo
  BY DEF AB!Records, AB!Recorded, AB!Closing, AB!Step, AB!Idle

LEMMA Started ==
  ASSUME AB!Records, NEW c \in Commands, NEW doing \in {"none", "discover", "run", "sample",
         "related"},
         AB!Child(c, doing)
  PROVE  /\ DOMAIN s7' = Commands /\ \A d \in Commands \ {c} : s7'[d] = s7[d]
         /\ \A d \in Commands : AB!Recorded(d)'
         /\ s7'[c].pc = "start" /\ s7'[c].found = {} /\ s7'[c].todo = {}
  BY DEF AB!Records, AB!Recorded, AB!Child, AB!Step, AB!Idle

LEMMA Ended ==
  ASSUME AB!Records, NEW c \in Commands, AB!Step(c, AB!Idle)
  PROVE  /\ DOMAIN s7' = Commands /\ \A d \in Commands \ {c} : s7'[d] = s7[d]
         /\ \A d \in Commands : AB!Recorded(d)'
         /\ s7'[c].pc = "idle" /\ s7'[c].found = {} /\ s7'[c].todo = {}
  BY DEF AB!Records, AB!Recorded, AB!Step, AB!Idle

\* The other commands know the list, as long as it only grows.
LEMMA OthersKnow ==
  ASSUME AB!Records, \A d \in Commands : AB!KnowsTheList(d), NEW c,
         \A d \in Commands \ {c} : s7'[d] = s7[d],
         AB!Listed \subseteq AB!Listed', s1'.status = "planned" => s1.status = "planned",
         c \in Commands => AB!KnowsTheList(c)'
  PROVE  \A d \in Commands : AB!KnowsTheList(d)'
  <1> SUFFICES ASSUME NEW d \in Commands, d # c PROVE AB!KnowsTheList(d)'
    OBVIOUS
  <1>1. s7'[d] = s7[d] /\ AB!KnowsTheList(d)
    OBVIOUS
  <1>2. QED
    BY <1>1 DEF AB!KnowsTheList, AB!At

\* Steps that leave the batch, its items and the policies alone.
LEMMA BatchKept ==
  ASSUME AB!BatchInv, UNCHANGED <<s2, s4, s8>>, AB!Records',
         s1'.status = s1.status, s1'.discovered = s1.discovered,
         s1'.skipped = s1.skipped,
         \A c \in Commands : AB!KnowsTheList(c)'
  PROVE  AB!BatchInv'
  <1>1. AB!Listed' = AB!Listed /\ \A statuses : AB!In(statuses)' = AB!In(statuses)
    BY DEF AB!Listed, AB!In
  <1>2. AB!PlannedIsEmpty' /\ AB!ListedOnce'
    BY <1>1 DEF AB!BatchInv, AB!PlannedIsEmpty, AB!ListedOnce
  <1>3. AB!SkippedStays' /\ AB!CompletedStays'
    BY <1>1 DEF AB!BatchInv, AB!SkippedStays, AB!CompletedStays
  <1>4. AB!PoliciesHold'
    BY <1>1 DEF AB!BatchInv, AB!PoliciesHold, AB!Pending
  <1>5. QED
    BY <1>2, <1>3, <1>4 DEF AB!BatchInv

\* Steps that change the items of the list.
LEMMA ItemsChanged ==
  ASSUME AB!ItemsOrdered, AB!BatchInv, AB!Records', \A c \in Commands : AB!KnowsTheList(c)',
         AB!Listed' = AB!Listed, s1'.discovered = s1.discovered,
         s1'.status = "planned" => s1.status = "planned",
         s1'.status = "completed" => s1.status = "completed",
         s8'.again = {} => /\ s8.again = {}
                              /\ AB!In({"confirmed_skip"}) \subseteq AB!In({"confirmed_skip"})'
                              /\ AB!In(AB!Settled) \subseteq AB!In(AB!Settled)',
         \/ s1'.skipped = s1.skipped
         \/ s1'.skipped = AB!Cardinality(AB!In({"confirmed_skip"})'),
         s8'.relisted = s8.relisted,
         s8'.screened = s8.screened \/ s1'.status # "planned",
         AB!PoliciesHold'
  PROVE  AB!BatchInv'
  <1>1. AB!PlannedIsEmpty' /\ AB!ListedOnce'
    BY DEF AB!BatchInv, AB!PlannedIsEmpty, AB!ListedOnce
  <1>2. AB!SkippedStays'
    <2> DEFINE skips == AB!In({"confirmed_skip"})'
    <2>1. skips \in SUBSET Items /\ AB!In({"confirmed_skip"}) \in SUBSET Items
      BY DEF AB!In
    <2>2. AB!IsFiniteSet(skips) /\ AB!Cardinality(skips) \in Nat
          /\ AB!Cardinality(AB!In({"confirmed_skip"})) \in Nat /\ s1.skipped \in Nat
      BY <2>1, FiniteItems DEF AB!BatchInv, AB!Records
    <2>3. s8'.again = {} => AB!Cardinality(AB!In({"confirmed_skip"})) <= AB!Cardinality(skips)
      BY <2>2, FS_Subset, SameSizes
    <2> HIDE DEF skips
    <2>4. s8'.again = {} => s1'.skipped <= AB!Cardinality(skips)
      BY <2>2, <2>3 DEF AB!BatchInv, AB!SkippedStays, skips
    <2>5. QED
      BY <2>4 DEF AB!SkippedStays, skips
  <1>3. AB!CompletedStays'
    BY DEF AB!BatchInv, AB!CompletedStays, AB!Listed, AB!In, AB!Settled
  <1>4. QED
    BY <1>1, <1>2, <1>3 DEF AB!BatchInv

\* What waits and is excluded waited and was excluded before.
LEMMA NothingExcludedWaits ==
  ASSUME AB!PoliciesHold, s8'.relisted = s8.relisted, s8'.screened = s8.screened,
         \A i \in Items : s2'[i] = "pending" /\ i \in s4' /\ i \notin s8'.freed =>
            s2[i] = "pending" /\ i \in s4 /\ i \notin s8.freed
  PROVE  AB!PoliciesHold'
  BY DEF AB!PoliciesHold, AB!Pending, AB!In

-----------------------------------------------------------------------------
\* A command that ends or begins knows the list, which it has not read; so does
\* one that only goes on.
LEMMA ExitKnows ==
  ASSUME AB!Records, NEW c \in Commands, NEW code, NEW outcome, AB!Exit(c, code, outcome),
         code = 0 => s1'.status # "planned"
  PROVE  AB!KnowsTheList(c)'
  <1>1. /\ s7'[c].pc = "exited" /\ s7'[c].found = {} /\ s7'[c].todo = {}
        /\ s7'[c].code = code
    BY Exited
  <1>2. QED
    BY <1>1 DEF AB!KnowsTheList, AB!At

LEMMA CloseKnows ==
  ASSUME AB!Records, NEW c \in Commands, NEW outcome, AB!Closing(c, outcome),
         AB!KnowsTheList(c), AB!Listed \subseteq AB!Listed', s1'.status # "planned"
  PROVE  AB!KnowsTheList(c)'
  <1>1. /\ s7'[c].pc = "close" /\ s7'[c].found = s7[c].found
        /\ s7'[c].todo = s7[c].todo
    BY Closed
  <1>2. QED
    BY <1>1 DEF AB!KnowsTheList, AB!At

LEMMA MoveKnows ==
  ASSUME AB!Records, NEW c \in Commands, NEW at, AB!Move(c, at), at \notin {"capture", "exited"},
         AB!KnowsTheList(c), AB!Listed \subseteq AB!Listed',
         at \notin {"idle", "start", "scan", "apply"} => s1'.status # "planned"
  PROVE  AB!KnowsTheList(c)'
  <1>1. /\ s7'[c].pc = at /\ s7'[c].found = s7[c].found
        /\ s7'[c].todo = s7[c].todo
    BY Moved
  <1>2. QED
    BY <1>1 DEF AB!KnowsTheList, AB!At

LEMMA StartKnows ==
  ASSUME AB!Records, NEW c \in Commands, NEW doing \in {"none", "discover", "run", "sample",
         "related"},
         AB!Child(c, doing) \/ AB!Step(c, AB!Idle)
  PROVE  AB!KnowsTheList(c)'
  <1>1. /\ s7'[c].pc \in {"idle", "start"} /\ s7'[c].found = {} /\ s7'[c].todo = {}
    BY Started, Ended
  <1>2. QED
    BY <1>1 DEF AB!KnowsTheList, AB!At

\* A command that has found or listed something.
LEMMA ListKnows ==
  ASSUME AB!Records, NEW c \in Commands, NEW p, AB!Step(c, p), DOMAIN p = DOMAIN AB!Idle,
         p.doing = s7[c].doing,
         p.found \subseteq Items, p.todo \subseteq AB!Listed',
         p.pc = "capture" => p.item \in AB!Listed', p.pc # "exited",
         p.pc \notin {"idle", "start", "scan", "apply"} => s1'.status # "planned"
  PROVE  /\ DOMAIN s7' = Commands /\ \A d \in Commands \ {c} : s7'[d] = s7[d]
         /\ \A d \in Commands : AB!Recorded(d)'
         /\ AB!KnowsTheList(c)'
  <1>1. /\ DOMAIN s7' = Commands /\ \A d \in Commands \ {c} : s7'[d] = s7[d]
        /\ s7'[c] = p
    BY DEF AB!Records, AB!Step
  <1>2. QED
    BY <1>1 DEF AB!Records, AB!Recorded, AB!KnowsTheList, AB!At

\* The discovery up to its end, and the commands that begin and end.
LEMMA CommandSteps ==
  ASSUME AB!BatchInv, NEW c \in Commands,
         \/ AB!StartDiscover(c) \/ AB!Scan(c) \/ AB!Open(c) \/ AB!StartSamples(c)
         \/ AB!StartRelated(c)
         \/ AB!ClaimArchive(c) \/ AB!CommandDies(c) \/ AB!Forget(c) \/ AB!Terminal(c)
  PROVE  AB!BatchInv'
  <1>1. UNCHANGED <<s1, s2, s4, s8>>
    BY Zenon DEF AB!StartDiscover, AB!Scan, AB!Open, AB!StartSamples, AB!StartRelated,
           AB!ClaimArchive, AB!CommandDies,
           AB!Forget, AB!Terminal
  <1>2. AB!Records /\ AB!KnowsTheList(c) /\ \A d \in Commands : AB!KnowsTheList(d)
    BY DEF AB!BatchInv
  <1>3. AB!Listed' = AB!Listed
    BY <1>1 DEF AB!Listed
  <1> DEFINE Fine == /\ DOMAIN s7' = Commands /\ \A d \in Commands \ {c} : s7'[d] = s7[d]
                     /\ \A d \in Commands : AB!Recorded(d)'
                     /\ AB!KnowsTheList(c)'
  <1>4. DOMAIN s7 = Commands /\ DOMAIN s7[c] = ProcFields /\ DOMAIN AB!Idle = ProcFields
    BY <1>2 DEF AB!Records, AB!Recorded, AB!Idle, ProcFields
  <1>5. Fine
    <2>5. CASE AB!StartDiscover(c)
      <3>1. ASSUME NEW code, AB!Exit(c, code, "none"), code # 0 \/ s1.status \in AB!Discovered
            PROVE  Fine
        <4>1. code = 0 => s1'.status # "planned"
          BY <1>1, <3>1 DEF AB!Discovered
        <4>2. QED
          BY <1>2, <3>1, <4>1, Exited, ExitKnows
      <3>2. ASSUME AB!Move(c, "scan") PROVE Fine
        BY <1>2, <1>3, <3>2, Moved, MoveKnows
      <3>3. QED
        BY <2>5, <3>1, <3>2 DEF AB!StartDiscover
    <2>6. CASE AB!Scan(c)
      <3>1. ASSUME NEW code \in {1, 3}, AB!Exit(c, code, "none") PROVE Fine
        BY <1>2, <3>1, Exited, ExitKnows
      <3>2. ASSUME AB!Step(c, [s7[c] EXCEPT !.pc = "apply", !.found = AB!Accepted]) PROVE Fine
        <4> DEFINE p == [s7[c] EXCEPT !.pc = "apply", !.found = AB!Accepted]
        <4>1. /\ DOMAIN p = DOMAIN AB!Idle /\ p.pc = "apply" /\ p.found = AB!Accepted
              /\ p.todo = s7[c].todo /\ p.doing = s7[c].doing /\ AB!Step(c, p)
          BY <1>4, <3>2 DEF ProcFields
        <4>2. AB!Accepted \subseteq Items
          BY <1>2 DEF AB!Accepted, AB!Records
        <4> HIDE DEF p
        <4>3. QED
          BY <1>2, <1>3, <4>1, <4>2, ListKnows DEF AB!KnowsTheList
      <3>3. QED
        BY <2>6, <3>1, <3>2 DEF AB!Scan
    <2>7. CASE AB!Open(c)
      <3>1. s1'.status # "planned"
        BY <1>1, <1>2, <2>7 DEF AB!Open, AB!KnowsTheList, AB!At
      <3>2. ASSUME NEW outcome, AB!Closing(c, outcome) PROVE Fine
        BY <1>2, <1>3, <3>1, <3>2, Closed, CloseKnows
      <3>3. ASSUME AB!Exit(c, 2, "none") PROVE Fine
        BY <1>2, <3>3, Exited, ExitKnows
      <3>4. ASSUME AB!Move(c, s7[c].doing) PROVE Fine
        <4>1. PICK doing \in {"none", "discover", "run", "sample", "related"} :
                 doing = s7[c].doing
          BY <1>2 DEF AB!Records, AB!Recorded
        <4>2. AB!Move(c, doing)
          BY <3>4, <4>1
        <4>3. QED
          BY <1>2, <1>3, <3>1, <4>1, <4>2, Moved, MoveKnows
      <3>5. QED
        BY <2>7, <3>2, <3>3, <3>4 DEF AB!Open
    <2>8. CASE AB!StartSamples(c) \/ AB!StartRelated(c)
      <3>1. ASSUME AB!Exit(c, 1, "none") PROVE Fine
        BY <1>2, <3>1, Exited, ExitKnows
      <3>2. ASSUME NEW todo \in SUBSET AB!Listed, s1.status # "planned",
                   AB!Step(c, [s7[c] EXCEPT !.pc = "open", !.todo = todo])
            PROVE  Fine
        <4> DEFINE p == [s7[c] EXCEPT !.pc = "open", !.todo = todo]
        <4>1. /\ DOMAIN p = DOMAIN AB!Idle /\ p.pc = "open" /\ p.todo = todo
              /\ p.found = s7[c].found /\ p.doing = s7[c].doing /\ AB!Step(c, p)
          BY <1>4, <3>2 DEF ProcFields
        <4>2. s1'.status # "planned"
          BY <1>1, <3>2
        <4> HIDE DEF p
        <4>3. QED
          BY <1>2, <1>3, <4>1, <4>2, ListKnows DEF AB!KnowsTheList
      <3>3. AB!Pending \in SUBSET AB!Listed /\ \A i \in AB!Listed : s1.status # "planned"
        BY DEF AB!Pending, AB!In, AB!Listed, AB!BatchInv, AB!PlannedIsEmpty
      <3>4. CASE AB!StartSamples(c)
        BY <3>1, <3>2, <3>3, <3>4, Zenon DEF AB!StartSamples
      <3>5. CASE AB!StartRelated(c)
        BY <3>2, <3>3, <3>5, Zenon DEF AB!StartRelated
      <3>6. QED
        BY <2>8, <3>4, <3>5
    <2>9. CASE AB!ClaimArchive(c) \/ AB!Forget(c) \/ AB!Terminal(c)
      <3>1. \/ \E doing \in {"none", "discover", "run", "sample", "related"} : AB!Child(c, doing)
            \/ AB!Step(c, AB!Idle)
        BY <2>9 DEF AB!ClaimArchive, AB!Forget, AB!Terminal
      <3>2. QED
        BY <1>2, <3>1, StartKnows, Started, Ended
    <2>10. CASE AB!CommandDies(c)
      BY <1>2, <2>10, Exited, ExitKnows DEF AB!CommandDies
    <2>11. QED
      BY <2>5, <2>6, <2>7, <2>8, <2>9, <2>10
  <1>12. \A d \in Commands : AB!KnowsTheList(d)'
    BY <1>1, <1>2, <1>3, <1>5, OthersKnow
  <1>13. AB!Records'
    <2>1. UNCHANGED s3 /\ (s6' = s6 \/ s6' = [job |-> "archive", child |-> c])
      BY Zenon DEF AB!StartDiscover, AB!Scan, AB!Open, AB!StartSamples, AB!StartRelated,
             AB!ClaimArchive, AB!CommandDies,
             AB!Forget, AB!Terminal
    <2>2. DOMAIN s6' = {"job", "child"} /\ (s6' # AB!Free => s6'.child \in Commands)
      BY <1>2, <2>1 DEF AB!Records, AB!Free
    <2>3. QED
      BY <1>1, <1>2, <1>5, <2>1, <2>2 DEF AB!Records
  <1>14. QED
    BY <1>1, <1>12, <1>13, BatchKept

\* Nothing happened to a command.
LEMMA AllKnow ==
  ASSUME AB!Records, \A d \in Commands : AB!KnowsTheList(d), UNCHANGED s7,
         AB!Listed \subseteq AB!Listed', s1'.status = "planned" => s1.status = "planned"
  PROVE  \A d \in Commands : AB!KnowsTheList(d)'
  <1> SUFFICES ASSUME NEW d \in Commands PROVE AB!KnowsTheList(d)'
    OBVIOUS
  <1>1. s7'[d] = s7[d] /\ AB!KnowsTheList(d)
    OBVIOUS
  <1>2. QED
    BY <1>1 DEF AB!KnowsTheList, AB!At

\* What applying policies does to the list.
LEMMA PoliciesApplied ==
  ASSUME AB!ItemsOrdered, AB!Records, NEW matched \in SUBSET Items, AB!ApplyPolicies(matched)
  PROVE  /\ DOMAIN s2' = Items /\ AB!Listed' = AB!Listed
         /\ DOMAIN s1' = DOMAIN s1 /\ s1'.status = s1.status
         /\ s1'.discovered = s1.discovered /\ s1'.skipped \in Nat
         /\ \/ s1'.skipped = s1.skipped
            \/ s1'.skipped = AB!Cardinality(AB!In({"confirmed_skip"})')
         /\ AB!In({"confirmed_skip"}) \subseteq AB!In({"confirmed_skip"})'
         /\ AB!In(AB!Settled) \subseteq AB!In(AB!Settled)'
         /\ \A i \in Items : s2'[i] = "pending" => s2[i] = "pending" /\ i \notin matched
  <1>1. /\ DOMAIN s2' = Items
        /\ \A i \in Items : s2'[i] = IF s2[i] = "pending" /\ i \in matched
                                       THEN "confirmed_skip" ELSE s2[i]
    BY DEF AB!ApplyPolicies, AB!Skip, AB!Pending, AB!In
  <1>2. AB!In({"confirmed_skip"})' = AB!In({"confirmed_skip"}) \cup (AB!Pending \cap matched)
    BY <1>1 DEF AB!In, AB!Pending
  <1>3. AB!Listed' = AB!Listed /\ AB!In(AB!Settled) \subseteq AB!In(AB!Settled)'
    BY <1>1 DEF AB!In, AB!Listed, AB!Settled
  <1>4. AB!Cardinality(AB!In({"confirmed_skip"})') \in Nat
    <2> DEFINE skips == AB!In({"confirmed_skip"})'
    <2>1. skips \in SUBSET Items
      BY <1>1 DEF AB!In
    <2> HIDE DEF skips
    <2>2. AB!Cardinality(skips) \in Nat
      BY <2>1, FiniteItems
    <2>3. QED
      BY <2>2 DEF skips
  <1>5. /\ DOMAIN s1' = DOMAIN s1 /\ s1'.status = s1.status
        /\ s1'.discovered = s1.discovered
        /\ \/ s1'.skipped = s1.skipped
           \/ s1'.skipped = AB!Cardinality(AB!In({"confirmed_skip"})')
    BY <1>2, Zenon DEF AB!ApplyPolicies, AB!Records
  <1>6. QED
    BY <1>1, <1>2, <1>3, <1>4, <1>5 DEF AB!Records

\* One item changes its status while it stays on the list.
LEMMA OneItem ==
  ASSUME AB!Records, NEW i \in AB!Listed, NEW status, s2' = [s2 EXCEPT ![i] = status],
         status # "none", s8'.again = {} => s2[i] \notin AB!Settled
  PROVE  /\ DOMAIN s2' = Items /\ AB!Listed' = AB!Listed
         /\ s8'.again = {} => /\ AB!In({"confirmed_skip"}) \subseteq AB!In({"confirmed_skip"})'
                                 /\ AB!In(AB!Settled) \subseteq AB!In(AB!Settled)'
         /\ \A j \in Items \ {i} : s2'[j] = s2[j]
         /\ s2'[i] = status
  BY DEF AB!Records, AB!Listed, AB!In, AB!Settled

-----------------------------------------------------------------------------
\* The discovery that finds what it found listed makes no difference; the first
\* to come makes the list.
LEMMA ApplyStep ==
  ASSUME AB!ItemsOrdered, AB!BatchInv, NEW c \in Commands, AB!Apply(c)
  PROVE  AB!BatchInv'
  <1> DEFINE found == s7[c].found
  <1>1. AB!Records /\ AB!KnowsTheList(c) /\ \A d \in Commands : AB!KnowsTheList(d)
    BY DEF AB!BatchInv
  <1>2. CASE /\ UNCHANGED <<s1, s2, s8>>
             /\ \E code \in {0, 1} : AB!Exit(c, code, "none")
                /\ (code = 0 => s1.status = "ready")
    <2>1. UNCHANGED <<s3, s4, s6>>
      BY DEF AB!Apply
    <2>2. PICK code \in {0, 1} : AB!Exit(c, code, "none") /\ (code = 0 => s1.status = "ready")
      BY <1>2
    <2>3. AB!KnowsTheList(c)'
      BY <1>1, <1>2, <2>2, ExitKnows
    <2>4. /\ DOMAIN s7' = Commands /\ \A d \in Commands \ {c} : s7'[d] = s7[d]
          /\ \A d \in Commands : AB!Recorded(d)'
      BY <1>1, <2>2, Exited
    <2>5. \A d \in Commands : AB!KnowsTheList(d)'
      BY <1>1, <1>2, <2>3, <2>4, OthersKnow DEF AB!Listed
    <2>6. AB!Records'
      BY <1>1, <1>2, <2>1, <2>4 DEF AB!Records
    <2>7. QED
      BY <1>2, <2>1, <2>5, <2>6, BatchKept
  <1>3. CASE /\ AB!May(s1.status, "discovering") /\ found \cap AB!Listed = {}
             /\ s2' = [i \in Items |-> IF i \in found THEN "pending" ELSE s2[i]]
             /\ s1' = [s1 EXCEPT !.status = "ready", !.discovered = AB!Cardinality(found)]
             /\ s8' = [s8 EXCEPT !.relisted = s1.status # "planned"]
             /\ AB!Exit(c, 0, "none")
    <2>1. UNCHANGED <<s3, s4, s6>>
      BY DEF AB!Apply
    <2>2. found \in SUBSET Items /\ AB!Cardinality(found) \in Nat
      BY <1>1, FiniteItems DEF AB!KnowsTheList
    <2>3. /\ DOMAIN s1' = DOMAIN s1 /\ s1'.status = "ready"
          /\ s1'.discovered = AB!Cardinality(found) /\ s1'.skipped = s1.skipped
          /\ DOMAIN s8' = DOMAIN s8 /\ s8'.again = s8.again
          /\ s8'.screened = s8.screened
          /\ (s8'.relisted <=> s1.status # "planned")
      BY <1>1, <1>3, Zenon DEF AB!Records
    <2>4. AB!Listed' = AB!Listed \cup found
      BY <1>3, <2>2 DEF AB!Listed
    <2>5. /\ DOMAIN s7' = Commands /\ \A d \in Commands \ {c} : s7'[d] = s7[d]
          /\ \A d \in Commands : AB!Recorded(d)'
      BY <1>1, <1>3, Exited
    <2>6. AB!KnowsTheList(c)'
      BY <1>1, <1>3, <2>3, ExitKnows
    <2>7. \A d \in Commands : AB!KnowsTheList(d)'
      BY <1>1, <2>3, <2>4, <2>5, <2>6, OthersKnow
    <2>8. AB!Records'
      BY <1>1, <1>3, <2>1, <2>2, <2>3, <2>5 DEF AB!Records
    <2>9. AB!In({"confirmed_skip"})' = AB!In({"confirmed_skip"})
      BY <1>3, <2>2 DEF AB!In, AB!Listed
    <2>10. AB!SkippedStays'
      BY <2>3, <2>9 DEF AB!BatchInv, AB!SkippedStays
    <2>11. AB!ListedOnce' /\ AB!PoliciesHold'
      <3> SUFFICES ASSUME s1.status = "planned"
                   PROVE  s1'.discovered = AB!Cardinality(AB!Listed') /\ ~s8'.screened
        BY <2>3 DEF AB!ListedOnce, AB!PoliciesHold
      <3>1. AB!Listed = {} /\ ~s8.screened
        BY DEF AB!BatchInv, AB!PlannedIsEmpty
      <3>2. QED
        BY <2>3, <2>4, <3>1
    <2>12. QED
      BY <2>3, <2>7, <2>8, <2>10, <2>11 DEF AB!BatchInv, AB!PlannedIsEmpty, AB!CompletedStays
  <1>4. QED
    BY <1>2, <1>3 DEF AB!Apply, AB!Reapplied

\* A run counts, and closes a batch that is settled.
LEMMA CloseStep ==
  ASSUME AB!ItemsOrdered, AB!BatchInv, NEW c \in Commands, AB!Close(c)
  PROVE  AB!BatchInv'
  <1>1. AB!Records /\ AB!KnowsTheList(c) /\ \A d \in Commands : AB!KnowsTheList(d)
    BY DEF AB!BatchInv
  <1>2. s1.status # "planned" /\ UNCHANGED <<s2, s3, s4, s6, s8>>
    BY <1>1 DEF AB!Close, AB!KnowsTheList, AB!At
  <1>3. /\ DOMAIN s1' = DOMAIN s1 /\ s1'.discovered = s1.discovered
        /\ s1'.skipped = AB!Cardinality(AB!In({"confirmed_skip"}))
        /\ s1'.status = IF AB!AllDone THEN "completed" ELSE "paused"
    BY <1>1 DEF AB!Records, AB!Close
  <1>4. AB!Listed' = AB!Listed /\ \A statuses : AB!In(statuses)' = AB!In(statuses)
    BY <1>2 DEF AB!Listed, AB!In
  <1>5. AB!In({"confirmed_skip"}) \in SUBSET Items
        /\ AB!Cardinality(AB!In({"confirmed_skip"})) \in Nat
    BY FiniteItems DEF AB!In
  <1>6. \E code \in {0, 2}, outcome \in {"completed", s7[c].outcome} : AB!Exit(c, code, outcome)
    BY DEF AB!Close
  <1>7. PICK code \in {0, 2}, outcome \in {"completed", s7[c].outcome} : AB!Exit(c, code, outcome)
    BY <1>6
  <1>8. /\ DOMAIN s7' = Commands /\ \A d \in Commands \ {c} : s7'[d] = s7[d]
        /\ \A d \in Commands : AB!Recorded(d)'
    BY <1>1, <1>7, Exited
  <1>9. AB!KnowsTheList(c)'
    BY <1>1, <1>3, <1>7, ExitKnows
  <1>10. \A d \in Commands : AB!KnowsTheList(d)'
    BY <1>1, <1>2, <1>3, <1>4, <1>8, <1>9, OthersKnow
  <1>11. AB!Records'
    BY <1>1, <1>2, <1>3, <1>5, <1>8 DEF AB!Records
  <1>12. AB!CompletedStays'
    <2> SUFFICES ASSUME ~s8.relisted, AB!AllDone PROVE AB!Listed = AB!In(AB!Settled)
      BY <1>2, <1>3, <1>4 DEF AB!CompletedStays
    <2>1. AB!Cardinality(AB!In(AB!Settled)) = AB!Cardinality(AB!Listed)
      BY DEF AB!AllDone, AB!BatchInv, AB!ListedOnce
    <2>2. AB!In(AB!Settled) \subseteq AB!Listed /\ AB!Listed \in SUBSET Items
      BY DEF AB!In, AB!Settled, AB!Listed
    <2>3. AB!IsFiniteSet(AB!Listed)
      BY <2>2, FiniteItems
    <2>4. QED
      BY <2>1, <2>2, <2>3, FS_Subset, SameSizes
  <1>13. AB!SkippedStays'
    BY <1>2, <1>3, <1>4, <1>5 DEF AB!SkippedStays
  <1>14. AB!PlannedIsEmpty' /\ AB!ListedOnce' /\ AB!PoliciesHold'
    BY <1>2, <1>3, <1>4 DEF AB!BatchInv, AB!PlannedIsEmpty, AB!ListedOnce, AB!PoliciesHold,
                            AB!Pending
  <1>15. QED
    BY <1>10, <1>11, <1>12, <1>13, <1>14 DEF AB!BatchInv

-----------------------------------------------------------------------------
\* A run that begins skips, reuses, and takes up what was interrupted.
LEMMA StartRunStep ==
  ASSUME AB!ItemsOrdered, AB!BatchInv, NEW c \in Commands, AB!StartRun(c)
  PROVE  AB!BatchInv'
  <1>1. AB!Records /\ AB!KnowsTheList(c) /\ \A d \in Commands : AB!KnowsTheList(d)
    BY DEF AB!BatchInv
  <1>2. UNCHANGED <<s3, s4, s6>>
    BY DEF AB!StartRun
  <1>3. CASE s1.status \notin {"ready", "running"}
    <2>1. AB!Exit(c, 1, "none") /\ UNCHANGED <<s1, s2, s8>>
      BY <1>3 DEF AB!StartRun
    <2>2. /\ DOMAIN s7' = Commands /\ \A d \in Commands \ {c} : s7'[d] = s7[d]
          /\ \A d \in Commands : AB!Recorded(d)'
      BY <1>1, <2>1, Exited
    <2>3. AB!KnowsTheList(c)'
      BY <1>1, <2>1, ExitKnows
    <2>4. \A d \in Commands : AB!KnowsTheList(d)'
      BY <1>1, <2>1, <2>2, <2>3, OthersKnow DEF AB!Listed
    <2>5. AB!Records'
      BY <1>1, <1>2, <2>1, <2>2 DEF AB!Records
    <2>6. QED
      BY <1>2, <2>1, <2>4, <2>5, BatchKept
  <1>4. CASE s1.status \in {"ready", "running"}
    <2>1. /\ s1' = [s1 EXCEPT !.status = "running"]
          /\ s8' = [s8 EXCEPT !.freed = @ \cup AB!In({"archiving"})]
          /\ AB!Move(c, "open")
      BY <1>4 DEF AB!StartRun
    <2>2. /\ DOMAIN s2' = Items
          /\ \A i \in Items :
                \/ s2[i] = "pending" /\ s2'[i] \in {"confirmed_skip", "archived"}
                \/ s2[i] = "archiving" /\ s2'[i] = "pending"
                \/ s2'[i] = s2[i]
      BY <1>4 DEF AB!StartRun, AB!Pending, AB!In
    <2>3. /\ DOMAIN s1' = DOMAIN s1 /\ s1'.status = "running"
          /\ s1'.discovered = s1.discovered /\ s1'.skipped = s1.skipped
          /\ DOMAIN s8' = DOMAIN s8 /\ s8'.again = s8.again
          /\ s8'.relisted = s8.relisted /\ s8'.screened = s8.screened
          /\ s8'.freed = s8.freed \cup AB!In({"archiving"})
      BY <1>1, <2>1 DEF AB!Records
    <2>4. AB!Listed' = AB!Listed
          /\ AB!In({"confirmed_skip"}) \subseteq AB!In({"confirmed_skip"})'
          /\ AB!In(AB!Settled) \subseteq AB!In(AB!Settled)'
      BY <2>2 DEF AB!Listed, AB!In, AB!Settled
    <2>5. /\ DOMAIN s7' = Commands /\ \A d \in Commands \ {c} : s7'[d] = s7[d]
          /\ \A d \in Commands : AB!Recorded(d)'
      BY <1>1, <2>1, Moved
    <2>6. AB!KnowsTheList(c)'
      BY <1>1, <2>1, <2>3, <2>4, MoveKnows
    <2>7. \A d \in Commands : AB!KnowsTheList(d)'
      BY <1>1, <2>3, <2>4, <2>5, <2>6, OthersKnow
    <2>8. AB!Records'
      BY <1>1, <1>2, <2>2, <2>3, <2>5 DEF AB!Records
    <2>9. AB!PoliciesHold'
      <3>1. \A i \in Items : s2'[i] = "pending" /\ i \notin s8'.freed => s2[i] = "pending"
        BY <2>2, <2>3 DEF AB!In
      <3>2. QED
        BY <1>2, <2>3, <3>1, NothingExcludedWaits DEF AB!BatchInv
    <2>10. QED
      BY <2>3, <2>4, <2>7, <2>8, <2>9, ItemsChanged
  <1>5. QED
    BY <1>3, <1>4

\* A run takes the newest item that waits.
LEMMA TakeStep ==
  ASSUME AB!ItemsOrdered, AB!BatchInv, NEW c \in Commands, AB!Take(c)
  PROVE  AB!BatchInv'
  <1>1. AB!Records /\ AB!KnowsTheList(c) /\ \A d \in Commands : AB!KnowsTheList(d)
    BY DEF AB!BatchInv
  <1>2. s1.status # "planned" /\ UNCHANGED <<s1, s3, s4, s6, s8>>
    BY <1>1 DEF AB!Take, AB!KnowsTheList, AB!At
  <1>3. CASE UNCHANGED s2
    <2>1. \E outcome : AB!Closing(c, outcome)
      <3>1. CASE \E outcome \in {"paused", "drained"} : AB!Closing(c, outcome)
        BY <3>1
      <3>2. CASE /\ AB!Pending # {} /\ s2' = [s2 EXCEPT ![AB!Max(AB!Pending)] = "archiving"]
        <4>1. AB!Max(AB!Pending) \in AB!Pending /\ s2[AB!Max(AB!Pending)] = "pending"
          BY <3>2, MaxIsIn DEF AB!Pending, AB!In
        <4>2. s2'[AB!Max(AB!Pending)] = "archiving"
          BY <1>1, <3>2, <4>1 DEF AB!Records, AB!Pending, AB!In
        <4>3. QED
          BY <1>3, <4>1, <4>2
      <3>3. QED
        BY <3>1, <3>2 DEF AB!Take
    <2>2. PICK outcome : AB!Closing(c, outcome)
      BY <2>1
    <2>3. /\ DOMAIN s7' = Commands /\ \A d \in Commands \ {c} : s7'[d] = s7[d]
          /\ \A d \in Commands : AB!Recorded(d)'
      BY <1>1, <2>2, Closed
    <2>4. AB!KnowsTheList(c)'
      BY <1>1, <1>2, <1>3, <2>2, CloseKnows DEF AB!Listed
    <2>5. \A d \in Commands : AB!KnowsTheList(d)'
      BY <1>1, <1>2, <1>3, <2>3, <2>4, OthersKnow DEF AB!Listed
    <2>6. AB!Records'
      BY <1>1, <1>2, <1>3, <2>3 DEF AB!Records
    <2>7. QED
      BY <1>2, <1>3, <2>5, <2>6, BatchKept
  <1>4. CASE /\ AB!Pending # {} /\ s2' = [s2 EXCEPT ![AB!Max(AB!Pending)] = "archiving"]
             /\ AB!Step(c, [s7[c] EXCEPT !.pc = "capture", !.item = AB!Max(AB!Pending)])
    <2>1. PICK i \in AB!Pending : i = AB!Max(AB!Pending)
      BY <1>4, MaxIsIn DEF AB!Pending, AB!In
    <2>2. i \in AB!Listed /\ s2[i] = "pending" /\ s2[i] \notin AB!Settled
      BY DEF AB!Pending, AB!In, AB!Listed, AB!Settled
    <2>3. s2' = [s2 EXCEPT ![i] = "archiving"]
      BY <1>4, <2>1
    <2>4. /\ DOMAIN s2' = Items /\ AB!Listed' = AB!Listed
          /\ s8'.again = {} => /\ AB!In({"confirmed_skip"}) \subseteq AB!In({"confirmed_skip"})'
                                  /\ AB!In(AB!Settled) \subseteq AB!In(AB!Settled)'
          /\ \A j \in Items \ {i} : s2'[j] = s2[j]
          /\ s2'[i] = "archiving"
      BY <1>1, <2>2, <2>3, OneItem, Zenon
    <2>5. /\ DOMAIN s7' = Commands /\ \A d \in Commands \ {c} : s7'[d] = s7[d]
          /\ \A d \in Commands : AB!Recorded(d)'
          /\ AB!KnowsTheList(c)'
      <3> DEFINE p == [s7[c] EXCEPT !.pc = "capture", !.item = AB!Max(AB!Pending)]
      <3>1. /\ DOMAIN p = DOMAIN AB!Idle /\ p.doing = s7[c].doing /\ p.pc = "capture"
            /\ p.item = i /\ p.found = s7[c].found /\ p.todo = s7[c].todo
            /\ AB!Step(c, p)
        BY <1>1, <1>4, <2>1 DEF AB!Records, AB!Recorded, AB!Idle
      <3> HIDE DEF p
      <3>2. QED
        BY <1>1, <1>2, <2>2, <2>4, <3>1, ListKnows DEF AB!KnowsTheList
    <2>6. \A d \in Commands : AB!KnowsTheList(d)'
      BY <1>1, <1>2, <2>4, <2>5, OthersKnow
    <2>7. AB!Records'
      BY <1>1, <1>2, <2>4, <2>5 DEF AB!Records
    <2>8. AB!PoliciesHold'
      <3>1. \A j \in Items : s2'[j] = "pending" => s2[j] = "pending"
        BY <2>4
      <3>2. QED
        BY <1>2, <3>1, NothingExcludedWaits DEF AB!BatchInv
    <2>9. QED
      BY <1>2, <2>4, <2>6, <2>7, <2>8, ItemsChanged
  <1>5. QED
    BY <1>3, <1>4 DEF AB!Take

\* A capture ends: the item is archived, failed or deeper than allowed.
LEMMA ArchiveStep ==
  ASSUME AB!ItemsOrdered, AB!BatchInv, NEW c \in Commands, AB!Archive(c)
  PROVE  AB!BatchInv'
  <1>1. AB!Records /\ AB!KnowsTheList(c) /\ \A d \in Commands : AB!KnowsTheList(d)
    BY DEF AB!BatchInv
  <1>2. s1.status # "planned" /\ UNCHANGED <<s1, s3, s4, s6>>
    BY <1>1 DEF AB!Archive, AB!KnowsTheList, AB!At
  <1>3. PICK i \in AB!Listed : i = s7[c].item
    BY <1>1 DEF AB!Archive, AB!KnowsTheList
  <1>4. s8' = AB!Noted(i)
    BY <1>3 DEF AB!Archive
  <1>5. /\ DOMAIN s8' = DOMAIN s8 /\ s8'.relisted = s8.relisted
        /\ s8'.screened = s8.screened /\ s8'.freed = s8.freed
        /\ s8'.again = {} => s8.again = {} /\ s2[i] \notin AB!Settled
    BY <1>1, <1>4 DEF AB!Noted, AB!Records
  <1>6. \E status \in {"archived", "failed", "depth_limit_reached"} :
           /\ s2' = [s2 EXCEPT ![i] = status]
           /\ \/ AB!Step(c, [s7[c] EXCEPT !.pc = "run", !.item = NoBytes])
              \/ \E outcome : AB!Closing(c, outcome)
    BY <1>3 DEF AB!Archive
  <1>7. PICK status \in {"archived", "failed", "depth_limit_reached"} :
           /\ s2' = [s2 EXCEPT ![i] = status]
           /\ \/ AB!Step(c, [s7[c] EXCEPT !.pc = "run", !.item = NoBytes])
              \/ \E outcome : AB!Closing(c, outcome)
    BY <1>6, Zenon
  <1>8. /\ DOMAIN s2' = Items /\ AB!Listed' = AB!Listed
        /\ s8'.again = {} => /\ AB!In({"confirmed_skip"}) \subseteq AB!In({"confirmed_skip"})'
                                /\ AB!In(AB!Settled) \subseteq AB!In(AB!Settled)'
        /\ \A j \in Items \ {i} : s2'[j] = s2[j]
        /\ s2'[i] = status
    BY <1>1, <1>5, <1>7, OneItem, Zenon
  <1>9. /\ DOMAIN s7' = Commands /\ \A d \in Commands \ {c} : s7'[d] = s7[d]
        /\ \A d \in Commands : AB!Recorded(d)'
        /\ AB!KnowsTheList(c)'
    <2>1. CASE AB!Step(c, [s7[c] EXCEPT !.pc = "run", !.item = NoBytes])
      <3> DEFINE p == [s7[c] EXCEPT !.pc = "run", !.item = NoBytes]
      <3>1. /\ DOMAIN p = DOMAIN AB!Idle /\ p.doing = s7[c].doing /\ p.pc = "run"
            /\ p.found = s7[c].found /\ p.todo = s7[c].todo
        BY <1>1 DEF AB!Records, AB!Recorded, AB!Idle
      <3> HIDE DEF p
      <3>2. QED
        BY <1>1, <1>2, <1>8, <2>1, <3>1, ListKnows, Zenon DEF AB!KnowsTheList, p
    <2>2. ASSUME NEW outcome, AB!Closing(c, outcome)
          PROVE  /\ DOMAIN s7' = Commands /\ \A d \in Commands \ {c} : s7'[d] = s7[d]
                 /\ \A d \in Commands : AB!Recorded(d)'
                 /\ AB!KnowsTheList(c)'
      BY <1>1, <1>2, <1>8, <2>2, Closed, CloseKnows
    <2>3. QED
      BY <1>7, <2>1, <2>2
  <1>10. \A d \in Commands : AB!KnowsTheList(d)'
    BY <1>1, <1>2, <1>8, <1>9, OthersKnow
  <1>11. AB!Records'
    BY <1>1, <1>2, <1>5, <1>8, <1>9 DEF AB!Records
  <1>12. AB!PoliciesHold'
    <2>1. \A j \in Items : s2'[j] = "pending" => s2[j] = "pending"
      BY <1>7, <1>8
    <2>2. QED
      BY <1>2, <1>5, <2>1, NothingExcludedWaits DEF AB!BatchInv
  <1>13. QED
    BY <1>2, <1>5, <1>8, <1>10, <1>11, <1>12, ItemsChanged

\* So does one of the terminal's, whatever the batch was meanwhile.
LEMMA CaptureStep ==
  ASSUME AB!ItemsOrdered, AB!BatchInv, NEW c \in Commands, AB!Capture(c)
  PROVE  AB!BatchInv'
  <1>1. AB!Records /\ AB!KnowsTheList(c) /\ \A d \in Commands : AB!KnowsTheList(d)
    BY DEF AB!BatchInv
  <1>2. s1.status # "planned" /\ UNCHANGED <<s3, s4, s6>>
    BY <1>1 DEF AB!Capture, AB!KnowsTheList, AB!At
  <1>3. CASE s7[c].todo = {}
    <2>1. AB!Exit(c, 0, "none") /\ UNCHANGED <<s1, s2, s8>>
      BY <1>3 DEF AB!Capture
    <2>2. /\ DOMAIN s7' = Commands /\ \A d \in Commands \ {c} : s7'[d] = s7[d]
          /\ \A d \in Commands : AB!Recorded(d)'
      BY <1>1, <2>1, Exited
    <2>3. AB!KnowsTheList(c)'
      BY <1>1, <1>2, <2>1, ExitKnows
    <2>4. \A d \in Commands : AB!KnowsTheList(d)'
      BY <1>1, <2>1, <2>2, <2>3, OthersKnow DEF AB!Listed
    <2>5. AB!Records'
      BY <1>1, <1>2, <2>1, <2>2 DEF AB!Records
    <2>6. QED
      BY <1>2, <2>1, <2>4, <2>5, BatchKept
  <1>4. CASE s7[c].todo # {}
    <2>1. s7[c].todo \in SUBSET Items /\ s7[c].todo \subseteq AB!Listed
      BY <1>1 DEF AB!KnowsTheList, AB!Listed
    <2>2. PICK i \in s7[c].todo : i = AB!Max(s7[c].todo)
      BY <1>4, <2>1, MaxIsIn
    <2>3. i \in AB!Listed /\ s8' = AB!Noted(i)
          /\ AB!Step(c, [s7[c] EXCEPT !.todo = @ \ {i}])
      BY <1>4, <2>1, <2>2 DEF AB!Capture
    <2>4. \E status : /\ s2' = [s2 EXCEPT ![i] = status]
                      /\ status \in {"archived", "failed", s2[i]}
                      /\ s1' = s1 \/ s1' = [s1 EXCEPT !.status = "running"]
      <3>1. CASE \E status \in {"archived", "failed"} :
                    /\ s2' = [s2 EXCEPT ![i] = status]
                    /\ s1' = [s1 EXCEPT !.status = "running"]
        BY <3>1, Zenon
      <3>2. CASE /\ UNCHANGED s1
                 /\ s2' = [s2 EXCEPT ![i] = IF s7[c].doing = "sample" THEN "failed" ELSE @]
        BY <3>2, Zenon
      <3>3. QED
        BY <1>4, <2>2, <3>1, <3>2 DEF AB!Capture
    <2>5. PICK status : /\ s2' = [s2 EXCEPT ![i] = status]
                        /\ status \in {"archived", "failed", s2[i]}
                        /\ s1' = s1 \/ s1' = [s1 EXCEPT !.status = "running"]
      BY <2>4, Zenon
    <2>6. /\ DOMAIN s8' = DOMAIN s8 /\ s8'.relisted = s8.relisted
          /\ s8'.screened = s8.screened /\ s8'.freed = s8.freed
          /\ s8'.again = {} => s8.again = {} /\ s2[i] \notin AB!Settled
      BY <1>1, <2>3 DEF AB!Noted, AB!Records
    <2>7. status # "none"
      BY <2>3, <2>5 DEF AB!Listed
    <2>8. /\ DOMAIN s2' = Items /\ AB!Listed' = AB!Listed
          /\ s8'.again = {} => /\ AB!In({"confirmed_skip"}) \subseteq AB!In({"confirmed_skip"})'
                                  /\ AB!In(AB!Settled) \subseteq AB!In(AB!Settled)'
          /\ \A j \in Items \ {i} : s2'[j] = s2[j]
          /\ s2'[i] = status
      BY <1>1, <2>3, <2>5, <2>6, <2>7, OneItem, Zenon
    <2>9. /\ DOMAIN s1' = DOMAIN s1 /\ s1'.status \in {"running", s1.status}
          /\ s1'.discovered = s1.discovered /\ s1'.skipped = s1.skipped
      BY <1>1, <2>5 DEF AB!Records
    <2>10. /\ DOMAIN s7' = Commands /\ \A d \in Commands \ {c} : s7'[d] = s7[d]
           /\ \A d \in Commands : AB!Recorded(d)'
           /\ AB!KnowsTheList(c)'
      <3> DEFINE p == [s7[c] EXCEPT !.todo = @ \ {i}]
      <3>1. /\ DOMAIN p = DOMAIN AB!Idle /\ p.doing = s7[c].doing /\ p.pc = s7[c].pc
            /\ p.found = s7[c].found /\ p.todo = s7[c].todo \ {i}
        BY <1>1 DEF AB!Records, AB!Recorded, AB!Idle
      <3>2. s7[c].pc \in {"sample", "related"}
        BY DEF AB!Capture
      <3> HIDE DEF p
      <3>3. QED
        BY <1>1, <1>2, <2>3, <2>8, <2>9, <3>1, <3>2, ListKnows, Zenon DEF AB!KnowsTheList, p
    <2>11. \A d \in Commands : AB!KnowsTheList(d)'
      BY <1>1, <1>2, <2>8, <2>9, <2>10, OthersKnow
    <2>12. AB!Records'
      BY <1>1, <1>2, <2>6, <2>8, <2>9, <2>10 DEF AB!Records
    <2>13. AB!PoliciesHold'
      <3>1. \A j \in Items : s2'[j] = "pending" => s2[j] = "pending"
        BY <2>5, <2>8
      <3>2. QED
        BY <1>2, <2>6, <3>1, NothingExcludedWaits DEF AB!BatchInv
    <2>14. QED
      BY <1>2, <2>6, <2>8, <2>9, <2>11, <2>12, <2>13, ItemsChanged
  <1>5. QED
    BY <1>3, <1>4

-----------------------------------------------------------------------------
\* The worker claims a discovery, collects a child or gives it up.
LEMMA ClaimDiscoveryStep ==
  ASSUME AB!ItemsOrdered, AB!BatchInv, NEW c \in Commands, AB!ClaimDiscovery(c)
  PROVE  AB!BatchInv'
  <1>1. AB!Records /\ AB!KnowsTheList(c) /\ \A d \in Commands : AB!KnowsTheList(d)
    BY DEF AB!BatchInv
  <1>2. UNCHANGED <<s2, s3, s4, s8>> /\ AB!Listed' = AB!Listed
    BY DEF AB!ClaimDiscovery, AB!Listed
  <1>3. CASE UNCHANGED <<s1, s6, s7>>
    <2>1. AB!Records'
      BY <1>1, <1>2, <1>3 DEF AB!Records, AB!Recorded
    <2>2. \A d \in Commands : AB!KnowsTheList(d)'
      BY <1>1, <1>2, <1>3, AllKnow
    <2>3. QED
      BY <1>2, <1>3, <2>1, <2>2, BatchKept
  <1>4. CASE /\ s1' = [s1 EXCEPT !.frozen = TRUE]
             /\ s6' = [job |-> "discovery", child |-> c]
             /\ AB!Child(c, "discover")
    <2>1. /\ DOMAIN s1' = DOMAIN s1 /\ s1'.status = s1.status
          /\ s1'.discovered = s1.discovered /\ s1'.skipped = s1.skipped
      BY <1>1, <1>4 DEF AB!Records
    <2>2. /\ DOMAIN s7' = Commands /\ \A d \in Commands \ {c} : s7'[d] = s7[d]
          /\ \A d \in Commands : AB!Recorded(d)'
          /\ AB!KnowsTheList(c)'
      BY <1>1, <1>4, Started, StartKnows
    <2>3. \A d \in Commands : AB!KnowsTheList(d)'
      BY <1>1, <1>2, <2>1, <2>2, OthersKnow
    <2>4. AB!Records'
      BY <1>1, <1>2, <1>4, <2>1, <2>2 DEF AB!Records
    <2>5. QED
      BY <1>2, <2>1, <2>3, <2>4, BatchKept
  <1>5. QED
    BY <1>3, <1>4 DEF AB!ClaimDiscovery

LEMMA CollectStep ==
  ASSUME AB!ItemsOrdered, AB!BatchInv, AB!Collect
  PROVE  AB!BatchInv'
  <1>1. AB!Records /\ \A d \in Commands : AB!KnowsTheList(d)
    BY DEF AB!BatchInv
  <1>2. PICK c \in Commands : c = s6.child
    BY <1>1 DEF AB!Collect, AB!Records
  <1>3. /\ AB!At(c, "exited") /\ s6' = AB!Free /\ AB!Step(c, AB!Idle) /\ UNCHANGED <<s3, s4>>
        /\ AB!KnowsTheList(c)
    BY <1>1, <1>2 DEF AB!Collect
  <1>4. /\ DOMAIN s7' = Commands /\ \A d \in Commands \ {c} : s7'[d] = s7[d]
        /\ \A d \in Commands : AB!Recorded(d)'
    BY <1>1, <1>3, Ended
  <1>5. AB!KnowsTheList(c)'
    BY <1>1, <1>3, StartKnows
  <1>6. CASE UNCHANGED <<s1, s2, s8>>
    <2>1. \A d \in Commands : AB!KnowsTheList(d)'
      BY <1>1, <1>4, <1>5, <1>6, OthersKnow DEF AB!Listed
    <2>2. AB!Records'
      BY <1>1, <1>3, <1>4, <1>6 DEF AB!Records, AB!Free
    <2>3. QED
      BY <1>3, <1>6, <2>1, <2>2, BatchKept
  <1>7. CASE /\ s7[c].code = 0 /\ AB!ApplyPolicies(s4)
             /\ s8' = [s8 EXCEPT !.screened = TRUE]
    <2>1. s1.status # "planned"
      BY <1>3, <1>7 DEF AB!KnowsTheList
    <2>2. PICK matched \in SUBSET Items : matched = s4
      BY <1>1 DEF AB!Records
    <2>3. /\ DOMAIN s2' = Items /\ AB!Listed' = AB!Listed
          /\ DOMAIN s1' = DOMAIN s1 /\ s1'.status = s1.status
          /\ s1'.discovered = s1.discovered /\ s1'.skipped \in Nat
          /\ \/ s1'.skipped = s1.skipped
             \/ s1'.skipped = AB!Cardinality(AB!In({"confirmed_skip"})')
          /\ AB!In({"confirmed_skip"}) \subseteq AB!In({"confirmed_skip"})'
          /\ AB!In(AB!Settled) \subseteq AB!In(AB!Settled)'
          /\ \A i \in Items : s2'[i] = "pending" => s2[i] = "pending" /\ i \notin matched
      BY <1>1, <1>7, <2>2, PoliciesApplied
    <2>4. /\ DOMAIN s8' = DOMAIN s8 /\ s8'.again = s8.again
          /\ s8'.relisted = s8.relisted
      BY <1>1, <1>7 DEF AB!Records
    <2>5. \A d \in Commands : AB!KnowsTheList(d)'
      BY <1>1, <1>4, <1>5, <2>3, OthersKnow
    <2>6. AB!Records'
      BY <1>1, <1>3, <1>4, <2>3, <2>4 DEF AB!Records, AB!Free
    <2>7. AB!PoliciesHold'
      BY <1>3, <2>2, <2>3 DEF AB!PoliciesHold, AB!Pending, AB!In
    <2>8. QED
      BY <2>1, <2>3, <2>4, <2>5, <2>6, <2>7, ItemsChanged
  <1>8. QED
    <2>1. s6.job = "discovery" /\ AB!DiscoveryStatus(s7[c].code) = "completed" =>
             s7[c].code = 0
      BY DEF AB!DiscoveryStatus
    <2>2. QED
      BY <1>2, <1>6, <1>7, <2>1 DEF AB!Collect

LEMMA WorkerSteps ==
  ASSUME AB!BatchInv, AB!Expire \/ AB!WorkerDies \/ AB!CreateDiscovery
  PROVE  AB!BatchInv'
  <1>1. AB!Records /\ \A d \in Commands : AB!KnowsTheList(d)
    BY DEF AB!BatchInv
  <1>2. UNCHANGED <<s1, s2, s3, s4, s8>> /\ AB!Listed' = AB!Listed
    BY DEF AB!Expire, AB!WorkerDies, AB!CreateDiscovery, AB!Listed
  <1>3. CASE AB!Expire
    <2>1. PICK c \in Commands : c = s6.child
      BY <1>1, <1>3 DEF AB!Expire, AB!Records
    <2>2. AB!Step(c, AB!Idle) /\ s6' = AB!Free
      BY <1>3, <2>1 DEF AB!Expire
    <2>3. /\ DOMAIN s7' = Commands /\ \A d \in Commands \ {c} : s7'[d] = s7[d]
          /\ \A d \in Commands : AB!Recorded(d)'
          /\ AB!KnowsTheList(c)'
      BY <1>1, <2>2, Ended, StartKnows
    <2>4. \A d \in Commands : AB!KnowsTheList(d)'
      BY <1>1, <1>2, <2>3, OthersKnow
    <2>5. AB!Records'
      BY <1>1, <1>2, <2>2, <2>3 DEF AB!Records, AB!Free
    <2>6. QED
      BY <1>2, <2>4, <2>5, BatchKept
  <1>4. CASE AB!WorkerDies \/ AB!CreateDiscovery
    <2>1. UNCHANGED s7 /\ (s6' = AB!Free \/ s6' = s6)
      BY <1>4 DEF AB!WorkerDies, AB!CreateDiscovery
    <2>2. \A d \in Commands : AB!KnowsTheList(d)'
      BY <1>1, <1>2, <2>1, AllKnow
    <2>3. AB!Records'
      BY <1>1, <1>2, <2>1 DEF AB!Records, AB!Recorded, AB!Free
    <2>4. QED
      BY <1>2, <2>2, <2>3, BatchKept
  <1>5. QED
    BY <1>3, <1>4

-----------------------------------------------------------------------------
\* The console and the terminal change the status, what failed, or policies.
LEMMA ControlSteps ==
  ASSUME AB!ItemsOrdered, AB!BatchInv,
         \/ AB!Freeze \/ AB!Cancel \/ AB!Pause \/ AB!Resume \/ AB!CommandPause
         \/ AB!CommandResume \/ AB!StartArchive
  PROVE  AB!BatchInv'
  <1>1. AB!Records /\ \A d \in Commands : AB!KnowsTheList(d)
    BY DEF AB!BatchInv
  <1>2. UNCHANGED <<s2, s3, s4, s6, s7, s8>>
    BY DEF AB!Freeze, AB!Cancel, AB!Pause, AB!Resume, AB!CommandPause, AB!CommandResume,
           AB!StartArchive, AB!Control
  <1>3. /\ DOMAIN s1' = DOMAIN s1 /\ s1'.discovered = s1.discovered
        /\ s1'.skipped = s1.skipped
        /\ s1'.status \in {s1.status, "cancelled", "paused", "running"}
    BY <1>1 DEF AB!Records, AB!Freeze, AB!Cancel, AB!Pause, AB!Resume, AB!CommandPause,
                AB!CommandResume,
                AB!StartArchive, AB!Control
  <1>4. AB!Listed' = AB!Listed /\ \A statuses : AB!In(statuses)' = AB!In(statuses)
    BY <1>2 DEF AB!Listed, AB!In
  <1>5. \A d \in Commands : AB!KnowsTheList(d)'
    BY <1>1, <1>2, <1>3, <1>4, AllKnow
  <1>6. AB!Records'
    BY <1>1, <1>2, <1>3 DEF AB!Records, AB!Recorded
  <1>7. AB!PoliciesHold'
    BY <1>2, <1>4 DEF AB!BatchInv, AB!PoliciesHold, AB!Pending
  <1>8. QED
    BY <1>2, <1>3, <1>4, <1>5, <1>6, <1>7, ItemsChanged

LEMMA RetryStep ==
  ASSUME AB!ItemsOrdered, AB!BatchInv, NEW set \in SUBSET AB!In({"failed"}), AB!Retry(set)
  PROVE  AB!BatchInv'
  <1>1. AB!Records /\ \A d \in Commands : AB!KnowsTheList(d)
    BY DEF AB!BatchInv
  <1>2. UNCHANGED <<s1, s3, s4, s6, s7>>
    BY DEF AB!Retry
  <1>3. /\ DOMAIN s8' = DOMAIN s8 /\ s8'.again = s8.again
        /\ s8'.relisted = s8.relisted /\ s8'.screened = s8.screened
        /\ s8'.freed = s8.freed \cup set
    BY <1>1 DEF AB!Records, AB!Retry
  <1>4. /\ DOMAIN s2' = Items
        /\ \A i \in Items : \/ i \in set /\ s2[i] = "failed" /\ s2'[i] = "pending"
                            \/ i \notin set /\ s2'[i] = s2[i]
    BY DEF AB!Retry, AB!In
  <1>5. AB!Listed' = AB!Listed /\ AB!In({"confirmed_skip"}) \subseteq AB!In({"confirmed_skip"})'
        /\ AB!In(AB!Settled) \subseteq AB!In(AB!Settled)'
    BY <1>4 DEF AB!Listed, AB!In, AB!Settled
  <1>6. \A d \in Commands : AB!KnowsTheList(d)'
    BY <1>1, <1>2, <1>5, AllKnow
  <1>7. AB!Records'
    BY <1>1, <1>2, <1>3, <1>4 DEF AB!Records, AB!Recorded
  <1>8. AB!PoliciesHold'
    <2>1. \A i \in Items : s2'[i] = "pending" /\ i \notin s8'.freed => s2[i] = "pending"
      BY <1>3, <1>4
    <2>2. QED
      BY <1>2, <1>3, <2>1, NothingExcludedWaits DEF AB!BatchInv
  <1>9. QED
    BY <1>2, <1>3, <1>5, <1>6, <1>7, <1>8, ItemsChanged

LEMMA SavePoliciesStep ==
  ASSUME AB!ItemsOrdered, AB!BatchInv, NEW enabled, NEW matched \in SUBSET Items,
         enabled \subseteq s4 \cup matched, AB!SavePolicies(enabled, matched)
  PROVE  AB!BatchInv'
  <1>1. AB!Records /\ \A d \in Commands : AB!KnowsTheList(d)
    BY DEF AB!BatchInv
  <1>2. UNCHANGED <<s3, s6, s7>> /\ s4' = enabled
    BY DEF AB!SavePolicies
  <1>3. /\ DOMAIN s8' = DOMAIN s8 /\ s8'.again = s8.again
        /\ s8'.relisted = s8.relisted /\ s8'.screened = s8.screened
        /\ s8'.freed = s8.freed \ matched
    BY <1>1 DEF AB!Records, AB!SavePolicies
  <1>4. /\ DOMAIN s2' = Items /\ AB!Listed' = AB!Listed
        /\ DOMAIN s1' = DOMAIN s1 /\ s1'.status = s1.status
        /\ s1'.discovered = s1.discovered /\ s1'.skipped \in Nat
        /\ \/ s1'.skipped = s1.skipped
           \/ s1'.skipped = AB!Cardinality(AB!In({"confirmed_skip"})')
        /\ AB!In({"confirmed_skip"}) \subseteq AB!In({"confirmed_skip"})'
        /\ AB!In(AB!Settled) \subseteq AB!In(AB!Settled)'
        /\ \A i \in Items : s2'[i] = "pending" => s2[i] = "pending" /\ i \notin matched
    BY <1>1, PoliciesApplied DEF AB!SavePolicies
  <1>5. \A d \in Commands : AB!KnowsTheList(d)'
    BY <1>1, <1>2, <1>4, AllKnow
  <1>6. AB!Records'
    BY <1>1, <1>2, <1>3, <1>4 DEF AB!Records, AB!Recorded
  <1>7. AB!PoliciesHold'
    <2>1. \A i \in Items : s2'[i] = "pending" /\ i \in s4' /\ i \notin s8'.freed =>
             s2[i] = "pending" /\ i \in s4 /\ i \notin s8.freed
      BY <1>2, <1>3, <1>4
    <2>2. QED
      BY <1>3, <2>1, NothingExcludedWaits DEF AB!BatchInv
  <1>8. QED
    BY <1>3, <1>4, <1>5, <1>6, <1>7, ItemsChanged

LEMMA ArriveStep ==
  ASSUME AB!BatchInv, NEW i \in Items, AB!Arrive(i)
  PROVE  AB!BatchInv'
  <1>1. AB!Records /\ \A d \in Commands : AB!KnowsTheList(d)
    BY DEF AB!BatchInv
  <1>2. UNCHANGED <<s1, s2, s4, s6, s7, s8>> /\ s3' = s3 \cup {i}
        /\ AB!Listed' = AB!Listed
    BY DEF AB!Arrive, AB!Listed
  <1>3. \A d \in Commands : AB!KnowsTheList(d)'
    BY <1>1, <1>2, AllKnow
  <1>4. AB!Records'
    BY <1>1, <1>2 DEF AB!Records, AB!Recorded
  <1>5. QED
    BY <1>2, <1>3, <1>4, BatchKept

-----------------------------------------------------------------------------
\* Before anything is listed, everything holds.
LEMMA BatchStart ==
  ASSUME AB!ItemsOrdered, AB!Init
  PROVE  AB!BatchInv
  <1>1. AB!Listed = {} /\ AB!In({"confirmed_skip"}) = {} /\ AB!Pending = {}
    BY DEF AB!Init, AB!Listed, AB!In, AB!Pending
  <1>2. s3 \subseteq Items /\ s4 \subseteq Items
    BY DEF AB!Init
  <1>3. AB!Records
    BY <1>2 DEF AB!Init, AB!Records, AB!Recorded, AB!Idle, AB!Free
  <1>4. \A c \in Commands : AB!KnowsTheList(c)
    BY DEF AB!Init, AB!KnowsTheList, AB!At, AB!Idle
  <1>5. AB!Cardinality({}) = 0
    BY FS_EmptySet, SameSizes
  <1>6. AB!PlannedIsEmpty /\ AB!ListedOnce /\ AB!PoliciesHold
    BY <1>1, <1>5 DEF AB!Init, AB!PlannedIsEmpty, AB!ListedOnce, AB!PoliciesHold
  <1>7. AB!SkippedStays /\ AB!CompletedStays
    BY <1>1, <1>5 DEF AB!Init, AB!SkippedStays, AB!CompletedStays
  <1>8. QED
    BY <1>3, <1>4, <1>6, <1>7 DEF AB!BatchInv

LEMMA BatchIdle ==
  ASSUME AB!BatchInv, UNCHANGED AB!vars
  PROVE  AB!BatchInv'
  <1>1. UNCHANGED <<s1, s2, s3, s4, s6, s7, s8>> /\ AB!Listed' = AB!Listed
    BY DEF AB!vars, AB!Listed
  <1>2. AB!Records /\ \A d \in Commands : AB!KnowsTheList(d)
    BY DEF AB!BatchInv
  <1>3. \A d \in Commands : AB!KnowsTheList(d)'
    BY <1>1, <1>2, AllKnow
  <1>4. AB!Records'
    BY <1>1, <1>2 DEF AB!Records, AB!Recorded
  <1>5. QED
    BY <1>1, <1>3, <1>4, BatchKept

\* Every step keeps the batch true.
LEMMA BatchStep ==
  ASSUME AB!ItemsOrdered, AB!BatchInv, AB!Next
  PROVE  AB!BatchInv'
  <1>1. ASSUME NEW c \in Commands,
               \/ AB!StartDiscover(c) \/ AB!Scan(c) \/ AB!Apply(c)
               \/ AB!StartRun(c) \/ AB!Open(c) \/ AB!Take(c) \/ AB!Archive(c) \/ AB!Close(c)
               \/ AB!StartSamples(c) \/ AB!StartRelated(c) \/ AB!Capture(c)
               \/ AB!ClaimDiscovery(c) \/ AB!ClaimArchive(c) \/ AB!CommandDies(c)
               \/ AB!Forget(c) \/ AB!Terminal(c)
        PROVE  AB!BatchInv'
    BY <1>1, CommandSteps, ApplyStep, StartRunStep, TakeStep, ArchiveStep, CloseStep,
       CaptureStep,
       ClaimDiscoveryStep
  <1>2. CASE \/ AB!Collect \/ AB!Expire \/ AB!WorkerDies
             \/ AB!Freeze \/ AB!Cancel \/ AB!Pause \/ AB!Resume \/ AB!CommandPause
             \/ AB!CommandResume
             \/ AB!CreateDiscovery \/ AB!StartArchive
    BY <1>2, CollectStep, WorkerSteps, ControlSteps
  <1>3. CASE AB!RetryFailed \/ \E i \in AB!In({"failed"}) : AB!RetryItem(i)
    <2>1. PICK set \in SUBSET AB!In({"failed"}) : AB!Retry(set)
      BY <1>3, Zenon DEF AB!RetryFailed, AB!RetryItem
    <2>2. QED
      BY <2>1, RetryStep
  <1>4. CASE \/ AB!CreatePolicies
             \/ \E i \in Items : AB!CreatePolicy(i) \/ AB!DeletePolicy(i)
             \/ \E old, i \in Items : AB!UpdatePolicy(old, i)
    <2>1. \E enabled, matched : /\ matched \subseteq Items /\ enabled \subseteq s4 \cup matched
                                /\ AB!SavePolicies(enabled, matched)
      BY <1>4, Zenon DEF AB!CreatePolicies, AB!CreatePolicy, AB!DeletePolicy, AB!UpdatePolicy
    <2>2. PICK enabled, matched : /\ matched \in SUBSET Items
                                  /\ enabled \subseteq s4 \cup matched
                                  /\ AB!SavePolicies(enabled, matched)
      BY <2>1
    <2>3. QED
      BY <2>2, SavePoliciesStep
  <1>5. CASE \E i \in Items : AB!Arrive(i)
    BY <1>5, ArriveStep
  <1>6. QED
    BY <1>1, <1>2, <1>3, <1>4, <1>5 DEF AB!Next

\* The counts of a batch agree only when everything on its list is settled.
LEMMA BatchIsTrue ==
  ASSUME AB!ItemsOrdered, AB!BatchInv
  PROVE  AB!BatchesAreTrue
  <1> SUFFICES ASSUME s8.again = {}, ~s8.relisted,
                      AB!Reconciled PROVE AB!Listed = AB!In(AB!Settled)
    BY DEF AB!BatchesAreTrue, AB!SettledWhenReconciled, AB!Validates, AB!BatchInv,
           AB!CompletedStays
  <1> DEFINE archived == AB!In({"archived"})
             skips == AB!In({"confirmed_skip"})
             settled == AB!In(AB!Settled)
             list == AB!Listed
  <1>1. /\ archived \in SUBSET Items /\ skips \in SUBSET Items /\ settled \in SUBSET Items
        /\ list \in SUBSET Items
    BY DEF AB!In, AB!Listed
  <1>2. archived \cap skips = {} /\ settled = archived \cup skips /\ settled \subseteq list
    BY DEF AB!In, AB!Settled, AB!Listed
  <1>3. /\ AB!IsFiniteSet(archived) /\ AB!Cardinality(archived) \in Nat
        /\ AB!IsFiniteSet(skips) /\ AB!Cardinality(skips) \in Nat
        /\ AB!Cardinality(settled) \in Nat
        /\ AB!IsFiniteSet(list) /\ AB!Cardinality(list) \in Nat
    BY <1>1, FiniteItems
  <1>4. /\ AB!Cardinality(list) = AB!Cardinality(archived) + s1.skipped
        /\ s1.skipped <= AB!Cardinality(skips) /\ s1.skipped \in Nat
    BY DEF AB!Reconciled, AB!BatchInv, AB!ListedOnce, AB!SkippedStays, AB!Records
  <1> HIDE DEF archived, skips, settled, list
  <1>5. AB!Cardinality(settled) = AB!Cardinality(archived) + AB!Cardinality(skips)
    <2>1. AB!Cardinality(archived \cup skips) =
             AB!Cardinality(archived) + AB!Cardinality(skips) - AB!Cardinality(archived \cap skips)
      BY <1>3, FS_Union, SameSizes
    <2>2. AB!Cardinality(archived \cap skips) = 0
      BY <1>2, FS_EmptySet, SameSizes
    <2>3. QED
      BY <1>2, <1>3, <2>1, <2>2
  <1>6. AB!Cardinality(list) <= AB!Cardinality(settled)
    BY <1>3, <1>4, <1>5
  <1>7. settled = list
    BY <1>2, <1>3, <1>6, FS_Subset, SameSizes
  <1>8. QED
    BY <1>7 DEF settled, list

-----------------------------------------------------------------------------
\* Whoever discovers, archives, retries, pauses, excludes and samples, in whatever
\* order and with whatever deaths between: a batch whose counts agree, or that was
\* completed, has no open item, unless one was captured again after it had been
\* skipped or archived; its list is counted right; and after a discovery nothing
\* waits that an enabled policy excludes, unless it failed or was interrupted
\* (BatchesAreTrue; batches.py, state.py, web/status.py).  Assumed is only that the
\* items are finitely many and ordered by their place on the list.
THEOREM BatchesAreSettled ==
  ASSUME AB!ItemsOrdered
  PROVE  AllSpec => []BatchesAreTrue
  <1> DEFINE Inv == which = "batches" => AB!BatchInv
  <1>1. AllInit => Inv
    BY BatchStart DEF AllInit
  <1>2. Inv /\ [AllNext]_all => Inv'
    <2> SUFFICES ASSUME which = "batches", AB!BatchInv, [AllNext]_all PROVE AB!BatchInv'
      BY DEF AllNext, all
    <2>1. [AB!Next]_(AB!vars)
      <3>1. CASE AllNext
        BY <3>1 DEF AllNext
      <3>2. CASE UNCHANGED all
        BY <3>2 DEF all, slots, AB!vars, Slots7to19, Slots7to11, Slots8to11, Slots9to11
      <3>3. QED
        BY <3>1, <3>2
    <2>2. QED
      BY <2>1, BatchStep, BatchIdle
  <1>3. Inv => BatchesAreTrue
    BY BatchIsTrue DEF BatchesAreTrue
  <1> QED
    BY <1>1, <1>2, <1>3, PTL DEF AllSpec

-----------------------------------------------------------------------------
(***************************************************************************)
(* Archive readiness.  The variables are s1: package, s2: audits,          *)
(* s3: inputs, s4: assessment, s5: verdict.                                *)
(*                                                                         *)
(* The assessment and the fingerprint judge the same audit by different    *)
(* rules.  That they agree rests on what an audit records: its counts are  *)
(* those of the rows it compared (CountsArePossible), and a comparison     *)
(* that finds more held than shown also finds the inventories different    *)
(* (SubsetsDiffer).                                                        *)
(***************************************************************************)
LEMMA SizesOfRows ==
  \A S : R!Cardinality(S) = Cardinality(S) /\ (R!IsFiniteSet(S) <=> IsFiniteSet(S))
  BY DEF R!Cardinality, Cardinality, R!IsFiniteSet, IsFiniteSet

\* A number of rows held that an audit records lies between those compared.
LEMMA CountsArePossible ==
  ASSUME NEW online, NEW local, R!IsFiniteSet(online), R!IsFiniteSet(local),
         NEW n, NEW d, NEW l, n = R!Cardinality(online), l = R!Cardinality(local),
         d = R!canonical_downloaded_count(online, local)
  PROVE  /\ n \in Nat /\ d \in Nat /\ l \in Nat
         /\ IF l < n THEN d = l ELSE n <= d /\ d <= l
         /\ online \subseteq local => n <= l
         /\ online \subseteq local /\ online # local => n < l
  <1> DEFINE hashed == {row \in local : row.bytes # NoBytes}
             hashes == {row.bytes : row \in hashed}
             f == [row \in hashed |-> row.bytes]
  <1>1. /\ IsFiniteSet(online) /\ n = Cardinality(online)
        /\ IsFiniteSet(local) /\ l = Cardinality(local)
    BY SizesOfRows
  <1>2. n \in Nat /\ l \in Nat
    BY <1>1, FS_CardinalityType
  <1>3. IsFiniteSet(hashed) /\ Cardinality(hashed) <= l /\ Cardinality(hashed) \in Nat
    <2>1. hashed \in SUBSET local
      OBVIOUS
    <2>2. IsFiniteSet(hashed) /\ Cardinality(hashed) <= l
      BY <1>1, <2>1, FS_Subset
    <2>3. QED
      BY <2>2, FS_CardinalityType
  <1>4. f \in Surjection(hashed, hashes)
    BY DEF Surjection
  <1>5. IsFiniteSet(hashes) /\ Cardinality(hashes) <= Cardinality(hashed)
    BY <1>3, <1>4, FS_Surjection
  <1>6. Cardinality(hashes) \in Nat
    BY <1>5, FS_CardinalityType
  <1>7. d = IF l < n THEN l ELSE IF Cardinality(hashes) > n THEN Cardinality(hashes) ELSE n
    BY SizesOfRows DEF R!canonical_downloaded_count
  <1>8. d \in Nat /\ IF l < n THEN d = l ELSE n <= d /\ d <= l
    <2> HIDE DEF hashes, hashed
    <2> QED
      BY <1>2, <1>3, <1>5, <1>6, <1>7
  <1>9. ASSUME online \subseteq local
        PROVE  n <= l /\ (online # local => n < l)
    <2>1. n <= l /\ (l = n => local = online)
      BY <1>1, <1>9, FS_Subset
    <2>2. QED
      BY <1>2, <2>1
  <1>10. QED
    BY <1>2, <1>8, <1>9

\* Where more is held than shown, the inventories differ.
LEMMA SubsetsDiffer ==
  ASSUME NEW online \in SUBSET R!Rows, NEW local \in SUBSET R!Rows, R!IsFiniteSet(local),
         online \subseteq local, online # local
  PROVE  R!Inventory(online) # R!Inventory(local)
  <1> SUFFICES ASSUME R!Inventory(online) = R!Inventory(local) PROVE FALSE
    OBVIOUS
  <1>1. PICK x \in local : x \notin online
    OBVIOUS
  <1> DEFINE same(rows) == {row \in rows : R!OnlyId[row] = x.id}
  <1>2. x \in R!Rows /\ R!OnlyId[x] = x.id
    BY <1>1 DEF R!OnlyId
  <1>3. \A rows : R!Inventory(rows) = [v \in {R!OnlyId[row] : row \in rows} |->
                                         R!Cardinality({row \in rows : R!OnlyId[row] = v})]
    BY DEF R!Inventory, R!Signature, R!Quantify
  <1>4. DOMAIN R!Inventory(local) = {R!OnlyId[row] : row \in local}
    BY <1>3, Zenon
  <1>5. x.id \in DOMAIN R!Inventory(local) /\ x.id \in DOMAIN R!Inventory(online)
    BY <1>2, <1>4
  <1>6. \A rows : x.id \in DOMAIN R!Inventory(rows) =>
                      R!Inventory(rows)[x.id] = R!Cardinality(same(rows))
    BY <1>3, Zenon
  <1>7. R!Cardinality(same(local)) = R!Cardinality(same(online))
    BY <1>5, <1>6
  <1>8. /\ same(online) \in SUBSET same(local) /\ x \in same(local) /\ x \notin same(online)
        /\ same(local) \in SUBSET local
    BY <1>1, <1>2
  <1> HIDE DEF same
  <1>9. IsFiniteSet(same(local))
    BY <1>8, SizesOfRows, FS_Subset
  <1>10. same(local) = same(online)
    BY <1>7, <1>8, <1>9, SizesOfRows, FS_Subset
  <1>11. QED
    BY <1>8, <1>10

\* A comparison of both sides passes the fingerprint's test.
LEMMA ComparedIsValid ==
  ASSUME NEW online \in SUBSET R!Rows, NEW local \in SUBSET R!Rows, NEW deep \in BOOLEAN,
         R!IsFiniteSet(online), R!IsFiniteSet(local),
         NEW a,
         a.status = R!ComparedStatus(online, local, TRUE, deep), a.depth = deep,
         a.reason = R!explain_evidence_difference(online, local),
         a.recognized = R!Cardinality(online),
         a.downloaded = R!canonical_downloaded_count(online, local),
         a.online = <<online>>, a.onlineInventory = <<R!Inventory(online)>>,
         a.local = <<local>>, a.localInventory = <<R!Inventory(local)>>,
         a.onlineContent = R!ContentOf(online), a.localContent = R!ContentOf(local)
  PROVE  R!validate_audit_bundle(a)
  <1>a. PICK n, l, d, reason, status :
            /\ status = R!ComparedStatus(online, local, TRUE, deep)
            /\ n = R!Cardinality(online) /\ l = R!Cardinality(local)
            /\ d = R!canonical_downloaded_count(online, local)
            /\ reason = R!explain_evidence_difference(online, local)
    BY Zenon
  <1>1. /\ a.status = status /\ a.reason = reason /\ a.depth = deep
        /\ a.recognized = n /\ a.downloaded = d
        /\ a.online = <<online>> /\ a.local = <<local>>
        /\ a.onlineInventory = <<R!Inventory(online)>> /\ a.localInventory = <<R!Inventory(local)>>
        /\ a.onlineContent = R!ContentOf(online) /\ a.localContent = R!ContentOf(local)
    BY <1>a
  <1>2. /\ n \in Nat /\ d \in Nat /\ l \in Nat
        /\ IF l < n THEN d = l ELSE n <= d /\ d <= l
        /\ online \subseteq local => n <= l
        /\ online \subseteq local /\ online # local => n < l
    BY <1>a, CountsArePossible
  <1> DEFINE subset == online \subseteq local /\ online # local
             alike == R!Inventory(online) = R!Inventory(local)
  <1>3. /\ reason \in R!FULL_AUDIT_COMPARISON_REASONS
        /\ (reason = "exact_match" <=> online = local)
        /\ (reason = "historical_retained" <=> subset)
        /\ (reason = "content_changed" <=> alike /\ online # local /\ ~subset)
    BY <1>a DEF R!explain_evidence_difference, R!evidence_is_historical_subset, R!SameSignature,
           R!Inventory, R!FULL_AUDIT_COMPARISON_REASONS
  <1>4. (subset => ~alike) /\ (online = local => alike /\ n = l)
    BY <1>a, SubsetsDiffer
  <1>5. /\ R!Unhashed(online) => a.onlineContent = R!Null
        /\ R!Unhashed(local) => a.localContent = R!Null
        /\ ~R!Unhashed(online) => a.onlineContent = <<online>>
        /\ ~R!Unhashed(local) => a.localContent = <<local>>
    BY <1>1 DEF R!ContentOf, R!Hash
  <1>b. \A x, y : (<<x>> = <<y>> <=> x = y) /\ <<x>> # R!Null
    BY DEF R!Null
  <1>6. /\ R!Count(a.online) = n /\ R!Count(a.local) = l
        /\ R!Null \notin {a.onlineInventory, a.localInventory, a.online, a.local}
        /\ (a.onlineInventory = a.localInventory) <=> alike
        /\ (a.online = a.local) <=> (online = local)
    <2>1. \A x, y : (<<x>> = <<y>> <=> x = y) /\ <<x>> # <<>> /\ <<x>>[1] = x
      OBVIOUS
    <2>2. \A x : R!Count(<<x>>) = R!Cardinality(x)
      BY <2>1 DEF R!Count, R!Null
    <2> HIDE DEF alike
    <2>3. alike <=> <<R!Inventory(online)>> = <<R!Inventory(local)>>
      BY <2>1 DEF alike
    <2>4. R!Null = <<>>
      BY DEF R!Null
    <2>5. R!Count(a.online) = n /\ R!Count(a.local) = l
      BY <1>1, <1>a, <2>2
    <2>6. R!Null \notin {a.onlineInventory, a.localInventory, a.online, a.local}
      BY <1>1, <2>1, <2>4
    <2>7. a.onlineInventory = a.localInventory <=> alike
      BY <1>1, <2>3
    <2>8. a.online = a.local <=> online = local
      <3>1. a.online = <<online>> /\ a.local = <<local>>
        BY <1>1
      <3>2. <<online>> = <<local>> <=> online = local
        BY <2>1, Zenon
      <3>3. QED
        BY <3>1, <3>2, Zenon
    <2>9. QED
      BY <2>5, <2>6, <2>7, <2>8
  <1>7. status = IF deep THEN "depth_limit_reached"
                 ELSE IF subset THEN "historical_retained"
                 ELSE IF n > d THEN "missing_download"
                 ELSE IF ~alike THEN "inventory_mismatch"
                 ELSE IF n < d THEN "historical_retained"
                 ELSE IF R!Unhashed(online) THEN "content_unverified"
                 ELSE IF R!Unhashed(local) \/ online # local THEN "content_mismatch"
                 ELSE "matched"
    BY <1>a DEF R!ComparedStatus, R!Classified, R!classify_evidence, R!evidence_is_historical_subset
  <1>8. R!ReasonFits(a)
    <2>1. a.reason = "exact_match" => a.onlineContent = a.localContent
      BY <1>1, <1>3, <1>5
    <2>2. a.reason # "exact_match" /\ a.onlineContent = a.localContent => a.onlineContent = R!Null
      BY <1>1, <1>3, <1>5, <1>b
    <2> HIDE DEF alike
    <2>3. QED
      BY <1>1, <1>2, <1>3, <1>4, <1>6, <2>1, <2>2 DEF R!ReasonFits
  <1>9. a.status = R!expected_full_audit_status(a)
    <2>1. /\ a.onlineContent = R!Null <=> R!Unhashed(online)
          /\ a.localContent = R!Null <=> R!Unhashed(local)
          /\ ~R!Unhashed(online) /\ ~R!Unhashed(local) =>
                (a.onlineContent = a.localContent <=> online = local)
      BY <1>5, <1>b
    <2> HIDE DEF alike
    <2>2. R!expected_full_audit_status(a) =
              IF deep THEN "depth_limit_reached"
              ELSE IF n > d THEN "missing_download"
              ELSE IF reason = "historical_retained" THEN "historical_retained"
              ELSE IF ~alike THEN "inventory_mismatch"
              ELSE IF n < d THEN "historical_retained"
              ELSE IF R!Unhashed(online) THEN "content_unverified"
              ELSE IF R!Unhashed(local) \/ online # local THEN "content_mismatch"
              ELSE "matched"
      BY <1>1, <1>6, <2>1 DEF R!expected_full_audit_status
    <2>3. subset => ~(n > d)
      BY <1>2
    <2>4. a.status = status /\ (reason = "historical_retained" <=> subset)
      BY <1>1, <1>3, Zenon
    <2> HIDE DEF subset
    <2>5. QED
      BY <1>7, <2>2, <2>3, <2>4, Zenon
  <1>10. a.status \in R!FULL_AUDIT_STATUSES /\ a.status # "access_failed"
    BY <1>1, <1>7, Zenon DEF R!FULL_AUDIT_STATUSES, R!MISMATCH_ITEM_STATUSES
  <1>11. R!canonical_download_count_is_possible(n, d, l)
    BY <1>2 DEF R!canonical_download_count_is_possible, R!Unknown
  <1>12. R!validate_full_audit_bundle(a)
    <2>0. \A x \in Nat : x # R!Unknown
      BY DEF R!Unknown
    <2>1. a.recognized # R!Unknown /\ a.downloaded # R!Unknown
      BY <1>1, <1>2, <2>0
    <2>2. R!canonical_download_count_is_possible(a.recognized, a.downloaded, R!Count(a.local))
          /\ R!Count(a.online) = a.recognized
      BY <1>1, <1>6, <1>11
    <2>3. a.reason \in R!FULL_AUDIT_COMPARISON_REASONS
      BY <1>1, <1>3
    <2>4. QED
      BY <1>6, <1>8, <1>9, <1>10, <2>1, <2>2, <2>3, Zenon DEF R!validate_full_audit_bundle
  <1>13. a.reason # "none" /\ a.reason # "evidence_unavailable"
    BY <1>1, <1>3 DEF R!FULL_AUDIT_COMPARISON_REASONS
  <1>14. a # R!NoAudit
    BY <1>13 DEF R!NoAudit
  <1>15. QED
    BY <1>12, <1>13, <1>14 DEF R!validate_audit_bundle, R!Mode


\* The counts of the old kind of audit pass the test made for them.
LEMMA CountedIsValid ==
  ASSUME NEW seen \in SUBSET R!Rows, NEW local \in SUBSET R!Rows,
         R!IsFiniteSet(seen), R!IsFiniteSet(local),
         NEW a, a = R!Counted(seen, local)
  PROVE  R!validate_audit_bundle(a)
  <1>a. PICK n, l, d :
            /\ n = R!Cardinality(seen) /\ l = R!Cardinality(local)
            /\ d = R!canonical_downloaded_count(seen, local)
    OBVIOUS
  <1>1. /\ a.status = R!classify_attachment_counts(n, d) /\ a.reason = "evidence_unavailable"
        /\ a.recognized = n /\ a.downloaded = d
        /\ a.online = <<{}>> /\ a.local = <<local>>
        /\ a.onlineInventory = R!Null /\ a.localInventory = <<R!Inventory(local)>>
        /\ a.onlineContent = R!Null
    BY <1>a DEF R!Counted, R!Compared, R!CountedStatus, R!Hash
  <1>2. /\ n \in Nat /\ d \in Nat /\ l \in Nat
        /\ IF l < n THEN d = l ELSE n <= d /\ d <= l
    BY <1>a, CountsArePossible
  <1>3. R!canonical_download_count_is_possible(n, d, l)
    BY <1>2 DEF R!canonical_download_count_is_possible, R!Unknown
  <1>4. \A x : <<x>> # R!Null /\ R!Count(<<x>>) = R!Cardinality(x)
    BY DEF R!Count, R!Null
  <1>5. \A x \in Nat : x # R!Unknown
    BY DEF R!Unknown
  <1>6. R!Count(a.local) = l /\ a.local # R!Null /\ a.localInventory # R!Null
    BY <1>1, <1>4, <1>a
  <1>7. a.recognized # R!Unknown /\ a.downloaded # R!Unknown
    BY <1>1, <1>2, <1>5
  <1>8. a.online = R!Hash({})
    BY <1>1 DEF R!Hash
  <1>9. R!canonical_download_count_is_possible(a.recognized, a.downloaded, R!Count(a.local))
        /\ a.status = R!classify_attachment_counts(a.recognized, a.downloaded)
    BY <1>1, <1>3, <1>6
  <1>10. R!validate_count_only_audit_bundle(a)
    BY <1>1, <1>6, <1>7, <1>8, <1>9, Zenon DEF R!validate_count_only_audit_bundle
  <1>11. a # R!NoAudit
    BY <1>1 DEF R!NoAudit
  <1>12. QED
    BY <1>1, <1>10, <1>11 DEF R!validate_audit_bundle, R!Mode

\* The fingerprint accepts every audit but those that are not supported ...
LEMMA SupportedIsValid ==
  ASSUME NEW r, R!LedgerIsRead(r.ledger), ~R!Unsupported(r),
         NEW a, a = R!AuditOf(r.ledger)
  PROVE  R!validate_audit_bundle(a)
  <1> PICK l : l = r.ledger
    OBVIOUS
  <1>1. l.kind \in {"failed", "compared", "repaired", "counted"}
    BY DEF R!LedgerIsRead, R!Unsupported
  <1>2. CASE l.kind = "failed"
    <2>1. a = R!AccessFailed
      BY <1>2 DEF R!AuditOf
    <2>2. a.status = "access_failed" /\ a.reason = "none" /\ a # R!NoAudit
      BY <2>1 DEF R!AccessFailed, R!NoAudit
    <2>3. QED
      BY <2>2 DEF R!validate_audit_bundle, R!Mode, R!validate_full_audit_bundle
  <1>3. ASSUME l.kind # "failed"
        PROVE  /\ l.online \in SUBSET R!Rows /\ l.local \in SUBSET R!Rows
               /\ R!IsFiniteSet(l.online) /\ R!IsFiniteSet(l.local)
    BY <1>3 DEF R!LedgerIsRead
  <1>4. CASE l.kind = "counted"
    <2>1. a = R!Counted(l.online, l.local)
      BY <1>4 DEF R!AuditOf
    <2>2. QED
      BY <1>3, <1>4, <2>1, CountedIsValid
  <1>5. CASE l.kind = "compared"
    <2>1. a = R!Compared(l.online, l.local, TRUE, l.depth) /\ l.depth \in BOOLEAN
      BY <1>5, Zenon DEF R!AuditOf, R!LedgerIsRead, R!Unsupported
    <2> PICK x, y, deep : x = l.online /\ y = l.local /\ deep = l.depth
      OBVIOUS
    <2>2. a = R!Compared(x, y, TRUE, deep)
      BY <2>1
    <2>3. /\ a.status = R!ComparedStatus(x, y, TRUE, deep) /\ a.depth = deep
          /\ a.reason = R!explain_evidence_difference(x, y)
          /\ a.recognized = R!Cardinality(x)
          /\ a.downloaded = R!canonical_downloaded_count(x, y)
          /\ a.online = <<x>> /\ a.onlineInventory = <<R!Inventory(x)>>
          /\ a.local = <<y>> /\ a.localInventory = <<R!Inventory(y)>>
          /\ a.onlineContent = R!ContentOf(x) /\ a.localContent = R!ContentOf(y)
      BY <2>2 DEF R!Compared, R!Hash
    <2>4. /\ x \in SUBSET R!Rows /\ y \in SUBSET R!Rows /\ deep \in BOOLEAN
          /\ R!IsFiniteSet(x) /\ R!IsFiniteSet(y)
      BY <1>3, <1>5, <2>1
    <2>5. QED
      BY <2>3, <2>4, ComparedIsValid, Zenon
  <1>6. CASE l.kind = "repaired"
    <2>1. a = R!Repaired(l.online, l.local, l.depth) /\ l.depth \in BOOLEAN
      BY <1>6 DEF R!AuditOf, R!LedgerIsRead
    <2>2. ~(l.depth /\ R!evidence_is_historical_subset(l.online, l.local))
      BY <1>6 DEF R!Unsupported
    <2>3. R!RepairedStatus(l.online, l.local, l.depth) = R!ComparedStatus(l.online, l.local, TRUE, l.depth)
      BY <2>2, Zenon DEF R!RepairedStatus, R!RecomputedStatus, R!Classified, R!ComparedStatus
    <2> PICK x, y, deep : x = l.online /\ y = l.local /\ deep = l.depth
      OBVIOUS
    <2>4. a = [R!Compared(x, y, TRUE, deep) EXCEPT !.status = R!ComparedStatus(x, y, TRUE, deep)]
      BY <2>1, <2>3 DEF R!Repaired
    <2>5. /\ a.status = R!ComparedStatus(x, y, TRUE, deep) /\ a.depth = deep
          /\ a.reason = R!explain_evidence_difference(x, y)
          /\ a.recognized = R!Cardinality(x)
          /\ a.downloaded = R!canonical_downloaded_count(x, y)
          /\ a.online = <<x>> /\ a.onlineInventory = <<R!Inventory(x)>>
          /\ a.local = <<y>> /\ a.localInventory = <<R!Inventory(y)>>
          /\ a.onlineContent = R!ContentOf(x) /\ a.localContent = R!ContentOf(y)
      BY <2>4 DEF R!Compared, R!Hash
    <2>6. /\ x \in SUBSET R!Rows /\ y \in SUBSET R!Rows /\ deep \in BOOLEAN
          /\ R!IsFiniteSet(x) /\ R!IsFiniteSet(y)
      BY <1>3, <1>6, <2>1
    <2>7. QED
      BY <2>5, <2>6, ComparedIsValid, Zenon
  <1>7. QED
    BY <1>1, <1>2, <1>4, <1>5, <1>6

\* ... and refuses those.
LEMMA UnsupportedIsInvalid ==
  ASSUME NEW r, R!LedgerIsRead(r.ledger), R!Unsupported(r),
         NEW a, a = R!AuditOf(r.ledger)
  PROVE  ~R!validate_audit_bundle(a)
  <1> PICK l : l = r.ledger
    OBVIOUS
  <1>1. ASSUME a.reason # "none", a.reason # "evidence_unavailable",
               ~R!validate_full_audit_bundle(a)
        PROVE  ~R!validate_audit_bundle(a)
    <2>1. a # R!NoAudit
      BY <1>1 DEF R!NoAudit
    <2>2. QED
      BY <1>1, <2>1 DEF R!validate_audit_bundle, R!Mode
  <1>2. CASE l.kind = "listed"
    <2>1. a = R!Listed(l.online, l.local, l.held, l.excluded, l.depth)
      BY <1>2 DEF R!AuditOf
    <2>2. a.reason = "inventory_only" /\ a.status # "access_failed"
      BY <2>1 DEF R!Listed, R!ListedStatus, R!classify_attachment_counts
    <2>3. ~R!validate_full_audit_bundle(a)
      BY <2>2 DEF R!validate_full_audit_bundle, R!FULL_AUDIT_COMPARISON_REASONS
    <2>4. QED
      BY <1>1, <2>2, <2>3
  <1>3. \A x, y : R!explain_evidence_difference(x, y) \notin {"none", "evidence_unavailable"}
    BY DEF R!explain_evidence_difference
  <1>4. CASE l.kind = "compared" /\ ~l.archived
    <2>1. a = R!Compared(l.online, l.local, l.archived, l.depth)
      BY <1>4 DEF R!AuditOf
    <2>2. a.reason = R!explain_evidence_difference(l.online, l.local)
      BY <2>1 DEF R!Compared
    <2>3. a.localInventory = R!Null
      BY <1>4, <2>1 DEF R!Compared
    <2>4. a.status # "access_failed"
      BY <2>1 DEF R!Compared, R!ComparedStatus, R!Classified, R!classify_evidence
    <2>5. ~R!validate_full_audit_bundle(a)
      BY <2>3, <2>4 DEF R!validate_full_audit_bundle
    <2>6. QED
      BY <1>1, <1>3, <2>2, <2>5
  <1>5. CASE /\ l.kind = "repaired" /\ l.depth
             /\ R!evidence_is_historical_subset(l.online, l.local)
    <2>1. a = R!Repaired(l.online, l.local, l.depth)
      BY <1>5 DEF R!AuditOf
    <2>2. a.reason = R!explain_evidence_difference(l.online, l.local)
      BY <2>1 DEF R!Compared, R!Repaired
    <2>3. a.status = "historical_retained" /\ a.depth
      BY <1>5, <2>1 DEF R!Compared, R!Repaired, R!RepairedStatus, R!RecomputedStatus
    <2>4. R!expected_full_audit_status(a) = "depth_limit_reached"
      BY <2>3 DEF R!expected_full_audit_status
    <2>5. ~R!validate_full_audit_bundle(a)
      BY <2>3, <2>4 DEF R!validate_full_audit_bundle
    <2>6. QED
      BY <1>1, <1>3, <2>2, <2>5
  <1>6. QED
    BY <1>2, <1>4, <1>5 DEF R!Unsupported

\* One of the audits that finished, the latest, is read.
LEMMA LatestIsRead ==
  ASSUME NEW rows, R!IsFiniteSet(rows), \A r \in rows : r.id \in Nat /\ r.finished \in Nat
  PROVE  \/ R!Latest(rows) = R!NoAudit /\ \A r \in rows : ~(r.finished > 0)
         \/ \E r \in rows : r.finished > 0 /\ R!Latest(rows) = R!AuditOf(r.ledger)
  <1> DEFINE F == {r \in rows : r.finished > 0}
             later(a, b) == a.finished > b.finished \/ (a.finished = b.finished /\ a.id >= b.id)
             above(x) == {y \in F : ~later(x, y)}
             heights == {Cardinality(above(x)) : x \in F}
  <1>1. R!Latest(rows) = IF F = {} THEN R!NoAudit
                         ELSE R!AuditOf((CHOOSE r \in F : \A o \in F : later(r, o)).ledger)
    BY DEF R!Latest
  <1>2. CASE F = {}
    BY <1>1, <1>2
  <1>3. ASSUME F # {} PROVE \E r \in F : \A o \in F : later(r, o)
    <2>1. \A x \in F : IsFiniteSet(above(x)) /\ Cardinality(above(x)) \in Nat
      <3>1. IsFiniteSet(rows)
        BY SizesOfRows
      <3>2. \A x \in F : above(x) \subseteq rows
        OBVIOUS
      <3> HIDE DEF above, F
      <3>3. QED
        BY <3>1, <3>2, FS_Subset, FS_CardinalityType
    <2>2. heights \subseteq Nat /\ heights # {}
      BY <1>3, <2>1, Zenon
    <2>3. PICK n \in heights : \A m \in heights : ~(<<m, n>> \in OpToRel(<, Nat))
      <3> HIDE DEF heights
      <3> QED
        BY <2>2, NatLessThanWellFounded, WFMin, Zenon
    <2>4. PICK x \in F : n = Cardinality(above(x))
      BY <2>3, Zenon
    <2>5. ASSUME NEW y \in F, ~later(x, y) PROVE FALSE
      <3>1. \A r \in F : r.id \in Nat /\ r.finished \in Nat
        OBVIOUS
      <3>2. y \in above(x) /\ y \notin above(y)
        BY <2>5, <3>1
      <3>3. \A z \in F : ~later(y, z) => ~later(x, z)
        BY <2>5, <3>1
      <3>4. above(y) \in SUBSET above(x)
        BY <3>3
      <3>5. Cardinality(above(y)) \in heights
        BY Zenon
      <3> HIDE DEF above, heights, F, later
      <3>6. Cardinality(above(y)) <= n /\ Cardinality(above(y)) # n
        BY <2>1, <2>4, <3>2, <3>4, FS_Subset
      <3>7. <<Cardinality(above(y)), n>> \in OpToRel(<, Nat)
        BY <2>1, <2>4, <2>5, <3>6 DEF OpToRel
      <3>8. QED
        BY <2>3, <3>5, <3>7, Zenon
    <2>6. QED
      BY <2>5
  <1>4. CASE F # {}
    <2>1. PICK r : r = CHOOSE x \in F : \A o \in F : later(x, o)
      OBVIOUS
    <2>2. r \in F
      BY <1>3, <1>4, <2>1
    <2>3. R!Latest(rows) = R!AuditOf(r.ledger)
      BY <1>1, <1>4, <2>1
    <2>4. QED
      BY <2>2, <2>3
  <1>5. QED
    BY <1>2, <1>4

\* It is the one that finished after all others, where there is one.
LEMMA LatestIsStrict ==
  ASSUME NEW rows, \A q \in rows : q.id \in Nat /\ q.finished \in Nat,
         NEW r \in rows, r.finished > 0, \A o \in rows \ {r} : o.finished < r.finished
  PROVE  R!Latest(rows) = R!AuditOf(r.ledger)
  <1> DEFINE F == {x \in rows : x.finished > 0}
             later(a, b) == a.finished > b.finished \/ (a.finished = b.finished /\ a.id >= b.id)
  <1>1. R!Latest(rows) = IF F = {} THEN R!NoAudit
                         ELSE R!AuditOf((CHOOSE x \in F : \A o \in F : later(x, o)).ledger)
    BY DEF R!Latest
  <1>2. r \in F /\ \A o \in F : later(r, o)
    OBVIOUS
  <1>3. ASSUME NEW x \in F, \A o \in F : later(x, o) PROVE x = r
    <2>1. later(x, r)
      BY <1>2, <1>3
    <2>2. x # r => x.finished < r.finished /\ x.finished \in Nat /\ r.finished \in Nat
      OBVIOUS
    <2>3. QED
      BY <2>1, <2>2
  <1>4. PICK c : c = CHOOSE x \in F : \A o \in F : later(x, o)
    OBVIOUS
  <1>5. c \in F /\ \A o \in F : later(c, o)
    BY <1>2, <1>4
  <1>6. c = r
    BY <1>3, <1>5
  <1>7. QED
    BY <1>1, <1>2, <1>4, <1>6

\* The reasons that stand against an item.
LEMMA ReasonsBlock ==
  ASSUME NEW manifest, NEW files, NEW audit, NEW reasons,
         reasons = R!Reasons(manifest, files, audit)
  PROVE  /\ audit # R!NoAudit /\ audit.depth => "DEPTH_LIMIT_REACHED" \in reasons
         /\ manifest.status = "depth_limit_reached" => "DEPTH_LIMIT_REACHED" \in reasons
         /\ manifest.status \in R!FAILED_DOWNLOAD_STATUSES => "DOWNLOAD_FAILED" \in reasons
         /\ R!Blocked(reasons) = "none" =>
              /\ files = {} => R!zero_pair(manifest)
              /\ files # {} => ~manifest.confirmed
              /\ \A file \in files : R!Blocked(R!FileReasons(file)) = "none"
              /\ audit # R!NoAudit => R!Blocked(R!AuditReasons(manifest, audit)) = "none"
  <1>1. reasons = R!ManifestReasons(manifest, files)
                  \cup (UNION {R!FileReasons(file) : file \in files})
                  \cup (IF audit = R!NoAudit THEN {} ELSE R!AuditReasons(manifest, audit))
    BY DEF R!Reasons
  <1>2. \A X, Y : X \subseteq Y /\ R!Blocked(Y) = "none" => R!Blocked(X) = "none"
    BY DEF R!Blocked
  <1>3. R!ManifestReasons(manifest, files) \subseteq reasons
    BY <1>1
  <1>4. \A file \in files : R!FileReasons(file) \subseteq reasons
    BY <1>1
  <1>5. ASSUME audit # R!NoAudit
        PROVE  R!AuditReasons(manifest, audit) \subseteq reasons
    BY <1>1, <1>5
  <1>6. audit # R!NoAudit /\ audit.depth => "DEPTH_LIMIT_REACHED" \in reasons
    <2>1. R!When(audit.depth, {"DEPTH_LIMIT_REACHED"}) \subseteq R!AuditReasons(manifest, audit)
      BY DEF R!AuditReasons
    <2>2. audit.depth => R!When(audit.depth, {"DEPTH_LIMIT_REACHED"}) = {"DEPTH_LIMIT_REACHED"}
      BY Zenon DEF R!When
    <2>3. QED
      BY <1>5, <2>1, <2>2, Zenon
  <1>7. /\ manifest.status = "depth_limit_reached" => "DEPTH_LIMIT_REACHED" \in reasons
        /\ manifest.status \in R!FAILED_DOWNLOAD_STATUSES => "DOWNLOAD_FAILED" \in reasons
        /\ files = {} /\ ~R!zero_pair(manifest) => "NOT_CHECKED" \in reasons
        /\ files # {} /\ manifest.confirmed => "ATTACHMENT_INVENTORY_CONFLICT" \in reasons
    BY <1>3 DEF R!ManifestReasons, R!When
  <1>8. ASSUME R!Blocked(reasons) = "none"
        PROVE  /\ files = {} => R!zero_pair(manifest)
               /\ files # {} => ~manifest.confirmed
    BY <1>7, <1>8 DEF R!Blocked, R!MISSING_REASONS
  <1>9. QED
    BY <1>2, <1>4, <1>5, <1>6, <1>7, <1>8

\* A publishable assessment has no reason against it.
LEMMA PublishableIsUnblocked ==
  ASSUME NEW manifest, NEW present, NEW files, NEW audit,
         NEW assessed, assessed = R!assess_loaded(manifest, present, files, audit)
  PROVE  /\ assessed.publishable =>
              /\ R!Blocked(R!Reasons(manifest, files, audit)) = "none"
              /\ manifest # R!NoManifest
              /\ \/ /\ files = {} /\ R!zero_pair(manifest)
                    /\ assessed.status = "no_attachment_confirmed"
                    /\ assessed.reasons = {"NO_ATTACHMENT_CONFIRMED"}
                 \/ /\ ~(files = {} /\ R!zero_pair(manifest))
                    /\ assessed.status = "ok" /\ assessed.reasons = {"VERIFIED_STORED_EVIDENCE"}
         /\ ~assessed.publishable =>
              /\ assessed.status = R!Blocked(assessed.reasons)
              /\ assessed.status # "none"
              /\ manifest # R!NoManifest =>
                    \/ assessed.reasons = {"ARCHIVED_ITEM_MISSING"}
                    \/ assessed.reasons = R!Reasons(manifest, files, audit)
         /\ assessed.publishable \in BOOLEAN
  <1> DEFINE absent == R!When(manifest = R!NoManifest, {"MANIFEST_MISSING"})
                           \cup R!When(~present, {"ARCHIVED_ITEM_MISSING"})
             empty == files = {} /\ R!zero_pair(manifest)
  <1> PICK reasons : reasons = IF absent # {} THEN absent ELSE R!Reasons(manifest, files, audit)
    BY Zenon
  <1>1. /\ assessed.publishable = (R!Blocked(reasons) = "none")
        /\ assessed.status = IF R!Blocked(reasons) # "none" THEN R!Blocked(reasons)
                             ELSE IF empty THEN "no_attachment_confirmed" ELSE "ok"
        /\ assessed.reasons = IF R!Blocked(reasons) # "none" THEN reasons
                              ELSE {IF empty THEN "NO_ATTACHMENT_CONFIRMED"
                                    ELSE "VERIFIED_STORED_EVIDENCE"}
    BY DEF R!assess_loaded
  <1>2. absent # {} => R!Blocked(absent) # "none"
    BY DEF R!Blocked, R!MISSING_REASONS, R!When
  <1>3. absent = {} => manifest # R!NoManifest
    BY DEF R!When
  <1>4. manifest # R!NoManifest /\ absent # {} => absent = {"ARCHIVED_ITEM_MISSING"}
    BY DEF R!When
  <1> HIDE DEF absent, empty
  <1>5. R!Blocked(reasons) = "none" => absent = {} /\ reasons = R!Reasons(manifest, files, audit)
    BY <1>2
  <1>6. QED
    BY <1>1, <1>3, <1>4, <1>5, Zenon DEF empty

\* Every assessment of a package with a manifest, whose audit is accepted, is
\* consistent with what it was made from.
LEMMA AssessmentIsConsistent ==
  ASSUME NEW manifest, manifest # R!NoManifest, NEW present, NEW files,
         NEW audit, R!validate_audit_bundle(audit),
         NEW assessed, assessed = R!assess_loaded(manifest, present, files, audit)
  PROVE  R!validate_readiness_consistency(manifest, audit, assessed)
  <1>a. PICK found : found = R!Reasons(manifest, files, audit)
    OBVIOUS
  <1>b. PICK added :
            added = R!When(audit.depth \/ manifest.status = "depth_limit_reached",
                           {"DEPTH_LIMIT_REACHED"})
                    \cup R!When(manifest.status \in R!FAILED_DOWNLOAD_STATUSES,
                                {"DOWNLOAD_FAILED"})
    BY Zenon
  <1>1. added \subseteq {"DEPTH_LIMIT_REACHED", "DOWNLOAD_FAILED"}
    BY <1>b DEF R!When
  <1>2. added \subseteq found
    <2>1. "DEPTH_LIMIT_REACHED" \in added =>
              \/ audit # R!NoAudit /\ audit.depth
              \/ manifest.status = "depth_limit_reached"
      BY <1>b DEF R!When, R!NoAudit
    <2>2. "DOWNLOAD_FAILED" \in added => manifest.status \in R!FAILED_DOWNLOAD_STATUSES
      BY <1>b DEF R!When
    <2>3. QED
      BY <1>a, <1>1, <2>1, <2>2, ReasonsBlock
  <1> DEFINE reasons == assessed.reasons \cup added
             expected == IF R!Blocked(reasons) # "none" THEN R!Blocked(reasons)
                         ELSE IF "NO_ATTACHMENT_CONFIRMED" \in reasons
                              THEN "no_attachment_confirmed"
                         ELSE IF "VERIFIED_STORED_EVIDENCE" \in reasons THEN "ok"
                         ELSE "none"
  <1>3. SUFFICES
          /\ expected # "none" /\ assessed.status = expected
          /\ expected = "no_attachment_confirmed" => R!zero_pair(manifest)
          /\ expected = "ok" => ~manifest.confirmed
          /\ expected \in {"ok", "no_attachment_confirmed"} => audit.status \in {"none", "matched"}
    BY <1>b DEF R!validate_readiness_consistency
  <1>4. CASE assessed.publishable
    <2>1. /\ R!Blocked(found) = "none"
          /\ \/ /\ files = {} /\ R!zero_pair(manifest)
                /\ assessed.status = "no_attachment_confirmed"
                /\ assessed.reasons = {"NO_ATTACHMENT_CONFIRMED"}
             \/ /\ ~(files = {} /\ R!zero_pair(manifest))
                /\ assessed.status = "ok" /\ assessed.reasons = {"VERIFIED_STORED_EVIDENCE"}
      BY <1>a, <1>4, PublishableIsUnblocked
    <2>2. added = {}
      BY <1>1, <1>2, <2>1 DEF R!Blocked, R!MISSING_REASONS
    <2>3. expected = assessed.status
      BY <2>1, <2>2 DEF R!Blocked, R!MISSING_REASONS
    <2>4. /\ files = {} => R!zero_pair(manifest)
          /\ files # {} => ~manifest.confirmed
          /\ audit # R!NoAudit => R!Blocked(R!AuditReasons(manifest, audit)) = "none"
      BY <1>a, <2>1, ReasonsBlock
    <2>5. audit.status \in {"none", "matched"}
      <3>1. R!NoAudit.status = "none"
        BY DEF R!NoAudit
      <3>2. audit.status # "matched" => R!Blocked(R!AuditReasons(manifest, audit)) # "none"
        BY DEF R!AuditReasons, R!Blocked, R!MISSING_REASONS, R!When
      <3>3. QED
        BY <2>4, <3>1, <3>2
    <2> HIDE DEF expected
    <2>6. QED
      BY <2>1, <2>3, <2>4, <2>5
  <1>5. CASE ~assessed.publishable
    <2>1. /\ assessed.status = R!Blocked(assessed.reasons) /\ assessed.status # "none"
          /\ \/ assessed.reasons = {"ARCHIVED_ITEM_MISSING"}
             \/ assessed.reasons = found
      BY <1>a, <1>5, PublishableIsUnblocked
    <2>2. R!Blocked(reasons) = R!Blocked(assessed.reasons)
      <3>1. CASE assessed.reasons = {"ARCHIVED_ITEM_MISSING"}
        BY <3>1 DEF R!Blocked, R!MISSING_REASONS
      <3>2. CASE assessed.reasons = found
        <4>1. reasons = assessed.reasons
          BY <1>2, <3>2
        <4>2. QED
          BY <4>1
      <3>3. QED
        BY <2>1, <3>1, <3>2
    <2>3. expected = R!Blocked(reasons) /\ R!Blocked(reasons) # "none"
      BY <2>1, <2>2
    <2>4. \A X : R!Blocked(X) \notin {"ok", "no_attachment_confirmed"}
      BY DEF R!Blocked
    <2> HIDE DEF expected, reasons
    <2>5. QED
      BY <2>1, <2>2, <2>3, <2>4
  <1>6. assessed.publishable \in BOOLEAN
    BY PublishableIsUnblocked
  <1>7. QED
    BY <1>4, <1>5, <1>6

\* The row of an audit is not the one of no audit.
LEMMA AuditIsSomething ==
  ASSUME NEW l, R!LedgerIsRead(l)
  PROVE  R!AuditOf(l) # R!NoAudit
  <1> SUFFICES ASSUME R!AuditOf(l).status = "none" PROVE FALSE
    BY DEF R!NoAudit
  <1>1. CASE l.kind = "failed"
    BY <1>1 DEF R!AuditOf, R!AccessFailed, R!NoAudit
  <1>2. CASE l.kind = "compared"
    BY <1>2 DEF R!AuditOf, R!Compared, R!ComparedStatus, R!Classified, R!classify_evidence
  <1>3. CASE l.kind = "repaired"
    BY <1>3 DEF R!AuditOf, R!Repaired, R!Compared, R!RepairedStatus, R!Classified,
       R!RecomputedStatus, R!classify_evidence
  <1>4. CASE l.kind = "counted"
    BY <1>4, Zenon DEF R!AuditOf, R!Counted, R!Compared, R!CountedStatus, R!classify_attachment_counts
  <1>5. CASE l.kind = "listed"
    BY <1>5, Zenon DEF R!AuditOf, R!Listed, R!Compared, R!ListedStatus, R!classify_attachment_counts
  <1>6. QED
    BY <1>1, <1>2, <1>3, <1>4, <1>5 DEF R!LedgerIsRead

\* What the last audit compared, where it lets an item be published.
LEMMA AuditHeld ==
  ASSUME NEW r, R!LedgerIsRead(r.ledger), NEW manifest,
         NEW a, a = R!AuditOf(r.ledger), R!Blocked(R!AuditReasons(manifest, a)) = "none"
  PROVE  \/ /\ r.ledger.kind = "counted"
            /\ R!Cardinality(r.ledger.online) = a.downloaded
         \/ /\ r.ledger.kind \in {"compared", "repaired"}
            /\ r.ledger.online = r.ledger.local /\ ~R!Unhashed(r.ledger.online)
            /\ ~r.ledger.depth
  <1> PICK l : l = r.ledger
    OBVIOUS
  <1>1. \A X, Y : X \subseteq Y /\ R!Blocked(Y) = "none" => R!Blocked(X) = "none"
    BY DEF R!Blocked
  <1>2. a.status = "matched"
    BY DEF R!AuditReasons, R!Blocked, R!MISSING_REASONS, R!When
  <1>3. R!Blocked(R!MatchedReasons(a)) = "none"
    <2>1. R!When(a.status = "matched", R!MatchedReasons(a)) \subseteq R!AuditReasons(manifest, a)
      BY DEF R!AuditReasons
    <2>2. R!When(a.status = "matched", R!MatchedReasons(a)) = R!MatchedReasons(a)
      BY <1>2 DEF R!When
    <2>3. QED
      BY <1>1, <2>1, <2>2
  <1>4. l.kind # "failed"
    <2>1. l.kind = "failed" => a = R!AccessFailed
      BY DEF R!AuditOf
    <2>2. R!AccessFailed.status = "access_failed"
      BY DEF R!AccessFailed, R!NoAudit
    <2>3. QED
      BY <1>2, <2>1, <2>2
  <1>5. CASE l.kind = "counted"
    <2>1. a = R!Counted(l.online, l.local)
      BY <1>5 DEF R!AuditOf
    <2>2. a.reason = "evidence_unavailable" /\ a.recognized = R!Cardinality(l.online)
      BY <2>1 DEF R!Counted, R!Compared
    <2>3. R!CountsAgree(a)
      BY <1>3, <2>2 DEF R!MatchedReasons, R!Blocked, R!MISSING_REASONS, R!When
    <2>4. QED
      BY <1>5, <2>2, <2>3 DEF R!CountsAgree
  <1>6. \A x, y, archived, deep : R!ComparedStatus(x, y, archived, deep) = "matched" =>
                                      x = y /\ ~R!Unhashed(x) /\ ~deep
    BY DEF R!ComparedStatus, R!Classified, R!classify_evidence
  <1>7. CASE l.kind = "compared"
    <2>1. a = R!Compared(l.online, l.local, l.archived, l.depth)
      BY <1>7 DEF R!AuditOf
    <2>2. a.status = R!ComparedStatus(l.online, l.local, l.archived, l.depth)
      BY <2>1 DEF R!Compared
    <2>3. QED
      BY <1>2, <1>6, <1>7, <2>2
  <1>8. CASE l.kind = "repaired"
    <2>1. a = R!Repaired(l.online, l.local, l.depth)
      BY <1>8 DEF R!AuditOf
    <2>2. a.status = R!RepairedStatus(l.online, l.local, l.depth)
      BY <2>1 DEF R!Repaired, R!Compared
    <2>3. \A x, y, deep : R!RepairedStatus(x, y, deep) = "matched" =>
                              x = y /\ ~R!Unhashed(x) /\ ~deep
      BY DEF R!RepairedStatus, R!RecomputedStatus, R!classify_evidence
    <2>4. QED
      BY <1>2, <1>8, <2>2, <2>3
  <1>9. CASE l.kind = "listed"
    <2>1. a = R!Listed(l.online, l.local, l.held, l.excluded, l.depth)
      BY <1>9 DEF R!AuditOf
    <2>2. a.reason = "inventory_only" /\ a.onlineInventory = R!Null
      BY <2>1 DEF R!Listed, R!Compared
    <2>3. "NOT_CHECKED" \in R!MatchedReasons(a)
      BY <2>2 DEF R!MatchedReasons, R!Recorded, R!When
    <2>4. QED
      BY <1>3, <2>3 DEF R!Blocked
  <1>10. QED
    BY <1>4, <1>5, <1>7, <1>8, <1>9 DEF R!LedgerIsRead

\* A file without a reason against it is complete.
LEMMA FileHeld ==
  ASSUME NEW file, R!Blocked(R!FileReasons(file)) = "none"
  PROVE  /\ file.status = "verified" /\ file.placed /\ ~file.malformed
         /\ R!Recorded(file.size, file.sha256) /\ ~R!Differ(file.stored, file.sha256)
         /\ ~R!Differ(file.expected, file.size) /\ ~R!Differ(file.storedSize, file.size)
  <1>1. \A X, Y : X \subseteq Y /\ R!Blocked(Y) = "none" => R!Blocked(X) = "none"
    BY DEF R!Blocked
  <1>2. \A c, x : x \in {"ARCHIVE_FILE_MISSING", "SIZE_MISMATCH", "SHA256_MISMATCH",
                         "NOT_CHECKED"} /\ R!Blocked(R!When(c, {x})) = "none" => ~c
    BY DEF R!Blocked, R!MISSING_REASONS, R!When
  <1>3. file.status = "verified" /\ file.size # R!Null /\ file.sha256 # R!Null
    <2>1. R!When(file.status # "verified" \/ file.size = R!Null \/ file.sha256 = R!Null,
                 {"NOT_CHECKED"}) \subseteq R!FileReasons(file)
      BY DEF R!FileReasons
    <2>2. QED
      BY <1>1, <1>2, <2>1, Zenon
  <1>4. file.placed
    <2>1. R!When(file.status = "verified" /\ ~file.placed, {"ARCHIVE_FILE_MISSING"})
            \subseteq R!FileReasons(file)
      BY <1>3 DEF R!FileReasons, R!FAILED_DOWNLOAD_STATUSES
    <2>2. QED
      BY <1>1, <1>2, <1>3, <2>1, Zenon
  <1>5. /\ ~R!Differ(file.stored, file.sha256) /\ ~R!Differ(file.expected, file.size)
        /\ ~R!Differ(file.storedSize, file.size)
    <2>1. /\ R!When(R!Differ(file.expected, file.size) \/ R!Differ(file.storedSize, file.size),
                    {"SIZE_MISMATCH"}) \subseteq R!FileReasons(file)
          /\ R!When(R!Differ(file.stored, file.sha256), {"SHA256_MISMATCH"})
               \subseteq R!FileReasons(file)
      BY DEF R!FileReasons
    <2>2. QED
      BY <1>1, <1>2, <2>1, Zenon
  <1>6. ~file.malformed
    <2>1. R!When(file.malformed, {"NOT_CHECKED"}) \subseteq R!FileReasons(file)
      BY DEF R!FileReasons
    <2>2. QED
      BY <1>1, <1>2, <2>1
  <1>7. QED
    BY <1>3, <1>4, <1>5, <1>6 DEF R!Recorded

\* The parents the paths give a container are finitely many.
LEMMA ParentsAreFinite ==
  ASSUME NEW given, given \in Seq({given[i] : i \in DOMAIN given}),
         \A i \in DOMAIN given : \E S : given[i].path \in Seq(S),
         NEW container, NEW rows, \A x : x \in rows <=> \E i \in DOMAIN given : x = given[i]
  PROVE  IsFiniteSet(R!ParentsOf(rows, container))
  <1> DEFINE places(row) == {j \in DOMAIN row.path : row.path[j] = container}
             parents(row) == {R!ParentIn(row.path, i) : i \in places(row)}
  <1>1. IsFiniteSet(rows)
    <2>1. DOMAIN given = 1..Len(given) /\ Len(given) \in Nat
      OBVIOUS
    <2>2. IsFiniteSet(DOMAIN given)
      BY <2>1, FS_Interval
    <2>3. given \in Surjection(DOMAIN given, rows)
      BY DEF Surjection
    <2>4. QED
      BY <2>2, <2>3, FS_Surjection
  <1>2. ASSUME NEW row \in rows PROVE IsFiniteSet(parents(row))
    <2>1. PICK S : row.path \in Seq(S)
      BY <1>2
    <2>2. PICK n \in Nat : DOMAIN row.path = 1..n
      BY <2>1
    <2>3. IsFiniteSet(DOMAIN row.path)
      <3>1. IsFiniteSet(1..n)
        BY FS_Interval
      <3>2. QED
        BY <2>2, <3>1
    <2>4. places(row) \in SUBSET DOMAIN row.path
      OBVIOUS
    <2>5. IsFiniteSet(places(row))
      BY <2>3, <2>4, FS_Subset
    <2>6. [i \in places(row) |-> R!ParentIn(row.path, i)] \in Surjection(places(row), parents(row))
      BY DEF Surjection
    <2> HIDE DEF places, parents
    <2>7. QED
      BY <2>5, <2>6, FS_Surjection
  <1>a. PICK families : families = {parents(row) : row \in rows}
    BY Zenon
  <1>3. R!ParentsOf(rows, container) = UNION families
    BY <1>a DEF R!ParentsOf
  <1> HIDE DEF parents
  <1>4. IsFiniteSet(families)
    <2>1. PICK f : f = [row \in rows |-> parents(row)]
      BY Zenon
    <2>2. f \in Surjection(rows, families)
      BY <1>a, <2>1 DEF Surjection
    <2>3. QED
      BY <1>1, <2>2, FS_Surjection
  <1>5. \A T \in families : IsFiniteSet(T)
    BY <1>2, <1>a
  <1>6. QED
    BY <1>3, <1>4, <1>5, FS_UNION

\* The attachments of an accepted decision lie in a forest of containers.
LEMMA InputsForest ==
  ASSUME R!CaseIsRead(s1.manifest, s2, s3), s5 = "accepted" => R!attachment_rows(s3)
  PROVE  R!InputsAreForests
  <1> SUFFICES ASSUME s5 = "accepted" PROVE R!InputsAreForests
    BY DEF R!InputsAreForests
  <1>g. PICK given : given = s3
    OBVIOUS
  <1>h. R!CaseIsRead(s1.manifest, s2, given) /\ R!attachment_rows(given)
    BY <1>g
  <1>a. PICK rows : rows = {given[i] : i \in DOMAIN given}
    BY Zenon
  <1>b. \A x : x \in rows <=> \E i \in DOMAIN given : x = given[i]
    BY <1>a
  <1>1. /\ \A c \in R!Containers(rows) : R!Cardinality(R!ParentsOf(rows, c)) = 1
        /\ \A row \in rows : R!PlacedWell(row)
        /\ \A row \in rows : row.key \notin R!Above(rows, row.key)
    BY <1>a, <1>h DEF R!attachment_rows
  <1>2. ASSUME NEW row \in rows
        PROVE  /\ DOMAIN row.path = 1..Len(row.path) /\ Len(row.path) \in Nat
               /\ \A k \in DOMAIN row.path : row.path[k] # "none"
    <2>1. PICK i \in DOMAIN given : row = given[i]
      BY <1>b
    <2>2. PICK p : p = given[i].path
      OBVIOUS
    <2>3. p \in Seq({p[k] : k \in DOMAIN p} \ {"none"})
      BY <1>h, <2>2, Zenon DEF R!CaseIsRead
    <2>4. /\ DOMAIN p = 1..Len(p) /\ Len(p) \in Nat
          /\ \A k \in DOMAIN p : p[k] # "none"
      BY <2>3
    <2>5. QED
      BY <2>1, <2>2, <2>4
  <1>3. \A row \in rows : row.path[row.depth] = row.container
    BY <1>1 DEF R!PlacedWell
  <1>4. ASSUME NEW a \in rows, NEW b \in rows, NEW i \in DOMAIN a.path, NEW j \in DOMAIN b.path,
               a.path[i] = b.path[j]
        PROVE  R!ParentIn(a.path, i) = R!ParentIn(b.path, j)
    <2> PICK c : c = a.path[i]
      OBVIOUS
    <2>1. c \in R!Containers(rows)
      BY DEF R!Containers
    <2>2. IsFiniteSet(R!ParentsOf(rows, c))
      <3>1. given \in Seq({given[k] : k \in DOMAIN given})
        BY <1>b, <1>h DEF R!CaseIsRead
      <3>2. \A k \in DOMAIN given : \E S : given[k].path \in Seq(S)
        BY <1>b, <1>h, Zenon DEF R!CaseIsRead
      <3>3. QED
        BY <1>b, <3>1, <3>2, ParentsAreFinite, Zenon
    <2>3. PICK p : R!ParentsOf(rows, c) = {p}
      BY <1>1, <2>1, <2>2, SizesOfRows, FS_Singleton, Zenon
    <2>4. \A row \in rows : \A k \in DOMAIN row.path :
              row.path[k] = c => R!ParentIn(row.path, k) \in R!ParentsOf(rows, c)
      BY DEF R!ParentsOf
    <2>5. R!ParentIn(a.path, i) = p /\ R!ParentIn(b.path, j) = p
      BY <1>4, <2>3, <2>4
    <2>6. QED
      BY <2>5
  <1> DEFINE Apart(n) ==
        \E a, b \in rows : \E j \in DOMAIN b.path :
            /\ n \in DOMAIN a.path /\ a.path[n] = b.path[j]
            /\ ~(n = j /\ \A k \in 1..n : a.path[k] = b.path[k])
             apart == {n \in Nat : Apart(n)}
  <1>5. apart = {}
    <2> SUFFICES ASSUME apart # {} PROVE FALSE
      OBVIOUS
    <2>1. PICK n \in apart : \A m \in apart : ~(<<m, n>> \in OpToRel(<, Nat))
      <3>1. apart \subseteq Nat
        OBVIOUS
      <3> HIDE DEF apart
      <3>2. QED
        BY <3>1, NatLessThanWellFounded, WFMin, Zenon
    <2>2. \A m \in Nat : m < n => ~Apart(m)
      BY <2>1, Zenon DEF OpToRel
    <2>a. PICK a \in rows, b \in rows : \E j \in DOMAIN b.path :
              /\ n \in DOMAIN a.path /\ a.path[n] = b.path[j]
              /\ ~(n = j /\ \A k \in 1..n : a.path[k] = b.path[k])
      BY <2>1, Zenon
    <2>3. PICK j \in DOMAIN b.path :
              /\ n \in DOMAIN a.path /\ a.path[n] = b.path[j]
              /\ ~(n = j /\ \A k \in 1..n : a.path[k] = b.path[k])
      BY <2>a
    <2> HIDE DEF apart, Apart
    <2>4. R!ParentIn(a.path, n) = R!ParentIn(b.path, j)
      BY <1>4, <2>3
    <2>5. /\ n \in 1..Len(a.path) /\ j \in 1..Len(b.path)
          /\ Len(a.path) \in Nat /\ Len(b.path) \in Nat
      BY <1>2, <2>3
    <2>6. /\ n > 1 => n - 1 \in DOMAIN a.path /\ a.path[n - 1] # "none"
          /\ j > 1 => j - 1 \in DOMAIN b.path /\ b.path[j - 1] # "none"
      <3>1. ASSUME NEW row \in rows, NEW k \in DOMAIN row.path, k > 1
            PROVE  k - 1 \in DOMAIN row.path /\ row.path[k - 1] # "none"
        <4>1. DOMAIN row.path = 1..Len(row.path) /\ Len(row.path) \in Nat
          BY <1>2
        <4>2. k - 1 \in DOMAIN row.path
          BY <3>1, <4>1
        <4>3. QED
          BY <1>2, <4>2
      <3>2. QED
        BY <2>3, <3>1
    <2>7. CASE n = 1
      <3>1. j = 1
        BY <2>4, <2>5, <2>6, <2>7 DEF R!ParentIn
      <3>2. \A k \in 1..n : k = 1
        BY <2>7
      <3>3. QED
        BY <2>3, <2>7, <3>1, <3>2
    <2>8. CASE n > 1
      <3>1. j > 1 /\ a.path[n - 1] = b.path[j - 1]
        BY <2>4, <2>5, <2>6, <2>8 DEF R!ParentIn
      <3>2. ~Apart(n - 1)
        BY <2>2, <2>5, <2>8
      <3>3. n - 1 = j - 1 /\ \A k \in 1..(n - 1) : a.path[k] = b.path[k]
        BY <2>3, <2>6, <2>8, <3>1, <3>2 DEF Apart
      <3>4. n = j
        BY <2>5, <3>3
      <3>5. \A k \in 1..n : k \in 1..(n - 1) \/ k = n
        BY <2>5
      <3>6. \A k \in 1..n : a.path[k] = b.path[k]
        BY <2>3, <3>3, <3>4, <3>5
      <3>7. QED
        BY <2>3, <3>4, <3>6
    <2>9. QED
      BY <2>5, <2>7, <2>8
  <1>6. ASSUME NEW a \in rows, NEW b \in rows, NEW i \in DOMAIN a.path, NEW j \in DOMAIN b.path,
               a.path[i] = b.path[j]
        PROVE  i = j /\ \A k \in 1..i : a.path[k] = b.path[k]
    <2>1. i \in Nat
      <3>1. DOMAIN a.path = 1..Len(a.path) /\ Len(a.path) \in Nat
        BY <1>2
      <3>2. QED
        BY <3>1
    <2>2. ~Apart(i)
      BY <1>5, <2>1
    <2>3. QED
      BY <1>6, <2>2
  <1>7. /\ \A row \in rows : row.key \notin R!Above(rows, row.key)
        /\ \A a, b \in rows : \A i \in DOMAIN a.path, j \in DOMAIN b.path :
               a.path[i] = b.path[j] => i = j /\ \A k \in 1..i : a.path[k] = b.path[k]
        /\ \A row \in rows : row.path[row.depth] = row.container
    BY <1>1, <1>3, <1>6
  <1>8. QED
    <2>1. rows = {s3[i] : i \in DOMAIN s3}
      BY <1>a, <1>g
    <2>2. QED
      BY <1>7, <2>1, Zenon DEF R!InputsAreForests

\* The invariant holds at first,
LEMMA ReadinessInit ==
  ASSUME R!Init
  PROVE  R!ReadinessInv
  BY ReadinessAssumption DEF R!Init, R!ReadinessInv, R!CasesAreRead

\* after every step,
LEMMA ReadinessNext ==
  ASSUME R!ReadinessInv, [R!Next]_(R!vars)
  PROVE  R!ReadinessInv'
  <1>1. CASE R!Assess
    BY <1>1 DEF R!Assess, R!ReadinessInv
  <1>2. CASE R!Fingerprint
    BY <1>2 DEF R!Fingerprint, R!ReadinessInv
  <1>3. CASE UNCHANGED R!vars
    BY <1>3 DEF R!vars, R!ReadinessInv
  <1>4. QED
    BY <1>1, <1>2, <1>3 DEF R!Next

\* and it implies what it is for.
LEMMA ReadinessHolds ==
  ASSUME R!ReadinessInv
  PROVE  R!ReadinessIsSound
  <1> PICK manifest : manifest = s1.manifest
    OBVIOUS
  <1> PICK audit : audit = R!Latest(s2)
    OBVIOUS
  <1> PICK assessed : assessed = R!assess_loaded(manifest, s1.present, s1.files, audit)
    OBVIOUS
  <1>1. /\ R!CaseIsRead(manifest, s2, s3)
        /\ s4 \in {<<>>, <<assessed>>}
        /\ s5 = "accepted" =>
             /\ manifest # R!NoManifest
             /\ R!validate_readiness_consistency(manifest, audit, assessed)
             /\ R!attachment_rows(s3)
        /\ s5 = "refused" =>
             ~(/\ manifest # R!NoManifest
               /\ R!validate_readiness_consistency(manifest, audit, assessed)
               /\ R!attachment_rows(s3))
    BY DEF R!ReadinessInv
  <1>2. /\ R!IsFiniteSet(s2)
        /\ \A r \in s2 : r.id \in Nat /\ r.finished \in Nat /\ R!LedgerIsRead(r.ledger)
    BY <1>1 DEF R!CaseIsRead
  <1>3. R!PublishableIsHeld
    <2> SUFFICES ASSUME s4 # <<>>, s4[1].publishable
                 PROVE  /\ s1.files = {} => R!zero_pair(s1.manifest)
                        /\ \A file \in s1.files :
                             /\ file.status = "verified" /\ file.placed /\ ~file.malformed
                             /\ R!Recorded(file.size, file.sha256)
                             /\ ~R!Differ(file.stored, file.sha256)
                             /\ ~R!Differ(file.expected, file.size)
                             /\ ~R!Differ(file.storedSize, file.size)
                        /\ \A r \in s2 :
                             (r.finished > 0 /\ \A o \in s2 \ {r} : o.finished < r.finished) =>
                               \/ r.ledger.kind = "counted"
                                      /\ R!Cardinality(r.ledger.online) = R!Latest(s2).downloaded
                               \/ r.ledger.kind \in {"compared", "repaired"}
                                      /\ r.ledger.online = r.ledger.local
                                      /\ ~R!Unhashed(r.ledger.online)
                                      /\ ~r.ledger.depth
      BY DEF R!PublishableIsHeld, R!Assessed
    <2>1. assessed.publishable
      BY <1>1
    <2>2. PICK reasons : reasons = R!Reasons(manifest, s1.files, audit)
      OBVIOUS
    <2>3. R!Blocked(reasons) = "none"
      BY <2>1, <2>2, PublishableIsUnblocked
    <2>4. /\ s1.files = {} => R!zero_pair(manifest)
          /\ \A file \in s1.files : R!Blocked(R!FileReasons(file)) = "none"
          /\ audit # R!NoAudit => R!Blocked(R!AuditReasons(manifest, audit)) = "none"
      BY <2>2, <2>3, ReasonsBlock
    <2>5. ASSUME NEW r \in s2, r.finished > 0, \A o \in s2 \ {r} : o.finished < r.finished
          PROVE  \/ r.ledger.kind = "counted"
                        /\ R!Cardinality(r.ledger.online) = R!Latest(s2).downloaded
                 \/ r.ledger.kind \in {"compared", "repaired"}
                        /\ r.ledger.online = r.ledger.local
                        /\ ~R!Unhashed(r.ledger.online)
                        /\ ~r.ledger.depth
      <3>1. audit = R!AuditOf(r.ledger)
        BY <1>2, <2>5, LatestIsStrict
      <3>2. audit # R!NoAudit
        BY <1>2, <3>1, AuditIsSomething
      <3>3. R!LedgerIsRead(r.ledger)
        BY <1>2
      <3>4. QED
        BY <2>4, <3>1, <3>2, <3>3, AuditHeld
    <2>6. \A file \in s1.files :
             /\ file.status = "verified" /\ file.placed /\ ~file.malformed
             /\ R!Recorded(file.size, file.sha256)
             /\ ~R!Differ(file.stored, file.sha256)
             /\ ~R!Differ(file.expected, file.size)
             /\ ~R!Differ(file.storedSize, file.size)
      BY <2>4, FileHeld
    <2>7. QED
      BY <2>4, <2>5, <2>6
  <1>4. R!AssessmentsAreAccepted
    <2>1. ASSUME s5 = "refused", R!attachment_rows(s3), manifest # R!NoManifest,
                 \A r \in s2 : ~R!Unsupported(r)
          PROVE  FALSE
      <3>1. R!validate_audit_bundle(audit)
        <4>1. CASE audit = R!NoAudit
          BY <4>1 DEF R!validate_audit_bundle, R!Mode
        <4>2. CASE audit # R!NoAudit
          <5>1. PICK r \in s2 : audit = R!AuditOf(r.ledger)
            BY <1>2, <4>2, LatestIsRead
          <5>2. R!LedgerIsRead(r.ledger) /\ ~R!Unsupported(r)
            BY <1>2, <2>1
          <5>3. QED
            BY <5>1, <5>2, SupportedIsValid
        <4>3. QED
          BY <4>1, <4>2
      <3>2. R!validate_readiness_consistency(manifest, audit, assessed)
        BY <2>1, <3>1, AssessmentIsConsistent
      <3>3. QED
        BY <1>1, <2>1, <3>2
    <2>2. ASSUME s5 = "accepted", NEW r \in s2, r.finished > 0, R!Latest({r}) = audit,
                 R!Unsupported(r)
          PROVE  FALSE
      <3>1. R!Latest({r}) = R!AuditOf(r.ledger)
        <4>1. \A q \in {r} : q.id \in Nat /\ q.finished \in Nat
          BY <1>2
        <4>2. r \in {r} /\ \A o \in {r} \ {r} : o.finished < r.finished
          OBVIOUS
        <4>3. QED
          BY <2>2, <4>1, <4>2, LatestIsStrict
      <3>2. ~R!validate_audit_bundle(audit)
        BY <1>2, <2>2, <3>1, UnsupportedIsInvalid
      <3>3. QED
        BY <1>1, <2>2, <3>2 DEF R!validate_readiness_consistency
    <2>3. QED
      BY <2>1, <2>2, Zenon DEF R!AssessmentsAreAccepted
  <1>5. R!InputsAreForests
    BY <1>1, InputsForest
  <1>6. QED
    BY <1>3, <1>4, <1>5 DEF R!ReadinessIsSound

\* What is called publishable is held, every assessment but those of three kinds of
\* audits passes the test of the fingerprint, and what is hashed is a forest
\* (ReadinessIsSound; classification/readiness.py, classification/fingerprint.py), for
\* every package, ledger and placement of attachments.  Assumed of them is what their
\* records are (CasesAreRead).
THEOREM AssessmentsAreSound == AllSpec => []ReadinessIsSound
  <1> DEFINE Inv == which = "readiness" => R!ReadinessInv
  <1>1. AllInit => Inv
    BY ReadinessInit DEF AllInit
  <1>2. Inv /\ [AllNext]_all => Inv'
    <2> SUFFICES ASSUME which = "readiness", R!ReadinessInv, [AllNext]_all PROVE R!ReadinessInv'
      BY DEF AllNext, all
    <2>1. [R!Next]_(R!vars)
      <3>1. CASE AllNext
        BY <3>1 DEF AllNext
      <3>2. CASE UNCHANGED all
        BY <3>2 DEF all, slots, R!vars
      <3>3. QED
        BY <3>1, <3>2
    <2>2. QED
      BY <2>1, ReadinessNext
  <1>3. Inv => ReadinessIsSound
    BY ReadinessHolds DEF ReadinessIsSound
  <1> QED
    BY <1>1, <1>2, <1>3, PTL DEF AllSpec

-----------------------------------------------------------------------------
\* MCComponents adds to MCItems only components that do not touch those there, so
\* that every theorem about ItemsSpec is one about AllSpec.
THEOREM ComponentsTakeItems == AllSpec => ItemsSpec
  <1>1. AllInit => ItemsInit
    BY DEF AllInit, ItemsInit, ItemComponents
  <1>2. [AllNext]_all => [ItemsNext]_items
    <2>1. AllNext => ItemsNext
      BY DEF AllNext, ItemsNext, ItemComponents
    <2>2. UNCHANGED all => UNCHANGED items
      BY DEF all, items, slots, Slots7to19, Slots7to11, Slots8to11, Slots9to11, Slots12to19
    <2>3. QED
      BY <2>1, <2>2
  <1> QED
    BY <1>1, <1>2, PTL DEF AllSpec, ItemsSpec
=============================================================================
