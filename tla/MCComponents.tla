---------------------------- MODULE MCComponents ----------------------------
(***************************************************************************)
(* The components that share no state with one another and are small       *)
(* enough to be checked together: every behaviour is one of the component  *)
(* `which` names.  The leases have their own variables; the variables of   *)
(* the others are s1, s2, ..., in the order their modules declare them.    *)
(* Those an item passes through between its archive and its candidate      *)
(* package are in MCItems, with their properties.                          *)
(***************************************************************************)
EXTENDS MCItems, ResourceLeases

CONSTANTS
    w1, w2, scan1, scan2, browser, gpu,     \* leases
    Identities, Bytes, b1, b2,              \* audit evidence
    PackageCases,                           \* archive readiness
    item, child, grandchild,                \* pages of an item
    Items, Limit, Elsewhere, Configured,    \* archive batches
    Backups, Week, Orphans, Protected, Runs,              \* clean-up
    MaxLoads

MCOwners == {w1, w2, scan1, scan2}
MCWorkers == {w1, w2}
MCResources == {browser, gpu}

\* One attachment key in two roles, and another key.
SomeIdentities == {<<"body", "k1">>, <<"attachment", "k1">>, <<"attachment", "k2">>}

\* Up to three views of files, read or unread.
View == [control: {"link", "widget", "batch"}, name: {"report", "re...port", "other"},
         bytes: {"b1", "none"}, role: {"official_body"}]
SomeViews == UNION {[1..n -> View] : n \in 1..3}

VARIABLES s13, s14, s15, s16, s17, s18, s19

Slots9to11 == <<s9, s10, s11>>
Slots8to11 == <<s8, Slots9to11>>
Slots7to11 == <<s7, Slots8to11>>
Slots13to19 == <<s13, s14, s15, s16, s17, s18, s19>>
Slots12to19 == <<s12, Slots13to19>>
Slots9to19 == <<Slots9to11, Slots12to19>>
Slots10to19 == <<s10, s11, Slots12to19>>
Slots8to19 == <<Slots8to11, Slots12to19>>
Slots7to19 == <<Slots7to11, Slots12to19>>
slots == <<s1, s2, s3, s4, s5, s6, Slots7to19>>
all == <<which, vars, slots>>

E == INSTANCE MCAuditEvidence WITH
    online <- s1, local <- s2, held <- s3, how <- s4, status <- s5, reason <- s6, repaired <- s7

M == INSTANCE ManifestScan WITH
    Length <- 4, MaxItems <- 5, PageSize <- 2, SessionPages <- 2, HeadPages <- 1,
    MaxChanges <- 2,
    list <- s1, newest <- s2, manifest <- s3, sync <- s4, job <- s5, saved <- s6, pc <- s7,
    mem <- s8, view <- s9, room <- s10, drift <- s11

C == INSTANCE DetailCapture WITH
    Docs <- {item, child, grandchild}, Root <- item, Depths <- {2, 3}, MaxFiles <- 1,
    MaxFaults <- 1,
    family <- s1, inventoryOnly <- s2, maxDepth <- s3, content <- s4, known <- s5, read <- s6,
    stack <- s7, visited <- s8, pc <- s9, at <- s10, got <- s11, empty <- s12, late <- s13,
    issues <- s14, captured <- s15, root <- s16, result <- s17, overlooked <- s18, spent <- s19

RC == INSTANCE MCArchiveReadiness

SomePackageCases == RC!SomeCases

R == INSTANCE ArchiveReadiness WITH
    Cases <- PackageCases,
    package <- s1, audits <- s2, inputs <- s3, assessment <- s4, verdict <- s5

ASSUME ReadinessAssumption == R!CasesAreRead

AB == INSTANCE ArchiveBatches WITH
    None <- NoBytes,
    batch <- s1, item <- s2, source <- s3, policies <- s4, jobs <- s5, worker <- s6,
    procs <- s7, notes <- s8, spent <- s9

MD == INSTANCE MCMetadataRules

MetadataItems == MD!SomeItems
MetadataTexts == MD!SomeTexts
ModelReplies == MD!SomeReplies

DD == INSTANCE MCDossierRules

SomeIssuers == DD!IssuerOf
SomeDossiers == DD!SomeCases

\* Three backups of one week, and later ones of the next.
Weeks == [b \in 1..5 |-> IF b <= 3 THEN 1 ELSE 2]

CR == INSTANCE CleanupRuns WITH
    None <- NoBytes,
    disk <- s1, pending <- s2, shelf <- s3, runs <- s4, procs <- s5, erased <- s6,
    disturbed <- s7, spent <- s8

\* Four backups are there, and a file below the old directories.
SomeDisk == s1 = [f \in Backups \cup Orphans |-> IF f = 5 THEN NoBytes ELSE b1] /\ s2.cleaned

None13to19 == s13 = 0 /\ s14 = 0 /\ s15 = 0 /\ s16 = 0 /\ s17 = 0 /\ s18 = 0 /\ s19 = 0
None12to19 == s12 = 0 /\ None13to19
None10to19 == s10 = 0 /\ s11 = 0 /\ None12to19
None9to19 == s9 = 0 /\ None10to19
None8to19 == s8 = 0 /\ None9to19
None7to19 == s7 = 0 /\ None8to19
None == s1 = 0 /\ s2 = 0 /\ s3 = 0 /\ s4 = 0 /\ s5 = 0 /\ s6 = 0 /\ None7to19

AllInit ==
    /\ Init
    /\ \/ which = "leases" /\ None
       \/ which = "evidence" /\ E!Init /\ None8to19
       \/ which = "scan" /\ M!Init /\ None12to19
       \/ which = "capture" /\ C!Init
       \/ which = "readiness" /\ R!Init /\ s6 = 0 /\ None7to19
       \/ which = "classification" /\ I!Init /\ None8to19
       \/ which = "attachments" /\ CA!Init /\ SomeRows /\ None9to19
       \/ which = "build" /\ CB!Init /\ None13to19
       \/ which = "backfill" /\ CF!Init /\ None9to19
       \/ which = "batches" /\ AB!Init /\ None10to19
       \/ which = "metadata" /\ MR!Init /\ None9to19
       \/ which = "dossier" /\ DR!Init /\ s5 = 0 /\ s6 = 0 /\ None7to19
       \/ which = "cleanup" /\ CR!Init /\ SomeDisk /\ None9to19

AllNext ==
    /\ UNCHANGED which
    /\ \/ which = "leases" /\ Next /\ UNCHANGED slots
       \/ /\ UNCHANGED vars
          /\ \/ which = "evidence" /\ E!Next /\ UNCHANGED Slots8to19
             \/ which = "scan" /\ M!Next /\ UNCHANGED Slots12to19
             \/ which = "capture" /\ C!Next
             \/ which = "readiness" /\ R!Next /\ UNCHANGED <<s6, Slots7to19>>
             \/ which = "classification" /\ I!Next /\ UNCHANGED Slots8to19
             \/ which = "attachments" /\ CA!Next /\ UNCHANGED Slots9to19
             \/ which = "build" /\ CB!Next /\ UNCHANGED Slots13to19
             \/ which = "backfill" /\ CF!Next /\ UNCHANGED Slots9to19
             \/ which = "batches" /\ AB!Next /\ UNCHANGED Slots10to19
             \/ which = "metadata" /\ MR!Next /\ UNCHANGED Slots9to19
             \/ which = "dossier" /\ DR!Next /\ UNCHANGED <<s5, s6, Slots7to19>>
             \/ which = "cleanup" /\ CR!Next /\ UNCHANGED Slots9to19

\* Bounds: a change or a fault of a decision, not both, and the last decision
\* only without a fault; up to three commands of the clean-up, the third only
\* without a change or after a fault; of a build, a change and a crash, or two
\* changes of the place of an item.
OneTrouble ==
    /\ which = "classification" =>
           s7.changes + s7.faults <= 1 /\ (s7.faults = 1 => Len(s1) < MaxDecisions)
    /\ which = "cleanup" =>
           s8.loads + s8.changes + (IF s8.loads = 3 THEN 0 ELSE s8.faults) <= 3
    /\ which = "build" /\ s12.changes = 2 => s12.crashes = 0 /\ \E i \in Candidates : s4[i] = 3

AllSpec == AllInit /\ [][AllNext]_all

-----------------------------------------------------------------------------
\* The properties of the components, under the names of their modules; the
\* comments are there.
VerdictIsSound ==
    which = "evidence" => E!SafeMeansHeld /\ E!MatchedMeansEqual /\ E!MissingIsReported
CompleteMeansListed == [][which = "scan" => M!CompletesListed]_all
CaptureIsHonest ==
    which = "capture" =>
        /\ C!NoAttachmentMeansNone /\ C!NothingIsLost
        /\ s1 = "login" /\ s9 = "open" /\ s2 /\ s3 = 2 => C!ViewsAreKept(SomeViews)
ReadinessIsSound == which = "readiness" => R!ReadinessIsSound
BatchesAreTrue == which = "batches" => AB!BatchesAreTrue
CleanupIsSafe == which = "cleanup" => CR!CleanupIsSafe
=============================================================================
