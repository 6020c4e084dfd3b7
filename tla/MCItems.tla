------------------------------- MODULE MCItems -------------------------------
(***************************************************************************)
(* The components an item passes through on its way from an archived page  *)
(* to a candidate package: its classification, the rules for its metadata  *)
(* and its dossier, the notes of its attachments, the build of the package *)
(* and the backfill that does all this for many items.  Every behaviour is *)
(* one of the component `which` names; the variables of all are s1, s2,    *)
(* ..., in the order their modules declare them.  MCComponents adds the    *)
(* components that know nothing of this way, and is what is checked.       *)
(***************************************************************************)
EXTENDS Integers, Sequences, FiniteSets

CONSTANTS
    Entries, MaxDecisions, MaxBusy,         \* classified items
    Self, Persons, ItemCases, Texts, Replies,             \* rules of the metadata
    NumberIssuers, DossierCases,            \* rules of the dossier
    Candidates, BuildIds,                   \* candidate packages, and the runs that build them
    Attachments, CutNames,                  \* attachments by their ids, some with a cut name
    Contents, NoBytes,                      \* what is in a file, and that there is none
    ReadyText, Unreadable, TwoEngines, PoorText,          \* contents that engines tell apart
    Commands,                               \* processes
    Separate,                               \* conversions in a process of their own
    MaxChanges, MaxFaults

VARIABLES which, s1, s2, s3, s4, s5, s6, s7, s8, s9, s10, s11, s12

ASSUME EntriesAssumption == Entries # {}
ASSUME MaxChangesAssumption == MaxChanges \in Nat

I == INSTANCE ItemClassification WITH
    Items <- Entries, LockWhileThinking <- FALSE,
    decisions <- s1, current <- s2, runs <- s3, excluded <- s4, material <- s5, procs <- s6,
    spent <- s7

CA == INSTANCE CandidateAttachments WITH
    Files <- Attachments, Shortened <- CutNames, None <- NoBytes, Direct <- ReadyText,
    Unsupported <- Unreadable, WithFallback <- TwoEngines, PoorFirst <- PoorText,
    Converters <- Commands, Workers <- Separate, MaxTrouble <- 1,
    files <- s1, disk <- s2, artifacts <- s3, products <- s4, procs <- s5, packages <- s6,
    touched <- s7, trouble <- s8

\* Attachments are numbered in the order of their rows.
ASSUME AttachmentsAssumption == Attachments \subseteq Nat

\* One body at least; when it was not verified the others have its content.
SomeRows ==
    \E f \in Attachments :
        /\ s1[f].role = "official_body"
        /\ \A g \in Attachments : /\ g # f => s1[g].verified
                                  /\ s1[f].verified \/ s1[f].sha = s1[g].sha

CB == INSTANCE CandidateBuild WITH
    Items <- Candidates, MaxChanges <- 2, MaxCrashes <- 1,
    decisions <- s1, publishable <- s2, originals <- s3, place <- s4, dir <- s5, rows <- s6,
    held <- s7, packages <- s8, litter <- s9, proc <- s10, qa <- s11, spent <- s12

CF == INSTANCE CandidateBackfill WITH
    Items <- Candidates, Commands <- Commands, RunIds <- BuildIds, None <- NoBytes,
    MaxChanges <- 1, MaxFaults <- 1,
    excluded <- s1, version <- s2, decisions <- s3, runs <- s4, builds <- s5, stages <- s6,
    procs <- s7, spent <- s8

\* There is something to build, once at least; no row is the missing row.
ASSUME CandidatesAssumption == IsFiniteSet(Candidates) /\ Candidates # {}
ASSUME BuildIdsAssumption == BuildIds # {}
ASSUME BackfillAssumption == NoBytes \notin CF!RunRows /\ NoBytes \notin CF!BuildRows

MR == INSTANCE MetadataRules WITH
    item <- s1, stage <- s2, outcome <- s3, left <- s4, texts <- s5, subject <- s6,
    found <- s7, counted <- s8

ASSUME MetadataAssumption == MR!CasesAreRead

DR == INSTANCE DossierRules WITH
    IssuerOf <- NumberIssuers, Cases <- DossierCases,
    item <- s1, files <- s2, pass <- s3, proposed <- s4

ASSUME DossierAssumption == DR!CasesAreRead

\* Up to six items, ordinary or of one of two special buckets.
SomeCatalogs == UNION {[1..n -> 0..2] : n \in 1..6}

-----------------------------------------------------------------------------
\* These components alone, whatever the others do with the same variables.
ItemComponents ==
    {"classification", "metadata", "dossier", "attachments", "build", "backfill"}

ItemsInit ==
    \/ which = "classification" /\ I!Init
    \/ which = "metadata" /\ MR!Init
    \/ which = "dossier" /\ DR!Init
    \/ which = "attachments" /\ CA!Init /\ SomeRows
    \/ which = "build" /\ CB!Init
    \/ which = "backfill" /\ CF!Init
    \/ which \notin ItemComponents

ItemsNext ==
    /\ UNCHANGED which
    /\ \/ which = "classification" /\ I!Next
       \/ which = "metadata" /\ MR!Next
       \/ which = "dossier" /\ DR!Next
       \/ which = "attachments" /\ CA!Next
       \/ which = "build" /\ CB!Next
       \/ which = "backfill" /\ CF!Next
       \/ which \notin ItemComponents

items == <<which, s1, s2, s3, s4, s5, s6, s7, s8, s9, s10, s11, s12>>
ItemsSpec == ItemsInit /\ [][ItemsNext]_items

-----------------------------------------------------------------------------
\* The properties of the components, under the names of their modules; the
\* comments are there.
ClassificationIsSound ==
    /\ which = "classification" => I!ClassificationIsSound
    /\ which = "metadata" => MR!MetadataRulesAreSound
    /\ which = "dossier" => DR!DossierRulesAreSound
CandidatesAreSound ==
    /\ which = "attachments" => CA!AttachmentsAreTrue
    /\ which = "build" => CB!BuildIsSound
    /\ which = "backfill" =>
           /\ CF!BuildsAreWhole /\ CF!ResultsAgree
           /\ /\ \A r \in BuildIds : s4[r] = NoBytes
              /\ \A c \in Commands : s7[c].pc = "idle"
              /\ s2 = 0
              => CF!SamplesAreExact(SomeCatalogs)
=============================================================================
