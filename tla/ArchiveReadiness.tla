-------------------------- MODULE ArchiveReadiness --------------------------
(***************************************************************************)
(* What the archive of one item is worth to a classification decision      *)
(* (classification/readiness.py), and what of it a decision's fingerprint  *)
(* accepts (classification/fingerprint.py).  A package is the item's row of *)
(* the done manifest, its archived attachments and the rows online audits  *)
(* left; the assessment reads only these.  A hash is modelled by what it   *)
(* hashes: <<>> is an absent one and <<v>> the hash of v.                   *)
(***************************************************************************)
EXTENDS AuditEvidence, Sequences

CONSTANT Cases    \* the packages, audits and attachments to assess, <<package, audits, inputs>>

VARIABLES
    package,      \* [manifest, present, files]
    audits,       \* the rows of the audits: [id, finished (0: not yet), ledger]
    inputs,       \* the attachments of the decision
    assessment,   \* <<>>, or <<[status, publishable, reasons]>>
    verdict       \* "none", or whether the fingerprint was computed

vars == <<package, audits, inputs, assessment, verdict>>

Null == <<>>
Hash(value) == <<value>>
Unknown == -1     \* a count nobody recorded

-----------------------------------------------------------------------------
(***************************************************************************)
(* The row an audit leaves (OnlineAuditItem).                              *)
(***************************************************************************)
NoAudit ==
    [status |-> "none", reason |-> "none", depth |-> FALSE,
     recognized |-> Unknown, downloaded |-> Unknown,
     online |-> Null, local |-> Null, onlineInventory |-> Null, localInventory |-> Null,
     onlineContent |-> Null, localContent |-> Null]

AccessFailed == [NoAudit EXCEPT !.status = "access_failed"]

ContentOf(rows) == IF Unhashed(rows) THEN Null ELSE Hash(rows)

\* An audit that read every attachment.
Compared(online, local, archived, depth) ==
    [status |-> ComparedStatus(online, local, archived, depth),
     reason |-> explain_evidence_difference(online, local), depth |-> depth,
     recognized |-> Cardinality(online),
     downloaded |-> canonical_downloaded_count(online, local),
     online |-> Hash(online), local |-> Hash(local),
     onlineInventory |-> Hash(Inventory(online)),
     localInventory |-> IF archived THEN Hash(Inventory(local)) ELSE Null,
     onlineContent |-> ContentOf(online),
     localContent |-> IF archived THEN ContentOf(local) ELSE Null]

\* ... and whose verdict a later batch of the run recomputed.
Repaired(online, local, depth) ==
    [Compared(online, local, TRUE, depth) EXCEPT !.status = RepairedStatus(online, local, depth)]

\* An audit that only counted: the old kind, which kept no rows of what it saw.
Counted(seen, local) ==
    LET downloaded == canonical_downloaded_count(seen, local)
    IN  [Compared({}, local, TRUE, FALSE) EXCEPT
            !.status = CountedStatus(seen, local),
            !.reason = "evidence_unavailable",
            !.recognized = Cardinality(seen), !.downloaded = downloaded,
            !.onlineInventory = Null, !.onlineContent = Null]

\* The quick audit of today: the names online against the files on disk.
Listed(online, local, held, excluded, depth) ==
    [Compared(online, local, TRUE, depth) EXCEPT
        !.status = ListedStatus(online, held, excluded, depth),
        !.reason = "inventory_only", !.downloaded = Cardinality(held),
        !.onlineInventory = Null, !.onlineContent = Null]

\* The row of an audit, from the two sides it compared.
AuditOf(l) ==
    CASE l.kind = "failed" -> AccessFailed
      [] l.kind = "compared" -> Compared(l.online, l.local, l.archived, l.depth)
      [] l.kind = "repaired" -> Repaired(l.online, l.local, l.depth)
      [] l.kind = "counted" -> Counted(l.online, l.local)
      [] l.kind = "listed" -> Listed(l.online, l.local, l.held, l.excluded, l.depth)

\* The latest audit that finished; one that runs, or waits again, is not read.
Latest_AnyRow(rows) ==
    IF rows = {} THEN NoAudit
    ELSE AuditOf((CHOOSE r \in rows : \A o \in rows : r.id <= o.id).ledger)

Latest(rows) ==
    LET finished == {r \in rows : r.finished > 0}
        later(a, b) == a.finished > b.finished \/ (a.finished = b.finished /\ a.id >= b.id)
    IN  IF finished = {} THEN NoAudit
        ELSE AuditOf((CHOOSE r \in finished : \A o \in finished : later(r, o)).ledger)

-----------------------------------------------------------------------------
(***************************************************************************)
(* The assessment.                                                         *)
(***************************************************************************)
FAILED_DOWNLOAD_STATUSES == {"failed", "error", "rejected_zero_byte", "rejected_error_page",
                              "rejected_type_mismatch", "download_failed"}

MISSING_AUDIT_STATUSES == {"missing_download", "inventory_mismatch", "historical_retained",
                            "depth_limit_reached"}

When(condition, reasons) == IF condition THEN reasons ELSE {}

Count(ledger) == IF ledger = Null THEN Unknown ELSE Cardinality(ledger[1])

zero_pair(manifest) == manifest.confirmed /\ manifest.status = "no_attachment"

ManifestReasons(manifest, files) ==
    When(manifest.status = "depth_limit_reached", {"DEPTH_LIMIT_REACHED"})
    \cup When(files = {} /\ ~zero_pair(manifest),
              {"ZERO_ATTACHMENT_EVIDENCE_INCOMPLETE", "NOT_CHECKED"})
    \cup When(files # {} /\ manifest.confirmed, {"ATTACHMENT_INVENTORY_CONFLICT"})
    \cup IF manifest.status \in FAILED_DOWNLOAD_STATUSES THEN {"DOWNLOAD_FAILED"}
         ELSE When(manifest.status \notin {"downloaded", "no_attachment", "depth_limit_reached"},
                   {"NOT_CHECKED"})

\* A size or a hash is compared only with one that is recorded.
Differ(a, b) == a # Null /\ b # Null /\ a # b

FileReasons(file) ==
    (IF file.status \in FAILED_DOWNLOAD_STATUSES THEN {"DOWNLOAD_FAILED"}
     ELSE When(file.status = "verified" /\ ~file.placed, {"ARCHIVE_FILE_MISSING"}))
    \cup When(Differ(file.expected, file.size) \/ Differ(file.storedSize, file.size),
              {"SIZE_MISMATCH"})
    \cup When(Differ(file.stored, file.sha256), {"SHA256_MISMATCH"})
    \cup When(file.malformed, {"NOT_CHECKED"})
    \cup When(file.status # "verified" \/ file.size = Null \/ file.sha256 = Null,
              {"NOT_CHECKED"})

canonical_download_count_is_possible(recognized, downloaded, local) ==
    /\ Unknown \notin {recognized, downloaded, local}
    /\ IF local < recognized THEN downloaded = local
       ELSE recognized <= downloaded /\ downloaded <= local

\* What a matched verdict must be backed by: the counts alone ...
CountsAgree(audit) ==
    /\ audit.recognized # Unknown /\ Count(audit.online) = 0
    /\ canonical_download_count_is_possible(audit.recognized, audit.downloaded,
                                             Count(audit.local))
    /\ audit.recognized = audit.downloaded
    /\ audit.onlineInventory = Null /\ audit.onlineContent = Null

\* ... or the rows of both sides, their identities and their bytes.
LedgersAgree(audit) ==
    LET counts == {audit.recognized, audit.downloaded, Count(audit.online), Count(audit.local)}
    IN  Cardinality(counts) = 1 /\ Unknown \notin counts /\ ~Differ(audit.online, audit.local)

Recorded(a, b) == a # Null /\ b # Null

MatchedReasons_TrustsVerdict(audit) ==
    When(audit.reason = "evidence_unavailable" /\ ~CountsAgree(audit), {"AUDIT_INVENTORY_MISMATCH"})

MatchedReasons(audit) ==
    IF audit.reason = "evidence_unavailable"
    THEN When(~CountsAgree(audit), {"AUDIT_INVENTORY_MISMATCH"})
    ELSE When(~LedgersAgree(audit) \/ Differ(audit.onlineInventory, audit.localInventory),
              {"AUDIT_INVENTORY_MISMATCH"})
         \cup When(~Recorded(audit.onlineInventory, audit.localInventory)
                       \/ ~Recorded(audit.onlineContent, audit.localContent),
                   {"AUDIT_EVIDENCE_INVALID", "NOT_CHECKED"})
         \cup When(Differ(audit.onlineContent, audit.localContent), {"SHA256_MISMATCH"})

ZeroReasons(audit) ==
    LET counts == {audit.recognized, audit.downloaded, Count(audit.online), Count(audit.local)}
    IN  IF \E n \in counts : n > 0 THEN {"ZERO_ATTACHMENT_AUDIT_CONFLICT"}
        ELSE When(audit.recognized = Unknown, {"AUDIT_EVIDENCE_INVALID", "NOT_CHECKED"})

AuditReasons(manifest, audit) ==
    When(audit.depth, {"DEPTH_LIMIT_REACHED"})
    \cup When(audit.online = Null \/ audit.local = Null, {"AUDIT_EVIDENCE_INVALID", "NOT_CHECKED"})
    \cup When(audit.status = "matched", MatchedReasons(audit))
    \cup (IF audit.status \in MISSING_AUDIT_STATUSES
          THEN {IF audit.status = "depth_limit_reached" THEN "DEPTH_LIMIT_REACHED"
                ELSE "AUDIT_INVENTORY_MISMATCH"}
          ELSE IF audit.status = "content_mismatch" THEN {"SHA256_MISMATCH"}
          ELSE When(audit.status # "matched", {"NOT_CHECKED"}))
    \cup When(zero_pair(manifest) /\ audit.status = "matched", ZeroReasons(audit))

Reasons(manifest, files, audit) ==
    ManifestReasons(manifest, files)
    \cup (UNION {FileReasons(file) : file \in files})
    \cup (IF audit = NoAudit THEN {} ELSE AuditReasons(manifest, audit))

MISSING_REASONS == {"MANIFEST_MISSING", "ARCHIVED_ITEM_MISSING", "DEPTH_LIMIT_REACHED",
                     "ATTACHMENT_INVENTORY_CONFLICT", "ZERO_ATTACHMENT_AUDIT_CONFLICT",
                     "ARCHIVE_FILE_MISSING", "AUDIT_INVENTORY_MISMATCH"}

\* The gravest reason decides.
Blocked(reasons) ==
    IF reasons \cap MISSING_REASONS # {} THEN "missing"
    ELSE IF "DOWNLOAD_FAILED" \in reasons THEN "download_failed"
    ELSE IF "SIZE_MISMATCH" \in reasons THEN "size_mismatch"
    ELSE IF "SHA256_MISMATCH" \in reasons THEN "sha256_mismatch"
    ELSE IF reasons \cap {"NOT_CHECKED", "AUDIT_EVIDENCE_INVALID"} # {} THEN "not_checked"
    ELSE "none"

NoManifest == [status |-> "none", confirmed |-> FALSE]

assess_loaded(manifest, present, files, audit) ==
    LET absent == When(manifest = NoManifest, {"MANIFEST_MISSING"})
                      \cup When(~present, {"ARCHIVED_ITEM_MISSING"})
        reasons == IF absent # {} THEN absent ELSE Reasons(manifest, files, audit)
        publishable == Blocked(reasons) = "none"
        empty == files = {} /\ zero_pair(manifest)
    IN  [publishable |-> publishable,
         status |-> IF ~publishable THEN Blocked(reasons)
                    ELSE IF empty THEN "no_attachment_confirmed" ELSE "ok",
         reasons |-> IF ~publishable THEN reasons
                     ELSE {IF empty THEN "NO_ATTACHMENT_CONFIRMED"
                           ELSE "VERIFIED_STORED_EVIDENCE"}]

-----------------------------------------------------------------------------
(***************************************************************************)
(* The fingerprint: it recomputes what the evidence implies and refuses a  *)
(* package whose assessment or audit says otherwise.                       *)
(***************************************************************************)
Mode(audit) ==
    IF audit = NoAudit THEN "none"
    ELSE IF audit.reason = "evidence_unavailable" THEN "count_only" ELSE "full"

FULL_AUDIT_COMPARISON_REASONS ==
    {"exact_match", "historical_retained", "content_changed", "attachment_identity_changed",
     "attachment_role_changed", "attachment_metadata_changed", "inventory_changed"}

FULL_AUDIT_STATUSES == MISMATCH_ITEM_STATUSES \cup {"matched"}

expected_full_audit_status(a) ==
    IF a.depth THEN "depth_limit_reached"
    ELSE IF a.recognized > a.downloaded THEN "missing_download"
    ELSE IF a.reason = "historical_retained" THEN "historical_retained"
    ELSE IF a.onlineInventory # a.localInventory THEN "inventory_mismatch"
    ELSE IF a.recognized < a.downloaded THEN "historical_retained"
    ELSE IF a.onlineContent = Null THEN "content_unverified"
    ELSE IF a.localContent = Null \/ a.onlineContent # a.localContent THEN "content_mismatch"
    ELSE "matched"

\* What each reason says of the two ledgers.
ReasonFits(a) ==
    /\ (a.reason = "exact_match") = (a.online = a.local)
    /\ CASE a.reason = "exact_match" ->
                /\ Count(a.online) = Count(a.local)
                /\ a.onlineInventory = a.localInventory /\ a.onlineContent = a.localContent
         [] a.reason = "content_changed" ->
                /\ a.onlineInventory = a.localInventory
                /\ a.onlineContent = a.localContent => a.onlineContent = Null
         [] OTHER ->
                /\ a.onlineInventory # a.localInventory
                /\ a.reason = "historical_retained" => Count(a.local) > Count(a.online)

validate_full_audit_bundle(a) ==
    IF a.status = "access_failed" THEN a.reason = "none"
    ELSE /\ a.status \in FULL_AUDIT_STATUSES
         /\ a.reason \in FULL_AUDIT_COMPARISON_REASONS
         /\ a.recognized # Unknown /\ a.downloaded # Unknown
         /\ Count(a.online) = a.recognized
         /\ canonical_download_count_is_possible(a.recognized, a.downloaded, Count(a.local))
         /\ Null \notin {a.onlineInventory, a.localInventory, a.online, a.local}
         /\ ReasonFits(a)
         /\ a.status = expected_full_audit_status(a)

validate_count_only_audit_bundle(a) ==
    /\ a.onlineInventory = Null /\ a.onlineContent = Null
    /\ a.recognized # Unknown /\ a.downloaded # Unknown
    /\ a.online = Hash({}) /\ a.local # Null /\ a.localInventory # Null
    /\ canonical_download_count_is_possible(a.recognized, a.downloaded, Count(a.local))
    /\ a.status = classify_attachment_counts(a.recognized, a.downloaded)

validate_audit_bundle(a) ==
    CASE Mode(a) = "none" -> TRUE
      [] Mode(a) = "full" -> validate_full_audit_bundle(a)
      [] Mode(a) = "count_only" -> validate_count_only_audit_bundle(a)

validate_readiness_consistency(manifest, audit, assessed) ==
    LET reasons ==
            assessed.reasons
            \cup When(audit.depth \/ manifest.status = "depth_limit_reached", {"DEPTH_LIMIT_REACHED"})
            \cup When(manifest.status \in FAILED_DOWNLOAD_STATUSES, {"DOWNLOAD_FAILED"})
        expected == IF Blocked(reasons) # "none" THEN Blocked(reasons)
                    ELSE IF "NO_ATTACHMENT_CONFIRMED" \in reasons THEN "no_attachment_confirmed"
                    ELSE IF "VERIFIED_STORED_EVIDENCE" \in reasons THEN "ok"
                    ELSE "none"
    IN  /\ validate_audit_bundle(audit)
        /\ expected # "none" /\ assessed.status = expected
        /\ expected = "no_attachment_confirmed" => zero_pair(manifest)
        /\ expected = "ok" => ~manifest.confirmed
        /\ expected \in {"ok", "no_attachment_confirmed"} => audit.status \in {"none", "matched"}

-----------------------------------------------------------------------------
(***************************************************************************)
(* The attachments of the decision: [key, role, container, path, parent,   *)
(* parentKey, depth, evidence].                                            *)
(***************************************************************************)
Distinct(path) == Cardinality({path[i] : i \in DOMAIN path}) = Len(path)

ParentIn(path, i) == IF i = 1 THEN "none" ELSE path[i - 1]

\* The parents the paths give a container.
ParentsOf(rows, container) ==
    UNION {{ParentIn(row.path, i) : i \in {j \in DOMAIN row.path : row.path[j] = container}} :
               row \in rows}

Containers(rows) == UNION {{row.path[i] : i \in DOMAIN row.path} : row \in rows}

PlacedWell(row) ==
    /\ row.path # <<>> /\ row.path[Len(row.path)] = row.container
    /\ Len(row.path) = row.depth /\ Distinct(row.path)
    /\ row.parent = ParentIn(row.path, Len(row.path))

\* The attachments reached from one by following its parents.
Above(rows, key) ==
    LET parents(keys) == {row.parentKey : row \in {r \in rows : r.key \in keys}} \ {"none"}
        up[n \in 0..Cardinality(rows)] == IF n = 0 THEN parents({key})
                                          ELSE up[n - 1] \cup parents(up[n - 1])
    IN  up[Cardinality(rows)]

attachment_rows(given) ==
    LET rows == {given[i] : i \in DOMAIN given}
        keys == {row.key : row \in rows}
    IN  /\ \A a, b \in rows : a.key = b.key => a = b
        /\ \A c \in Containers(rows) : Cardinality(ParentsOf(rows, c)) = 1
        /\ \A row \in rows : PlacedWell(row)
        /\ \A row \in rows : row.parentKey \in (keys \cup {"none"}) \ {row.key}
        /\ \A key \in keys : key \notin Above(rows, key)

-----------------------------------------------------------------------------
\* Of the cases: what an audit compared are finite sets of rows.
LedgerIsRead(l) ==
    /\ l.kind \in {"failed", "compared", "repaired", "counted", "listed"}
    /\ l.kind # "failed" => /\ l.online \subseteq Rows /\ IsFiniteSet(l.online)
                            /\ l.local \subseteq Rows /\ IsFiniteSet(l.local)
    /\ l.kind \in {"compared", "repaired"} => l.depth \in BOOLEAN
    /\ l.kind = "compared" => l.archived \in BOOLEAN

\* Nothing is called "none".
CaseIsRead(manifest, rows, given) ==
    /\ manifest.confirmed \in BOOLEAN
    /\ given \in Seq({given[i] : i \in DOMAIN given})
    /\ \A i \in DOMAIN given :
           LET path == given[i].path
           IN  path \in Seq({path[k] : k \in DOMAIN path} \ {"none"})
    /\ IsFiniteSet(rows)
    /\ \A r \in rows : r.id \in Nat /\ r.finished \in Nat /\ LedgerIsRead(r.ledger)

CasesAreRead == \A c \in Cases : CaseIsRead(c[1].manifest, c[2], c[3])

Init ==
    /\ \E c \in Cases : package = c[1] /\ audits = c[2] /\ inputs = c[3]
    /\ assessment = <<>>
    /\ verdict = "none"

\* ArchiveReadinessService.assess_many.
Assess ==
    /\ assessment = <<>>
    /\ assessment' = <<assess_loaded(package.manifest, package.present, package.files,
                                      Latest(audits))>>
    /\ UNCHANGED <<package, audits, inputs, verdict>>

\* readiness_evidence_from_assessment and decision_input_sha256; a manifest
\* without a status, or any contradiction, is an error.
Fingerprint ==
    /\ assessment # <<>> /\ verdict = "none"
    /\ verdict' = IF /\ package.manifest # NoManifest
                     /\ validate_readiness_consistency(package.manifest, Latest(audits),
                                                        assessment[1])
                     /\ attachment_rows(inputs)
                  THEN "accepted" ELSE "refused"
    /\ UNCHANGED <<package, audits, inputs, assessment>>

Next == Assess \/ Fingerprint

Spec == Init /\ [][Next]_vars

-----------------------------------------------------------------------------
Assessed == assessment # <<>>

\* What is called publishable is held: every archived attachment is in its
\* place, complete and of the bytes it was stored with; and the audit that
\* finished last found online what is held (readiness.py:387-476).
PublishableIsHeld ==
    Assessed /\ assessment[1].publishable =>
        /\ package.files = {} => zero_pair(package.manifest)
        /\ \A file \in package.files :
               /\ file.status = "verified" /\ file.placed /\ ~file.malformed
               /\ Recorded(file.size, file.sha256) /\ ~Differ(file.stored, file.sha256)
               /\ ~Differ(file.expected, file.size) /\ ~Differ(file.storedSize, file.size)
        /\ \A r \in audits :
               (r.finished > 0 /\ \A o \in audits \ {r} : o.finished < r.finished) =>
                   \/ r.ledger.kind = "counted"
                          /\ Cardinality(r.ledger.online) = Latest(audits).downloaded
                   \/ r.ledger.kind \in {"compared", "repaired"}
                          /\ r.ledger.online = r.ledger.local /\ ~Unhashed(r.ledger.online)
                          /\ ~r.ledger.depth

\* Every assessment can be fingerprinted ("Losslessly adapt the readiness
\* service result for decision fingerprinting", fingerprint.py:842), except
\* where the code does not keep that promise: the rows of a quick audit, those
\* of an item that was not archived when it was audited, and a recomputed
\* verdict that forgot the depth limit.
Unsupported(r) ==
    \/ r.ledger.kind = "listed"
    \/ r.ledger.kind = "compared" /\ ~r.ledger.archived
    \/ r.ledger.kind = "repaired" /\ r.ledger.depth
           /\ evidence_is_historical_subset(r.ledger.online, r.ledger.local)

AssessmentsAreAccepted ==
    /\ verdict = "refused" /\ attachment_rows(inputs) =>
           package.manifest = NoManifest \/ \E r \in audits : Unsupported(r)
    /\ verdict = "accepted" =>
           ~\E r \in audits : r.finished > 0 /\ Latest({r}) = Latest(audits) /\ Unsupported(r)

\* What is hashed is a forest: no attachment is its own ancestor, and one way
\* leads to a container, at whose end the attachments in it say they are
\* (fingerprint.py:458-506).
InputsAreForests ==
    verdict = "accepted" =>
        LET rows == {inputs[i] : i \in DOMAIN inputs}
        IN  /\ \A row \in rows : row.key \notin Above(rows, row.key)
            /\ \A a, b \in rows : \A i \in DOMAIN a.path, j \in DOMAIN b.path :
                   a.path[i] = b.path[j] => i = j /\ \A k \in 1..i : a.path[k] = b.path[k]
            /\ \A row \in rows : row.path[row.depth] = row.container

ReadinessIsSound == PublishableIsHeld /\ AssessmentsAreAccepted /\ InputsAreForests

\* Why they are: what was said is what the functions say.
ReadinessInv ==
    LET manifest == package.manifest
        assessed == assess_loaded(manifest, package.present, package.files, Latest(audits))
        accepted == /\ manifest # NoManifest
                    /\ validate_readiness_consistency(manifest, Latest(audits), assessed)
                    /\ attachment_rows(inputs)
    IN  /\ CaseIsRead(manifest, audits, inputs)
        /\ assessment \in {<<>>, <<assessed>>}
        /\ verdict \in {"none", "accepted", "refused"}
        /\ verdict = "accepted" => accepted
        /\ verdict = "refused" => ~accepted
=============================================================================
