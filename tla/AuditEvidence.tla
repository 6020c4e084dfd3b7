---------------------------- MODULE AuditEvidence ----------------------------
(***************************************************************************)
(* What an online audit concludes of one item.  A row is the evidence of    *)
(* one attachment: its identity (role and key) and its bytes (size and      *)
(* sha256); NoBytes stands for a row without a hash.  Hashes do not         *)
(* collide, so a fingerprint is modelled by what it hashes.  An audit may   *)
(* read every attachment online and compare it with the archived row, or    *)
(* only list their names and hold them against the files on disk; and the   *)
(* code still takes an observation that only counted.                       *)
(***************************************************************************)
EXTENDS Naturals, FiniteSets, FiniteSetsExt

CONSTANTS
    Identities,   \* <<role, key>>
    Bytes,        \* <<size, sha256>>
    NoBytes

ASSUME NoBytesAssumption == NoBytes \notin Bytes

Rows == [id : Identities, bytes : Bytes \cup {NoBytes}]

Role(row) == row.id[1]
Key(row) == row.id[2]

\* The columns of a row that a comparison looks at.
OnlyId == [row \in Rows |-> row.id]
RoleBytes == [row \in Rows |-> <<Role(row), row.bytes>>]
KeyBytes == [row \in Rows |-> <<Key(row), row.bytes>>]
OnlyBytes == [row \in Rows |-> row.bytes]

\* How often each value of the columns occurs: a sorted list of them.
Signature(rows, columns) ==
    [v \in {columns[row] : row \in rows} |-> Quantify(rows, LAMBDA row : columns[row] = v)]

SameSignature(a, b, columns) == Signature(a, columns) = Signature(b, columns)

-----------------------------------------------------------------------------
Unhashed(rows) == \E row \in rows : row.bytes = NoBytes

Inventory(rows) == Signature(rows, OnlyId)

evidence_is_historical_subset(online, local) ==
    online # local /\ online \subseteq local

explain_evidence_difference(online, local) ==
    IF online = local THEN "exact_match"
    ELSE IF evidence_is_historical_subset(online, local) THEN "historical_retained"
    ELSE IF SameSignature(online, local, OnlyId) THEN "content_changed"
    ELSE IF SameSignature(online, local, RoleBytes) THEN "attachment_identity_changed"
    ELSE IF SameSignature(online, local, KeyBytes) THEN "attachment_role_changed"
    ELSE IF SameSignature(online, local, OnlyBytes) THEN "attachment_metadata_changed"
    ELSE "inventory_changed"

\* The attachments held locally, equal bytes counted once only when there are
\* more of them than online.
canonical_downloaded_count(online, local) ==
    LET hashes == {row.bytes : row \in {l \in local : l.bytes # NoBytes}}
    IN  IF Cardinality(local) < Cardinality(online) THEN Cardinality(local)
        ELSE IF Cardinality(hashes) > Cardinality(online) THEN Cardinality(hashes)
        ELSE Cardinality(online)

\* An item that was never archived has no local fingerprints to compare.
classify_evidence(recognized, downloaded, online, local, archived, depth) ==
    IF depth THEN "depth_limit_reached"
    ELSE IF recognized > downloaded THEN "missing_download"
    ELSE IF archived /\ Inventory(online) # Inventory(local) THEN "inventory_mismatch"
    ELSE IF recognized < downloaded THEN "historical_retained"
    ELSE IF Unhashed(online) THEN "content_unverified"
    ELSE IF ~archived \/ Unhashed(local) \/ online # local THEN "content_mismatch"
    ELSE "matched"

Classified(online, local, archived, depth) ==
    classify_evidence(Cardinality(online), canonical_downloaded_count(online, local),
                      online, local, archived, depth)

\* The verdict on an item whose attachments were read.
ComparedStatus(online, local, archived, depth) ==
    IF ~depth /\ evidence_is_historical_subset(online, local)
    THEN "historical_retained"
    ELSE Classified(online, local, archived, depth)

classify_attachment_counts(recognized, downloaded) ==
    IF recognized > downloaded THEN "missing_download"
    ELSE IF recognized < downloaded THEN "historical_retained"
    ELSE "matched"

Keys(rows) == {Key(row) : row \in rows}

\* The verdict on one whose attachments were only listed: their number and
\* their keys against the archived rows whose files are on disk.
ListedStatus(online, held, excluded, depth) ==
    LET counted == classify_attachment_counts(Cardinality(online), Cardinality(held))
    IN  IF depth THEN "depth_limit_reached"
        ELSE IF excluded THEN "content_unverified"
        ELSE IF counted = "matched" /\ Keys(online) # Keys(held) THEN "inventory_mismatch"
        ELSE counted

\* The verdict on one of which only the number of attachments is known.
CountedStatus(online, local) ==
    classify_attachment_counts(Cardinality(online), canonical_downloaded_count(online, local))

\* The status execute_audit records, and the reason beside it; how is how the
\* item was observed.
Status(how, online, local, held) ==
    CASE how.kind = "compared" -> ComparedStatus(online, local, how.archived, how.depth)
      [] how.kind = "listed" -> ListedStatus(online, held, how.excluded, how.depth)
      [] how.kind = "counted" -> CountedStatus(online, local)

Reason(how, online, local) ==
    CASE how.kind = "compared" -> explain_evidence_difference(online, local)
      [] how.kind = "listed" -> "inventory_only"
      [] how.kind = "counted" -> "evidence_unavailable"

\* The rows that are stored of what was seen online.
Stored(how, online) == IF how.kind = "counted" THEN {} ELSE online

\* The status a later batch recomputes from what is stored, where an item
\* without an archive is one with no attachments.
RecomputedStatus(recognized, downloaded, online, local, depth) ==
    IF evidence_is_historical_subset(online, local)
    THEN "historical_retained"
    ELSE classify_evidence(recognized, downloaded, online, local, TRUE, depth)

\* ... of an item whose attachments were read.
RepairedStatus(online, local, depth) ==
    RecomputedStatus(Cardinality(online), canonical_downloaded_count(online, local),
                     online, local, depth)

MISMATCH_ITEM_STATUSES ==
    {"missing_download", "historical_retained", "inventory_mismatch",
     "content_mismatch", "content_unverified", "depth_limit_reached"}

FINAL_ITEM_STATUSES == MISMATCH_ITEM_STATUSES \cup {"matched", "access_failed"}

SAFE_AUDIT_STATUSES == {"matched", "historical_retained"}
SAFE_COMPARISON_REASONS == {"exact_match", "historical_retained"}

\* What permits the migration of an item and the rebuild of its knowledge.
Safe_StatusOnly(status, reason, depth) == status \in SAFE_AUDIT_STATUSES

Safe(status, reason, depth) ==
    status \in SAFE_AUDIT_STATUSES /\ reason \in SAFE_COMPARISON_REASONS /\ ~depth
=============================================================================
