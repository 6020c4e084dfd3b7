-------------------------- MODULE MCAuditEvidence --------------------------
(***************************************************************************)
(* Every observation of a few attachments: the verdict of execute_audit,    *)
(* then what _repair_item_from_persisted_evidence makes of it.              *)
(***************************************************************************)
EXTENDS AuditEvidence

VARIABLES
    online, local,    \* the attachments there are, and those archived
    held,             \* of those archived: the files on disk
    how,              \* how the item was observed
    status, reason,   \* what the audit recorded
    repaired

vars == <<online, local, held, how, status, reason, repaired>>

\* An observation that counted is one no inspector of the worker makes; that an
\* item was never archived, or is excluded, matters to one verdict each.
Observations ==
    [kind : {"compared"}, archived : BOOLEAN, excluded : {FALSE}, depth : BOOLEAN]
    \cup [kind : {"listed"}, archived : {TRUE}, excluded : BOOLEAN, depth : BOOLEAN]
    \cup [kind : {"counted"}, archived : {TRUE}, excluded : {FALSE}, depth : BOOLEAN]

\* An inspection keeps one row per key, the archive one per role and key.
OnePerKey(rows) == \A a, b \in rows : Key(a) = Key(b) => a = b
OnePerIdentity(rows) == \A a, b \in rows : a.id = b.id => a = b

\* Only an audit that compares reads bytes.
Unread(rows) == \A row \in rows : row.bytes = NoBytes

Init ==
    /\ how \in Observations
    /\ online \in {s \in SUBSET Rows : OnePerKey(s) /\ (how.kind = "compared" \/ Unread(s))}
    /\ local \in {s \in SUBSET Rows : OnePerIdentity(s)}
    /\ ~how.archived => local = {}
    /\ held \in SUBSET local
    /\ how.kind = "listed" \/ held = local
    /\ status = Status(how, online, local, held)
    /\ reason = Reason(how, online, local)
    /\ repaired = FALSE

Repair ==
    /\ ~repaired
    /\ reason # "inventory_only"
    /\ repaired' = TRUE
    /\ status' = RecomputedStatus(Cardinality(online), canonical_downloaded_count(online, local),
                                  Stored(how, online), local, how.depth)
    /\ reason' = explain_evidence_difference(Stored(how, online), local)
    /\ UNCHANGED <<online, local, held, how>>

Next == Repair

Spec == Init /\ [][Next]_vars

\* archive_migration_campaign.py:23-24: an item counts as safe only if every
\* attachment OA shows is held locally with the same bytes, before and after
\* the verdict was recomputed.  An observation that only counted leaves no rows,
\* and recomputing takes that for an item without attachments.
SafeMeansHeld ==
    Safe(status, reason, how.depth) =>
        (online \subseteq local /\ ~how.depth) \/ (how.kind = "counted" /\ repaired)

\* The item is called matched when nothing differs and all bytes were compared
\* (tests/test_online_audit.py:330, 479); by a list, when there are as many
\* files as attachments and of the same keys, whatever is in them; and by a
\* count, when there are as many.
MatchedMeansEqual ==
    status = "matched" =>
        CASE how.kind = "compared" -> online = local /\ ~Unhashed(online)
          [] how.kind = "listed" -> /\ Cardinality(online) = Cardinality(held)
                                    /\ Keys(online) = Keys(held)
                                    /\ ~how.excluded /\ ~how.depth
          [] how.kind = "counted" -> Cardinality(online) = canonical_downloaded_count(online, local)

\* An attachment that is not held at all never passes for matched or retained
\* history where the attachments were read; where they were listed it never
\* passes for matched, and no verdict permits anything.
MissingIsReported ==
    /\ how.kind = "compared" /\ (\E o \in online : \A l \in local : l.id # o.id) =>
           status \notin SAFE_AUDIT_STATUSES
    /\ how.kind = "listed" /\ ~(Keys(online) \subseteq Keys(held)) => status # "matched"
    /\ how.kind = "listed" => ~Safe(status, reason, how.depth)

\* Why it is so: the status is always one of the two verdicts.
EvidenceInv ==
    /\ online \subseteq Rows /\ local \subseteq Rows /\ held \subseteq local
    /\ how \in Observations
    /\ ~how.archived => local = {}
    /\ \/ /\ repaired = FALSE
          /\ status = Status(how, online, local, held) /\ reason = Reason(how, online, local)
       \/ /\ repaired = TRUE /\ how.kind # "listed"
          /\ status = RecomputedStatus(Cardinality(online),
                                       canonical_downloaded_count(online, local),
                                       Stored(how, online), local, how.depth)
          /\ reason = explain_evidence_difference(Stored(how, online), local)
=============================================================================
