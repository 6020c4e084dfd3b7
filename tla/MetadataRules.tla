--------------------------- MODULE MetadataRules ---------------------------
(***************************************************************************)
(* How an item is classified before its texts are read, and what the       *)
(* candidate backfill does with the ones that leaves open.                 *)
(*                                                                         *)
(* collect_metadata_evidence notes what the number, the issuer, the title  *)
(* and the people of an item say; classify_from_metadata follows the       *)
(* strongest of it.  For an open item with attachments,                    *)
(* _resolve_internal_outcome converts them one by one, looks for a subject,*)
(* a number or an issuer in their texts, and asks a local model last.      *)
(*                                                                         *)
(* A text is what the patterns find in it: its subject, the configured     *)
(* numbers it does not merely cite, the issuers whose alias it contains,   *)
(* and whether it looks like naming an issuer nobody configured.           *)
(***************************************************************************)
EXTENDS Naturals, Sequences, FiniteSets

CONSTANTS
    Self,        \* the company itself, as an issuer
    Persons,     \* names configured as people
    ItemCases,   \* the items considered
    Texts,       \* what a converted attachment may contain
    Replies      \* what the model may answer

VARIABLES
    item,      \* the item that is classified
    stage,     \* "metadata", "content", "issuer", "category" or "done"
    outcome,   \* the RuleOutcome
    left,      \* attachments not converted yet
    texts,     \* texts of the converted ones, in order
    subject,   \* the business category found by a rule, if any
    found,     \* codes of the evidence the texts added
    counted    \* what _qwen_outcomes counted, in order

vars == <<item, stage, outcome, left, texts, subject, found, counted>>

-----------------------------------------------------------------------------
(***************************************************************************)
(* collect_metadata_evidence.  Confidences are in percent.                 *)
(***************************************************************************)
Says(code, priority, confidence) ==
    [code |-> code, priority |-> priority, confidence |-> confidence, origin |-> "none",
     flow |-> "none", category |-> "none", issuer |-> "none", number |-> "none",
     type |-> "none", person |-> "none", blocks |-> FALSE]

\* A number under the company's own rule speaks for an approval; one under the
\* rule of a configured person blocks.
document_evidence(rule) ==
    [Says("document_number", 1, 99) EXCEPT
        !.origin = IF rule.issuer = Self THEN "internal" ELSE "external",
        !.flow = IF rule.issuer = Self THEN "approval" ELSE "formal_document",
        !.issuer = IF rule.issuer = Self THEN "none" ELSE rule.issuer,
        !.number = "number",
        !.type = rule.type,
        !.blocks = rule.issuer \in Persons]

\* An issuer that aliases do not resolve to one name blocks.
Resolved(issuer) == issuer \notin {"unrecognized", "ambiguous"}

issuer_evidence(issuer) ==
    [Says("explicit_issuer", 1, 99) EXCEPT
        !.origin = IF Resolved(issuer) THEN "external" ELSE "none",
        !.flow = "formal_document",
        !.issuer = IF Resolved(issuer) THEN issuer ELSE "none",
        !.blocks = ~Resolved(issuer) \/ issuer \in Persons]

template_evidence(template) ==
    IF template.origin = "external"
    THEN [Says("external_template", 2, 97) EXCEPT
             !.origin = "external", !.flow = template.flow, !.issuer = template.issuer,
             !.blocks = template.issuer \in Persons]
    ELSE [Says("internal_template", 3, 96) EXCEPT
             !.origin = "internal", !.flow = template.flow, !.category = template.category]

Sided(person) == person.role \in {"internal", "external"}

Side(person) == IF Sided(person) THEN person.role ELSE "none"

initiator_evidence(person) ==
    [Says("initiator_role", 5, IF Sided(person) THEN 86 ELSE 0) EXCEPT
        !.origin = Side(person), !.flow = IF person.role = "unknown" THEN "none" ELSE "initiated",
        !.person = person.id]

\* A transfer by somebody of no known side blocks what is weaker.
transfer_evidence(person) ==
    [Says("structured_transfer", 4, IF Sided(person) THEN 92 ELSE 0) EXCEPT
        !.origin = Side(person), !.flow = "transfer", !.person = person.id,
        !.blocks = ~Sided(person)]

collect_metadata_evidence(i) ==
    {document_evidence(rule) : rule \in i.rules}
    \cup (IF i.issuer = "none" THEN {} ELSE {issuer_evidence(i.issuer)})
    \cup (IF i.transfer
          THEN {[Says("file_transfer", 2, 95) EXCEPT !.origin = "external", !.flow = "transfer"]}
          ELSE {})
    \cup {template_evidence(template) : template \in i.templates}
    \cup {initiator_evidence(i.initiator)}
    \cup {transfer_evidence(i.hops[n]) : n \in DOMAIN i.hops}

-----------------------------------------------------------------------------
(***************************************************************************)
(* classify_from_metadata.                                                 *)
(***************************************************************************)
package_candidates(evidence) == {e \in evidence : e.origin # "none" \/ e.blocks}

Winners(evidence) ==
    {e \in package_candidates(evidence) : \A f \in package_candidates(evidence) : e.priority <= f.priority}

DecisionFields == {"origin", "flow", "issuer", "category", "number", "type"}

Values(evidence, field) == {e[field] : e \in evidence} \ {"none"}

\* What all of the evidence agrees on.
Agreed(evidence, field) ==
    LET values == Values(evidence, field)
    IN  IF Cardinality(values) = 1 THEN CHOOSE v \in values : TRUE ELSE "none"

Conflict(winners) ==
    \/ \E e \in winners : e.blocks
    \/ \E field \in DecisionFields : Cardinality(Values(winners, field)) > 1

Outcome(status, origin, issuer, category, source, action) ==
    [status |-> status, origin |-> origin, issuer |-> issuer, category |-> category,
     source |-> source, action |-> action]

Unresolved(attached, origin) ==
    Outcome("needs_review", origin, "none", "none", "none",
            IF attached > 0 THEN "parse_attachment" ELSE "needs_review")

\* An external item needs an issuer that is not one of the people involved;
\* only a circulated one is external without.  An internal one needs a
\* category.
classify_from_metadata(evidence, attached) ==
    LET winners == Winners(evidence)
        origin == Agreed(winners, "origin")
        issuer == Agreed(winners, "issuer")
        category == Agreed(winners, "category")
    IN  IF winners = {} \/ Conflict(winners) THEN Unresolved(attached, "none")
        ELSE IF origin = "external" /\ issuer \in {"none"} \cup Values(evidence, "person")
        THEN Unresolved(attached, IF \E e \in winners : e.code = "file_transfer"
                                  THEN "external" ELSE "none")
        ELSE IF origin = "internal" /\ category = "none" THEN Unresolved(attached, "internal")
        ELSE Outcome("classified", origin, IF origin = "external" THEN issuer ELSE "none",
                     IF origin = "internal" THEN category ELSE "none", "metadata_rule", "resolved")

\* Of an item, a text or an answer: a name that is there is not "none".
CasesAreRead ==
    /\ \A i \in ItemCases : "none" \notin i.title.aliases
    /\ \A text \in Texts : /\ IsFiniteSet(text.numbers)
                          /\ "none" \notin text.numbers \cup text.aliases
    /\ \A reply \in Replies : reply.category # "none"

Init ==
    /\ item \in ItemCases
    /\ stage = "metadata"
    /\ outcome = Unresolved(0, "none")
    /\ left = 0
    /\ texts = <<>>
    /\ subject = "none"
    /\ found = {}
    /\ counted = <<>>

\* Attachments are converted only if the title does not tell the subject.
Judge ==
    /\ stage = "metadata"
    /\ outcome' = classify_from_metadata(collect_metadata_evidence(item), item.attached)
    /\ IF outcome'.action = "parse_attachment"
       THEN /\ stage' = "content"
            /\ subject' = item.title.subject
            /\ left' = IF subject' = "none" THEN item.attached ELSE 0
       ELSE stage' = "done" /\ UNCHANGED <<subject, left>>
    /\ UNCHANGED <<item, texts, found, counted>>

-----------------------------------------------------------------------------
(***************************************************************************)
(* _resolve_internal_outcome.                                              *)
(***************************************************************************)
\* The next attachment; the first text with a subject ends the reading.
Convert ==
    /\ stage = "content" /\ left > 0
    /\ \/ /\ UNCHANGED <<texts, subject>>       \* not converted, or empty
          /\ left' = left - 1
       \/ \E text \in Texts :
              /\ texts' = Append(texts, text)
              /\ subject' = text.subject
              /\ left' = IF text.subject = "none" THEN left - 1 ELSE 0
    /\ UNCHANGED <<item, stage, outcome, found, counted>>

\* resolve_configured_document_issuer: a text with several numbers tells
\* nothing, and the company's own number is no external issuer.
OneNumber(text) == Cardinality(text.numbers) = 1 /\ Self \notin text.numbers

WithNumber == {n \in DOMAIN texts : OneNumber(texts[n])}

Aliases == item.title.aliases \cup UNION {texts[n].aliases : n \in DOMAIN texts}

LooksIssued == item.title.candidate \/ \E n \in DOMAIN texts : texts[n].candidate

Settled(origin, issuer, category, source) ==
    /\ outcome' = Outcome("classified", origin, issuer, category, source, "resolved")
    /\ stage' = "done"

\* A circulated item is decided by a configured name or not at all.
ResolveExternal ==
    /\ stage = "content" /\ left = 0
    /\ outcome.origin = "external"
    /\ IF WithNumber # {}
       THEN LET first == CHOOSE n \in WithNumber : \A m \in WithNumber : n <= m
            IN  /\ Settled("external", CHOOSE x \in texts[first].numbers : TRUE, "none",
                           "content_rule")
                /\ found' = found \cup {"content_document_number"}
       ELSE IF Aliases # {}
       THEN \E issuer \in Aliases :
                /\ Settled("external", issuer, "none", "content_rule")
                /\ found' = found \cup {"content_issuer_alias"}
       ELSE /\ UNCHANGED outcome
            /\ found' = IF LooksIssued THEN found \cup {"issuer_candidate"} ELSE found
            /\ stage' = IF LooksIssued \/ texts = <<>> THEN "done" ELSE "issuer"
    /\ UNCHANGED <<item, left, texts, subject, counted>>

\* An extracted issuer is noted for the reviewer and decides nothing.
Usable(reply) == reply.form = "object" /\ reply.complete /\ reply.sure

ExtractIssuer ==
    /\ stage = "issuer"
    /\ \E reply \in Replies :
           IF Usable(reply)
           THEN /\ found' = found \cup {"issuer_candidate"}
                /\ counted' = Append(counted, "issuer_candidate")
           ELSE UNCHANGED <<found, counted>>
    /\ stage' = "done"
    /\ UNCHANGED <<item, outcome, left, texts, subject>>

\* What the rules found decides; otherwise the model is asked, if there is a
\* text to show it.
ResolveInternal ==
    /\ stage = "content" /\ left = 0
    /\ outcome.origin # "external"
    /\ IF subject # "none"
       THEN /\ Settled("internal", "none", subject, "content_rule")
            /\ found' = found \cup {"content_rule"}
       ELSE /\ stage' = IF texts = <<>> THEN "done" ELSE "category"
            /\ UNCHANGED <<outcome, found>>
    /\ UNCHANGED <<item, left, texts, subject, counted>>

\* LocalQwenInternalClassifier.classify: why an answer is not taken.
last_rejection_code(reply) ==
    CASE reply.form = "error" -> "model_error"
      [] reply.form = "empty" -> "empty_response"
      [] reply.form = "prose" -> "json_missing"
      [] reply.form = "object" /\ ~reply.complete -> "schema_invalid"
      [] reply.form = "object" /\ reply.complete /\ ~reply.sure -> "confidence_below_threshold"
      [] Usable(reply) /\ reply.category = "other" /\ ~reply.outside ->
             "other_without_explicit_evidence"
      [] OTHER -> "none"

ClassifyByModel ==
    /\ stage = "category"
    /\ \E reply \in Replies :
           LET code == last_rejection_code(reply)
           IN  IF code = "none"
               THEN /\ Settled("internal", "none", reply.category, "local_qwen")
                    /\ found' = found \cup {"local_qwen"}
                    /\ counted' = Append(counted, "accepted")
               ELSE /\ counted' = Append(counted, code)
                    /\ stage' = "done"
                    /\ UNCHANGED <<outcome, found>>
    /\ UNCHANGED <<item, left, texts, subject>>

Next ==
    Judge \/ Convert \/ ResolveExternal \/ ExtractIssuer \/ ResolveInternal \/ ClassifyByModel

Spec == Init /\ [][Next]_vars

-----------------------------------------------------------------------------
Classified == outcome.status = "classified"

\* "Equal-priority conflict cannot be hidden by confidence" (tests of the
\* rules), nor by anything weaker: leaving out evidence of a lower priority
\* than the strongest never changes what is decided; it can only let an issuer
\* through that the evidence had named as a person.
StrongestDecides ==
    stage = "metadata" =>
        LET evidence == collect_metadata_evidence(item)
            speaks == {e \in evidence : e.origin # "none" \/ e.blocks}
            all == classify_from_metadata(evidence, item.attached)
        IN  \A e \in evidence :
                (\E f \in speaks : f.priority < e.priority) =>
                    LET less == classify_from_metadata(evidence \ {e}, item.attached)
                    IN  \/ less = all
                        \/ all.status = "needs_review" /\ less.issuer = e.person

\* The issuer of an external item is a configured one that its number, its
\* issuer field, a title template or a text names; never one the model found,
\* one of several numbers, or, by the metadata, a person
\* (metadata_rules.py:384-388).
ExternalIsConfigured ==
    Classified /\ outcome.origin = "external" =>
        /\ outcome.issuer # "none" /\ outcome.category = "none"
        /\ IF outcome.source = "metadata_rule"
           THEN /\ outcome.issuer \in {rule.issuer : rule \in item.rules} \cup {item.issuer}
                                      \cup {template.issuer : template \in item.templates}
                /\ outcome.issuer \notin Persons \cup {item.initiator.id}
           ELSE \/ \E n \in DOMAIN texts : texts[n].numbers = {outcome.issuer}
                \/ outcome.issuer \in Aliases

\* What the texts say, and what the model says of them, never moves an item
\* from one side to the other; an internal item has a category and no issuer,
\* and one the model chose only if it was sure.
SidesAreKept ==
    LET before == classify_from_metadata(collect_metadata_evidence(item), item.attached)
    IN  stage # "metadata" =>
            /\ before.origin # "none" => outcome.origin = before.origin
            /\ Classified /\ outcome.origin = "internal" =>
                   /\ outcome.issuer = "none" /\ outcome.category # "none"
                   /\ outcome.source = "local_qwen" =>
                          counted = <<"accepted">> /\ texts # <<>> /\ subject = "none"

MetadataRulesAreSound == StrongestDecides /\ ExternalIsConfigured /\ SidesAreKept

\* Why they are: until the item is decided its outcome is the one of the
\* metadata, which left it open.
MetadataInv ==
    LET before == classify_from_metadata(collect_metadata_evidence(item), item.attached)
    IN  /\ item \in ItemCases /\ texts \in Seq(Texts)
        /\ stage \in {"metadata", "content", "issuer", "category", "done"}
        /\ stage = "metadata" =>
               texts = <<>> /\ counted = <<>> /\ outcome.status = "needs_review"
        /\ stage \in {"content", "issuer", "category"} =>
               outcome = before /\ before.action = "parse_attachment" /\ counted = <<>>
        /\ stage = "category" => subject = "none" /\ texts # <<>> /\ outcome.origin # "external"
        /\ stage = "done" => ExternalIsConfigured /\ SidesAreKept
=============================================================================
