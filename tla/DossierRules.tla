---------------------------- MODULE DossierRules ----------------------------
(***************************************************************************)
(* How the pipeline classifies an archived item from its own evidence.     *)
(*                                                                         *)
(* DatabaseEvidenceDossierLoader picks one primary file among the verified *)
(* originals, by their roles and names; classify_dossier decides from the  *)
(* title, the number and that file.  refine_current_dossier does it first  *)
(* from names alone, and with the text of the primary file if that left    *)
(* the item for review.                                                    *)
(*                                                                         *)
(* A title, a name or a text is what the patterns find in it: the document *)
(* numbers not merely cited, an organisation in the place of an issuer,    *)
(* words of an internal form, a subject.                                   *)
(***************************************************************************)
EXTENDS Naturals, Sequences, FiniteSets

CONSTANTS
    Self,        \* the company itself, as an issuer
    IssuerOf,    \* document number -> the issuer of its rule
    Cases        \* the items considered, each with its originals in the order of their ids

VARIABLES
    item,       \* title, number, initiator's role, whether it is known to have no attachment
    files,      \* its verified originals
    pass,       \* "names", "texts" or "done"
    proposed    \* the ProposedClassification

vars == <<item, files, pass, proposed>>

-----------------------------------------------------------------------------
(***************************************************************************)
(* The dossier.                                                            *)
(***************************************************************************)
FormRoles == {"body_snapshot", "workflow_snapshot", "metadata_snapshot"}

\* One file for each content: the one of the longest name, the first of those.
Deduplicated(fs) ==
    {n \in DOMAIN fs : \A m \in DOMAIN fs :
        fs[m].sha = fs[n].sha /\ m # n =>
            \/ fs[m].length < fs[n].length
            \/ fs[m].length = fs[n].length /\ n < m}

\* All numbers of the title and of the item; the same number twice is one.
Numbers(i) == i.title.numbers \cup i.number

\* _preliminary_origin_hint.  A form that the title quotes does not count here;
\* the words of a form are the same here and for the lock, which the two lists
\* of the code are but for a few.
OriginHint(i) ==
    IF i.title.form = "plain" THEN "internal"
    ELSE IF Cardinality(Numbers(i)) = 1
    THEN IF \A n \in Numbers(i) : IssuerOf[n] = Self THEN "internal" ELSE "external"
    ELSE IF Numbers(i) = {} /\ i.title.transfer THEN "external"
    ELSE "none"

RoleScore(hint, file) ==
    CASE hint = "internal" /\ file.role \in FormRoles -> 120
      [] hint = "internal" /\ file.role \notin FormRoles /\ file.form -> 110
      [] hint = "external" /\ file.role = "official_body" -> 140
      [] hint = "external" /\ file.role = "direct_attachment" -> 40
      [] hint = "external" /\ file.role = "official_attachment" -> 20
      [] hint = "none" /\ file.role \in FormRoles -> 80
      [] OTHER -> 0

\* Compared in this order: role, title, name of a formal document.
Score(hint, file) ==
    1000 * RoleScore(hint, file) + (IF file.match THEN 100 ELSE 0) + (IF file.formal THEN 10 ELSE 0)

\* select_primary_attachment: the single best file, 0 for none.
Selection(n, conflict) == [primary |-> n, conflict |-> conflict]

select_primary_attachment(hint, fs, among) ==
    LET best == {n \in among : \A m \in among : Score(hint, fs[m]) <= Score(hint, fs[n])}
        n == CHOOSE k \in best : TRUE
    IN  IF among = {} THEN Selection(0, FALSE)
        ELSE IF Cardinality(best) # 1 THEN Selection(0, TRUE)
        ELSE IF hint = "internal" /\ fs[n].role \notin FormRoles /\ ~fs[n].form /\ ~fs[n].match
        THEN Selection(0, TRUE)
        ELSE Selection(n, FALSE)

NoText == [numbers |-> {}, issuer |-> "none", signature |-> "none", subject |-> "none"]

\* The loader: no file at all is a conflict unless that is known; so is a
\* primary file whose text cannot be read.
Dossier(i, fs, load_text) ==
    LET selected == select_primary_attachment(OriginHint(i), fs, Deduplicated(fs))
        n == selected.primary
    IN  [file |-> n # 0,
         name |-> IF n = 0 THEN "none" ELSE fs[n].issuer,
         text |-> IF n # 0 /\ load_text /\ fs[n].parsed THEN fs[n].text ELSE NoText,
         conflict |-> \/ selected.conflict
                      \/ fs = <<>> /\ ~i.no_attachment_confirmed
                      \/ n # 0 /\ load_text /\ ~fs[n].parsed]

-----------------------------------------------------------------------------
(***************************************************************************)
(* The evidence in it.                                                     *)
(***************************************************************************)
Nothing == [issuer |-> "none", source |-> "none"]

Evidence(issuer, source) == [issuer |-> issuer, source |-> source]

\* _direct_document_match: the first of number, title and header that has one
\* number exactly.
document_match(i, dossier) ==
    LET One(numbers) == Cardinality(numbers) = 1
        Of(numbers) == IssuerOf[CHOOSE n \in numbers : TRUE]
    IN  IF One(i.number) THEN Evidence(Of(i.number), "document_number")
        ELSE IF One(i.title.numbers) THEN Evidence(Of(i.title.numbers), "document_number")
        ELSE IF One(dossier.text.numbers)
        THEN Evidence(Of(dossier.text.numbers), "document_header")
        ELSE Nothing

\* _strong_external_issuer: the first organisation in the place of an issuer.
issuer_evidence(i, dossier) ==
    IF i.title.issuer # "none" THEN Evidence(i.title.issuer, "title_rule")
    ELSE IF dossier.name # "none" THEN Evidence(dossier.name, "attachment_filename")
    ELSE IF dossier.text.issuer # "none" THEN Evidence(dossier.text.issuer, "document_header")
    ELSE IF dossier.text.signature # "none" THEN Evidence(dossier.text.signature, "signature")
    ELSE Nothing

\* _strong_internal_lock.  The normalised title has lost its quotation marks,
\* so a form it quotes counts here.
internal_lock(i, doc, issuer) ==
    IF i.title.form # "none" \/ i.title.own THEN "title_rule"
    ELSE IF doc.issuer = Self THEN doc.source
    ELSE IF issuer.issuer = Self THEN issuer.source
    ELSE IF doc # Nothing \/ issuer # Nothing THEN "none"
    ELSE IF i.initiator = "internal" /\ ~i.title.transfer /\ i.title.subject # "none"
    THEN "title_and_initiator"
    ELSE IF i.title.templates = {"internal"} THEN "title_template"
    ELSE "none"

Foreign(evidence) == evidence # Nothing /\ evidence.issuer # Self

\* classify_by_content, then _special_internal_category.
Category(i, dossier) ==
    IF i.title.subject # "none" THEN i.title.subject
    ELSE IF dossier.text.subject # "none" THEN dossier.text.subject
    ELSE i.title.special

Review(origin, reason) ==
    [status |-> "needs_review", origin |-> origin, issuer |-> "none", category |-> "none",
     source |-> "none", reason |-> reason, conflict |-> FALSE]

Decided(origin, issuer, category, source, conflict) ==
    [status |-> "classified", origin |-> origin, issuer |-> issuer, category |-> category,
     source |-> source, reason |-> "none", conflict |-> conflict]

Unclear(i, dossier) == Cardinality(i.title.numbers) > 1 \/ dossier.conflict

classify_dossier(i, dossier) ==
    LET doc == document_match(i, dossier)
        issuer == issuer_evidence(i, dossier)
        lock == internal_lock(i, doc, issuer)
        Internal(source) ==
            IF Category(i, dossier) = "none" THEN Review("internal", "business_category_missing")
            ELSE Decided("internal", "none", Category(i, dossier), source,
                         lock # "none" /\ (dossier.conflict \/ Foreign(doc) \/ Foreign(issuer)))
    IN  IF lock # "none" THEN Internal(lock)
        ELSE IF Unclear(i, dossier) THEN Review("none", "main_evidence_conflict")
        ELSE IF doc # Nothing THEN Decided("external", doc.issuer, "none", doc.source, FALSE)
        ELSE IF issuer # Nothing
        THEN Decided("external", issuer.issuer, "none", issuer.source, FALSE)
        ELSE IF i.title.transfer THEN Review("external", "issuer_missing")
        ELSE Review("none", "origin_unresolved")

-----------------------------------------------------------------------------
\* Of an item: every number has an issuer, and every name a length.
CaseIsRead(i, fs) ==
    /\ IsFiniteSet(i.title.numbers)
    /\ \A n \in Numbers(i) : IssuerOf[n] # "none"
    /\ fs \in Seq({fs[n] : n \in DOMAIN fs})
    /\ \A n \in DOMAIN fs :
           fs[n].length \in Nat /\ \A k \in fs[n].text.numbers : IssuerOf[k] # "none"

CasesAreRead == \A case \in Cases : CaseIsRead(case.item, case.files)

Init ==
    /\ \E case \in Cases : item = case.item /\ files = case.files
    /\ pass = "names"
    /\ proposed = Review("none", "none")

JudgeNames ==
    /\ pass = "names"
    /\ proposed' = classify_dossier(item, Dossier(item, files, FALSE))
    /\ pass' = IF proposed'.status = "needs_review" THEN "texts" ELSE "done"
    /\ UNCHANGED <<item, files>>

JudgeTexts ==
    /\ pass = "texts"
    /\ proposed' = classify_dossier(item, Dossier(item, files, TRUE))
    /\ pass' = "done"
    /\ UNCHANGED <<item, files>>

Next == JudgeNames \/ JudgeTexts

Spec == Init /\ [][Next]_vars

-----------------------------------------------------------------------------
Classified == pass = "done" /\ proposed.status = "classified"

\* Several numbers in the title, several files that could be the main one, or
\* originals that are missing or unreadable: such an item is never attributed
\* to an outside issuer, unless the names alone had told it
\* ("main_evidence_conflict", per_item_classifier.py:91).
ConflictIsNotExternal ==
    Classified /\ proposed.origin = "external" =>
        /\ Cardinality(item.title.numbers) <= 1
        /\ ~Dossier(item, files, FALSE).conflict

\* The issuer of an external item stands in its number, its title, or the name,
\* header or signature of a file that none beats under the hint but for one
\* that is held again, under a name as long at least; what other files of the
\* item say is not evidence, even if it is all there is.
\* An external item has no business category.
IssuerIsItsOwn ==
    Classified /\ proposed.origin = "external" =>
        LET again(m) == \E k \in DOMAIN files \ {m} :
                            files[k].sha = files[m].sha /\ files[k].length >= files[m].length
            best == {n \in DOMAIN files : \A m \in DOMAIN files :
                        \/ Score(OriginHint(item), files[m]) <= Score(OriginHint(item), files[n])
                        \/ again(m)}
        IN  /\ proposed.issuer \notin {"none", Self} /\ proposed.category = "none"
            /\ \/ proposed.issuer \in {IssuerOf[n] : n \in Numbers(item)} \cup {item.title.issuer}
               \/ \E n \in best :
                      proposed.issuer \in {files[n].issuer, files[n].text.issuer,
                                           files[n].text.signature}
                                          \cup {IssuerOf[k] : k \in files[n].text.numbers}

\* An item kept inside although its one number or its title names
\* somebody else is marked with that conflict.
ContradictionIsShown ==
    Classified /\ proposed.origin = "internal" =>
        /\ proposed.issuer = "none" /\ proposed.category # "none"
        /\ \/ \E n \in item.number : item.number = {n} /\ IssuerOf[n] # Self
           \/ item.title.issuer \notin {"none", Self}
           => proposed.conflict

\* The same original held twice changes nothing: "a content hash ... never
\* carries a classification label" (evidence_dossier.py:3-5), and a copy is no
\* second candidate for the main file.
CopiesAddNothing ==
    pass = "names" =>
        \A n \in DOMAIN files, load_text \in BOOLEAN :
            classify_dossier(item, Dossier(item, files, load_text)) =
                classify_dossier(item, Dossier(item, Append(files, files[n]), load_text))

DossierRulesAreSound ==
    ConflictIsNotExternal /\ IssuerIsItsOwn /\ ContradictionIsShown /\ CopiesAddNothing

\* Why they are: what is proposed was judged by the names, or by the texts too.
DossierInv ==
    LET judged(load_text) == classify_dossier(item, Dossier(item, files, load_text))
    IN  /\ CaseIsRead(item, files)
        /\ pass \in {"names", "texts", "done"}
        /\ pass = "done" => proposed \in {judged(FALSE), judged(TRUE)}
=============================================================================
