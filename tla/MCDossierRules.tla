--------------------------- MODULE MCDossierRules ---------------------------
(***************************************************************************)
(* Items and originals for DossierRules: every mixture of what a title may *)
(* say with no original or one, and a few titles with every sequence of up *)
(* to two of six originals, one of them a copy of another in another role. *)
(***************************************************************************)
EXTENDS Naturals, Sequences

IssuerOf == [x1 |-> "X", y1 |-> "Y", s1 |-> "self"]

SomeTitles ==
    [numbers: {{}, {"x1"}, {"s1"}, {"x1", "y1"}}, issuer: {"none", "self", "X"},
     form: {"none", "plain", "quoted"}, own: {FALSE}, transfer: BOOLEAN, subject: {"none", "a"},
     special: {"none"}, templates: {{}, {"internal"}}]

SomeItems ==
    [title: SomeTitles, number: {{}, {"x1"}}, initiator: {"internal", "unknown"},
     no_attachment_confirmed: BOOLEAN]

\* Whose title says nothing of an issuer.
Quiet ==
    {i \in SomeItems : /\ i.title.numbers = {} /\ i.title.issuer = "none"
                       /\ i.title.templates = {} /\ ~i.no_attachment_confirmed}

NoText == [numbers |-> {}, issuer |-> "none", signature |-> "none", subject |-> "none"]

Original(role, sha, match, text) ==
    [role |-> role, sha |-> sha, length |-> 1, form |-> FALSE, match |-> match, formal |-> FALSE,
     issuer |-> "none", parsed |-> TRUE, text |-> text]

Body == Original("official_body", "1", FALSE, [NoText EXCEPT !.numbers = {"y1"}])
Form == Original("body_snapshot", "2", FALSE,
                 [NoText EXCEPT !.issuer = "self", !.subject = "c"])
Annex == Original("direct_attachment", "3", TRUE, [NoText EXCEPT !.signature = "Y"])
Named == [Original("direct_attachment", "4", TRUE, [NoText EXCEPT !.issuer = "X"])
              EXCEPT !.issuer = "X"]
Scan == [Annex EXCEPT !.sha = "5", !.parsed = FALSE]
Copy == [Annex EXCEPT !.role = "official_body", !.length = 2]

Originals == {Body, Form, Annex, Named, Scan, Copy}

UpToTwo == {<<>>} \cup {<<f>> : f \in Originals} \cup {<<f, g>> : f, g \in Originals}

SomeCases == [item: SomeItems, files: {<<>>, <<Annex>>}] \cup [item: Quiet, files: UpToTwo]
=============================================================================
