-------------------------- MODULE MCMetadataRules --------------------------
(***************************************************************************)
(* Items, texts and answers for MetadataRules: every mixture of up to two  *)
(* number rules, an issuer, a transfer, title templates and people; and,   *)
(* for the few items the metadata leaves open in different ways, up to two *)
(* texts of seven kinds.  P is a configured person, X and Y are issuers.   *)
(***************************************************************************)
EXTENDS Naturals, Sequences, FiniteSets

Rule(issuer, type) == [issuer |-> issuer, type |-> type]

SomeRules == {Rule("self", "none"), Rule("X", "none"), Rule("X", "notice"), Rule("P", "none")}

Template(origin, flow, issuer, category) ==
    [origin |-> origin, flow |-> flow, issuer |-> issuer, category |-> category]

Inside == Template("internal", "approval", "none", "a")
FromX == Template("external", "transfer", "X", "none")
FromY == Template("external", "formal_document", "Y", "none")
FromSomebody == Template("external", "transfer", "none", "none")

Person(id, role) == [id |-> id, role |-> role]

Blank == [subject |-> "none", numbers |-> {}, aliases |-> {}, candidate |-> FALSE]
OnSubject(s) == [Blank EXCEPT !.subject = s]
WithNumbers(numbers) == [Blank EXCEPT !.numbers = numbers]
WithAlias(issuer) == [Blank EXCEPT !.aliases = {issuer}]
LooksIssued == [Blank EXCEPT !.candidate = TRUE]

Mixtures ==
    [rules: {rules \in SUBSET SomeRules : Cardinality(rules) <= 2},
     issuer: {"none", "unrecognized", "X", "Y", "P"},
     transfer: BOOLEAN,
     templates: {{}, {Inside}, {FromX}, {FromSomebody}, {Inside, FromX}, {FromX, FromY}},
     initiator: {Person("i", "internal"), Person("u", "unknown"), Person("X", "unknown")},
     hops: {<<>>, <<Person("u", "unknown")>>, <<Person("e", "external")>>},
     attached: {0, 1},
     title: {OnSubject("a")}]

Open ==
    [rules: {{}, {Rule("self", "none")}, {Rule("X", "none"), Rule("P", "none")}},
     issuer: {"none"}, transfer: BOOLEAN, templates: {{}}, initiator: {Person("u", "unknown")},
     hops: {<<>>}, attached: {2},
     title: {Blank, OnSubject("a"), WithAlias("Y"), LooksIssued}]

SomeItems == Mixtures \cup Open

SomeTexts ==
    {Blank, OnSubject("b"), WithNumbers({"X"}), WithNumbers({"X", "Y"}), WithNumbers({"self"}),
     WithAlias("X"), LooksIssued}

SomeReplies ==
    [form: {"error", "empty", "prose", "object"}, complete: BOOLEAN, sure: BOOLEAN,
     category: {"a", "other"}, outside: BOOLEAN]
=============================================================================
