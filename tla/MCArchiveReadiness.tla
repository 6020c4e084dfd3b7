------------------------- MODULE MCArchiveReadiness -------------------------
(***************************************************************************)
(* Packages for ArchiveReadiness: every comparison of up to two            *)
(* attachments over two kinds of archives; every archive, two files of     *)
(* which one is odd included, under few audits; and two attachments of a   *)
(* decision, placed in one or two containers in every way.                 *)
(***************************************************************************)
EXTENDS Naturals, FiniteSets, Sequences

CONSTANTS b1, b2, NoBytes

TwoFiles == {<<"body", "k1">>, <<"attachment", "k2">>}
TwoRows == [id : TwoFiles, bytes : {b1, b2, NoBytes}]
SomeRows == {s \in SUBSET TwoRows : \A x, y \in s : x.id = y.id => x = y}
NamesOnly == {s \in SomeRows : \A x \in s : x.bytes = NoBytes}

\* A file with and without a second record of its size and bytes, and files
\* of which one thing is wrong.
GoodFile == [status |-> "verified", placed |-> TRUE, malformed |-> FALSE, sha256 |-> <<"h">>,
             stored |-> <<"h">>, size |-> <<"s">>, expected |-> <<"s">>, storedSize |-> <<"s">>]
Unmatched == [GoodFile EXCEPT !.expected = <<>>, !.stored = <<>>, !.storedSize = <<>>]
OddFiles ==
    {[Unmatched EXCEPT !.status = "rejected_zero_byte"], [Unmatched EXCEPT !.status = "discovered"],
     [Unmatched EXCEPT !.placed = FALSE], [Unmatched EXCEPT !.sha256 = <<>>],
     [GoodFile EXCEPT !.size = <<"t">>], [GoodFile EXCEPT !.storedSize = <<"t">>],
     [GoodFile EXCEPT !.stored = <<"other">>], [GoodFile EXCEPT !.malformed = TRUE]}
SomeFiles == {{}, {GoodFile}, {Unmatched}} \cup {{GoodFile, f} : f \in OddFiles}

SomeManifests ==
    [status : {"downloaded", "no_attachment", "pending_download", "download_failed",
               "depth_limit_reached", "skipped"}, confirmed : BOOLEAN]
    \cup {[status |-> "none", confirmed |-> FALSE]}

Downloaded == [manifest |-> [status |-> "downloaded", confirmed |-> FALSE], present |-> TRUE,
               files |-> {GoodFile}]
Empty == [manifest |-> [status |-> "no_attachment", confirmed |-> TRUE], present |-> TRUE,
          files |-> {}]
SomePackages == [manifest : SomeManifests, present : BOOLEAN, files : SomeFiles]

Failed == [kind |-> "failed"]
Matched == [kind |-> "compared", online |-> {[id |-> <<"body", "k1">>, bytes |-> b1]},
            local |-> {[id |-> <<"body", "k1">>, bytes |-> b1]}, archived |-> TRUE,
            depth |-> FALSE]

SomeLedgers ==
    {Failed}
    \cup [kind : {"compared"}, online : SomeRows, local : SomeRows, archived : {TRUE},
          depth : BOOLEAN]
    \cup [kind : {"compared"}, online : SomeRows, local : {{}}, archived : {FALSE}, depth : BOOLEAN]
    \cup [kind : {"repaired"}, online : SomeRows, local : SomeRows, depth : BOOLEAN]
    \cup [kind : {"counted"}, online : NamesOnly, local : SomeRows]
    \cup UNION {[kind : {"listed"}, online : NamesOnly, local : {l}, held : SUBSET l,
                 excluded : BOOLEAN, depth : BOOLEAN] :
                    l \in {r \in SomeRows : \A x \in r : x.bytes = b1}}

OneAudit(ledger) == {[id |-> 1, finished |-> 1, ledger |-> ledger]}
TwoAudits(first, second) ==
    {{[id |-> 1, finished |-> m, ledger |-> first], [id |-> 2, finished |-> n, ledger |-> second]} :
        m \in {1, 2}, n \in {0, 1, 2}}
FewAudits == {{}, OneAudit(Matched)} \cup UNION {TwoAudits(k, l) : k, l \in {Failed, Matched}}

OneInput == [key |-> "k1", role |-> "body", path |-> <<"c1">>, container |-> "c1",
             parent |-> "none", parentKey |-> "none", depth |-> 1]
Placed(keys, roles, parents) ==
    [key : keys, role : roles, path : {<<"c1">>, <<"c2">>, <<"c1", "c2">>, <<"c2", "c1">>},
     container : {"c1", "c2"}, parent : {"none", "c1"}, parentKey : parents, depth : {1, 2}]
SomeInputs ==
    {<<>>, <<OneInput>>}
    \cup {<<x, y>> : x \in Placed({"k1"}, {"body"}, {"none", "k2"}),
                     y \in Placed({"k1", "k2"}, {"body", "attachment"}, {"none", "k1", "k2"})}

\* A quick audit, which an assessment does not read before it is finished.
Quick == [kind |-> "listed", online |-> {[id |-> <<"body", "k1">>, bytes |-> NoBytes]},
          local |-> Matched.local, held |-> Matched.local, excluded |-> FALSE, depth |-> FALSE]
Waiting == {[id |-> 1, finished |-> 0, ledger |-> Quick]}

SomeCases ==
    SomePackages \X FewAudits \X {<<OneInput>>}
    \cup {Downloaded, Empty} \X {OneAudit(l) : l \in SomeLedgers} \X {<<OneInput>>}
    \cup {Downloaded, Empty} \X (TwoAudits(Matched, Quick) \cup {Waiting}) \X {<<OneInput>>}
    \cup {Downloaded} \X {{}} \X SomeInputs
=============================================================================
