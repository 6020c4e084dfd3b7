------------------------ MODULE CandidateAttachments ------------------------
(***************************************************************************)
(* How the attachments of an item become notes of a candidate package: the *)
(* conversion of one attachment (backfill_mvp.py), in the process of the   *)
(* backfill or in a worker of its own, and the cache of parser products it *)
(* shares with every other conversion (classification/parse_cache.py).     *)
(*                                                                         *)
(* A product is known by the content it was asked for and the engine; its  *)
(* row remembers the hash.  The product is deterministic derived data: two *)
(* parses of the same bytes by the same engine are equal.  Originals are   *)
(* checked when a conversion begins and read again later, and the archive  *)
(* may write them at any time.                                             *)
(***************************************************************************)
EXTENDS Naturals, Sequences, FiniteSets

CONSTANTS
    Files,          \* the attachments of an item by their ids, 1..n
    Shortened,      \* those whose display name is truncated
    Contents,       \* what an original may hold
    None,           \* no content, no product, no row
    Direct,         \* contents that are text already
    Unsupported,    \* contents no parser takes
    WithFallback,   \* contents of a format two engines take
    PoorFirst,      \* contents whose product by the first engine is of low quality
    Converters,     \* conversions under way, each of a package of its own
    Workers,        \* those that read the row of an attachment again
    MaxTrouble      \* bound: originals written or damaged, failed parses, timeouts,
                    \* lost products, crashes

VARIABLES
    files,      \* file -> its row: [sha, verified, role, link]
    disk,       \* file -> what the original holds
    artifacts,  \* <<content, engine>> -> the product a row was made for
    products,   \* <<content, engine>> -> the product in the cache directory
    procs,      \* converter -> [pc, rows, todo, file, engine, body]
    packages,   \* converter -> [outcomes, notes, links]
    touched,    \* files that changed under a conversion or after they were linked, or
                \* back, after they were linked, to what a conversion takes them for
    trouble     \* how much of the bound was used: [changes, faults]

archive == <<files, disk, touched>>
cache == <<artifacts, products>>
vars == <<archive, cache, procs, packages, trouble>>

Engines == {"first", "fallback"}

Roles == {"official_body", "official_attachment"}

NoPackage == [outcomes |-> [f \in Files |-> "none"], notes |-> {}, links |-> {}]

Idle == [pc |-> "idle", rows |-> [f \in Files |-> None], todo |-> {}, file |-> 1,
         engine |-> "first", body |-> None]

\* Verified rows with their originals, some of equal content; nothing parsed.
Init ==
    /\ files \in [Files -> [sha : Contents, verified : BOOLEAN, role : Roles, link : {None}]]
    /\ disk = [f \in Files |-> files[f].sha]
    /\ artifacts = [k \in Contents \X Engines |-> None]
    /\ products = [k \in Contents \X Engines |-> None]
    /\ procs = [c \in Converters |-> Idle]
    /\ packages = [c \in Converters |-> NoPackage]
    /\ touched = {}
    /\ trouble = [changes |-> 0, faults |-> 0]

-----------------------------------------------------------------------------
\* canonicalize_attachment_aliases: files of equal content are one attachment,
\* represented by the one with a whole name, an attachment before a body.
Same(rows, f) == {g \in Files : rows[g].sha = rows[f].sha}
Groups(rows) == {Same(rows, f) : f \in Files}

Preference(rows, f) ==
    (IF f \in Shortened THEN 0 ELSE 2) + (IF rows[f].role = "official_attachment" THEN 1 ELSE 0)

Representative(rows, group) ==
    CHOOSE f \in group : \A g \in group :
        \/ Preference(rows, g) < Preference(rows, f)
        \/ Preference(rows, g) = Preference(rows, f) /\ f <= g

\* The groups are taken in the order of their first files.
First(groups) == CHOOSE group \in groups : \E f \in group : \A g \in UNION groups : f <= g

Row(c) == procs[c].rows[procs[c].file]

Step(c, changes) == procs' = [procs EXCEPT ![c] = changes]
Move(c, pc) == Step(c, [procs[c] EXCEPT !.pc = pc])
At(c, pc) == procs[c].pc = pc

Settled(c, outcome) ==
    [packages EXCEPT ![c].outcomes[procs[c].file] = outcome]

Give(c, outcome) == packages' = Settled(c, outcome) /\ Move(c, "next")

Product(content, engine) ==
    [of |-> content, good |-> ~(engine = "first" /\ content \in PoorFirst)]

\* The attachment is what its row says: verified, there, of the recorded hash.
Intact_SkipsHash(f, row) == row.verified /\ disk[f] # None

Intact(f, row) == row.verified /\ disk[f] = row.sha

-----------------------------------------------------------------------------
(***************************************************************************)
(* A package, attachment by attachment.                                    *)
(***************************************************************************)
Begin(c) ==
    /\ At(c, "idle")
    /\ packages[c] = NoPackage
    /\ Step(c, [Idle EXCEPT !.pc = "next", !.rows = files, !.todo = Groups(files)])
    /\ UNCHANGED <<archive, cache, packages, trouble>>

NextAttachment(c) ==
    /\ At(c, "next")
    /\ IF procs[c].todo = {} THEN Step(c, [Idle EXCEPT !.pc = "done"])
       ELSE LET group == First(procs[c].todo)
                f == Representative(procs[c].rows, group)
            IN  Step(c, [procs[c] EXCEPT !.pc = "check", !.todo = @ \ {group}, !.file = f,
                                         !.rows[f] = IF c \in Workers THEN files[f] ELSE @])
    /\ UNCHANGED <<archive, cache, packages, trouble>>

Check(c) ==
    /\ At(c, "check")
    /\ IF Intact(procs[c].file, Row(c)) THEN Move(c, "reuse") /\ UNCHANGED packages
       ELSE Give(c, "failed")
    /\ UNCHANGED <<archive, cache, trouble>>

\* A product in hand: written if it is good enough.
Use(c, body) == Step(c, [procs[c] EXCEPT !.pc = "write", !.body = body])

\* reusable_artifact: the newest product of the content the row is linked to,
\* by whatever engine.
Reusable(f) ==
    LET rows == {e \in Engines : files[f].link # None /\ artifacts[<<files[f].link, e>>] # None}
    IN  IF rows = {} THEN {None} ELSE {products[<<files[f].link, e>>] : e \in rows}

\* detect_format and parser_attempts, when nothing can be used again.
ByFormat(c) ==
    LET content == disk[procs[c].file]
    IN  IF content = None THEN Give(c, "failed")
        ELSE IF content \in Unsupported THEN Give(c, "skipped")
        ELSE /\ IF content \in Direct THEN Use(c, [of |-> content, good |-> TRUE])
                ELSE Step(c, [procs[c] EXCEPT !.pc = "ask", !.engine = "first"])
             /\ UNCHANGED packages

Reuse(c) ==
    /\ At(c, "reuse")
    /\ \E newest \in Reusable(procs[c].file) :
           IF newest # None /\ newest.good THEN Use(c, newest) /\ UNCHANGED packages
           ELSE ByFormat(c)
    /\ UNCHANGED <<archive, cache, trouble>>

\* After an attempt without a good product: the other engine, once.
NextEngine(c) ==
    IF procs[c].engine = "first" /\ Row(c).sha \in WithFallback
    THEN Step(c, [procs[c] EXCEPT !.pc = "ask", !.engine = "fallback", !.body = None])
         /\ UNCHANGED packages
    ELSE Give(c, "failed")

Offer(c, product) ==
    IF product # None /\ product.good THEN Use(c, product) /\ UNCHANGED packages
    ELSE NextEngine(c)

Write(c) ==
    LET f == procs[c].file
        name == IF Row(c).role = "official_body" THEN <<"body">> ELSE <<"attachment", f>>
    IN  /\ At(c, "write")
        /\ packages' = [packages EXCEPT ![c] =
               [outcomes |-> [@.outcomes EXCEPT ![f] = "converted"],
                notes |-> {n \in @.notes : n.name # name}
                          \cup {[name |-> name, file |-> f, sha |-> Row(c).sha,
                                 of |-> procs[c].body.of]},
                links |-> @.links \cup {<<f, name>>}]]
        /\ Step(c, [procs[c] EXCEPT !.pc = "next", !.body = None])
        /\ UNCHANGED <<archive, cache, trouble>>

-----------------------------------------------------------------------------
(***************************************************************************)
(* ParseCacheService.get_or_parse.                                         *)
(***************************************************************************)
Key(c) == <<Row(c).sha, procs[c].engine>>

\* _existing_artifact: a valid row whose product is there with its hash.
Existing(key) == artifacts[key] # None /\ products[key] = artifacts[key]

\* The first transaction: the row and the original are checked against the
\* request, the row is linked, and a job is opened if there is no product.
Ask(c) ==
    LET f == procs[c].file
    IN  /\ At(c, "ask")
        /\ IF files[f].sha # Row(c).sha \/ ~files[f].verified \/ ~Intact(f, Row(c))
           THEN NextEngine(c) /\ UNCHANGED files
           ELSE /\ files' = [files EXCEPT ![f].link = Row(c).sha]
                /\ IF Existing(Key(c)) THEN Offer(c, products[Key(c)])
                   ELSE Move(c, "parse") /\ UNCHANGED packages
        /\ UNCHANGED <<disk, touched, cache, trouble>>

\* The parser reads the original, and its product is put in the cache.
Parse(c) ==
    LET f == procs[c].file
    IN  /\ At(c, "parse")
        /\ IF disk[f] = None THEN NextEngine(c) /\ UNCHANGED products
           ELSE /\ products' = [products EXCEPT ![Key(c)] = Product(disk[f], procs[c].engine)]
                /\ Step(c, [procs[c] EXCEPT !.pc = "persist",
                                            !.body = Product(disk[f], procs[c].engine)])
                /\ UNCHANGED packages
        /\ UNCHANGED <<archive, artifacts, trouble>>

\* The row of another conversion that was quicker serves if it is still true.
Persist(c) ==
    /\ At(c, "persist")
    /\ IF Existing(Key(c)) THEN Offer(c, products[Key(c)])
       ELSE Move(c, "insert") /\ UNCHANGED packages
    /\ UNCHANGED <<archive, cache, trouble>>

\* The unique identity decides between two: the loser, like one who finds the
\* row of a lost product, refreshes the row.
RowAfterInsert(old, mine) == mine

Insert(c) ==
    /\ At(c, "insert")
    /\ artifacts' = [artifacts EXCEPT ![Key(c)] = RowAfterInsert(@, procs[c].body)]
    /\ Offer(c, products[Key(c)])
    /\ UNCHANGED <<archive, products, trouble>>

-----------------------------------------------------------------------------
Room == trouble.changes + trouble.faults < MaxTrouble

Fault == Room /\ trouble' = [trouble EXCEPT !.faults = @ + 1]

\* A parser fails, or the timer interrupts an attempt: its job stays open.
FailAttempt(c) ==
    /\ procs[c].pc \in {"parse", "persist", "insert"}
    /\ Fault
    /\ NextEngine(c)
    /\ UNCHANGED <<archive, cache>>

\* The process dies, or the timeout of a worker ends it.
Die(c) ==
    /\ procs[c].pc \notin {"idle", "done"}
    /\ Fault
    /\ IF c \in Workers /\ ~At(c, "next")
       THEN Give(c, "failed")
       ELSE Step(c, Idle) /\ packages' = [packages EXCEPT ![c] = NoPackage]
    /\ UNCHANGED <<archive, cache>>

LoseProduct(key) ==
    /\ products[key] # None
    /\ Fault
    /\ products' = [products EXCEPT ![key] = None]
    /\ UNCHANGED <<archive, artifacts, procs, packages>>

Change == Room /\ trouble' = [trouble EXCEPT !.changes = @ + 1]

Holding(p) == p.pc \notin {"idle", "next", "done"}

Held(f) == \E c \in Converters : procs[c].file = f /\ Holding(procs[c])

Awaited(f, content) ==
    \E c \in Converters : procs[c].pc \notin {"idle", "done"} /\ procs[c].rows[f].sha = content

\* _write_attachment: a new capture replaces the original and the hash of the
\* row; the link to the content stays.
Recapture(f, content) ==
    /\ Change
    /\ disk' = [disk EXCEPT ![f] = content]
    /\ files' = [files EXCEPT ![f].sha = content, ![f].verified = TRUE]
    /\ touched' = IF Held(f) \/ files[f].link \notin {None, content} THEN touched \cup {f}
                  ELSE touched
    /\ UNCHANGED <<cache, procs, packages>>

Damage(f, content) ==
    /\ Change
    /\ disk' = [disk EXCEPT ![f] = content]
    /\ touched' = IF Held(f) \/ (Awaited(f, content) /\ files[f].link \notin {None, content})
                  THEN touched \cup {f} ELSE touched
    /\ UNCHANGED <<files, cache, procs, packages>>

Next ==
    \/ \E c \in Converters :
           \/ Begin(c) \/ NextAttachment(c) \/ Check(c) \/ Reuse(c) \/ Write(c)
           \/ Ask(c) \/ Parse(c) \/ Persist(c) \/ Insert(c)
           \/ FailAttempt(c) \/ Die(c)
    \/ \E key \in Contents \X Engines : LoseProduct(key)
    \/ \E f \in Files :
           \/ \E content \in Contents : Recapture(f, content)
           \/ \E content \in Contents \cup {None} : Damage(f, content)

Spec == Init /\ [][Next]_vars

-----------------------------------------------------------------------------
(***************************************************************************)
(* What the theorems need to know: of the rows, of the cache, and of the   *)
(* row p of a conversion and its package k.                                *)
(***************************************************************************)
Rows == [sha : Contents, verified : BOOLEAN, role : Roles, link : Contents \cup {None}]
Products == [of : Contents \cup {None}, good : BOOLEAN]
Names == {<<"body">>} \cup ({"attachment"} \X Files)
Notes == [name : Names, file : Files, sha : Contents, of : Contents \cup {None}]
ConverterRows ==
    [pc : {"idle", "next", "check", "reuse", "ask", "parse", "persist", "insert", "write",
           "done"},
     rows : [Files -> Rows \cup {None}], todo : SUBSET (SUBSET Files), file : Nat,
     engine : Engines, body : Products \cup {None}]
PackageRows == [outcomes : [Files -> {"none", "converted", "failed", "skipped"}],
                notes : SUBSET Notes, links : SUBSET (Files \X Names)]

Typed ==
    /\ files \in [Files -> Rows] /\ disk \in [Files -> Contents \cup {None}]
    /\ artifacts \in [Contents \X Engines -> Products \cup {None}]
    /\ products \in [Contents \X Engines -> Products \cup {None}]
    /\ procs \in [Converters -> ConverterRows] /\ packages \in [Converters -> PackageRows]
    /\ touched \subseteq Files /\ trouble \in [changes : Nat, faults : Nat]

\* A file is linked to the content it has, and everything in the cache is what
\* the engine makes of the content.
CacheFits ==
    /\ \A f \in Files : files[f].link \in {None, files[f].sha}
    /\ \A content \in Contents : \A engine \in Engines :
           /\ products[<<content, engine>>] \in {None, Product(content, engine)}
           /\ artifacts[<<content, engine>>] \in {None, Product(content, engine)}

\* The rows of a conversion, and its text: of the file in hand, which is intact
\* after it was checked.
RowsFit(p) ==
    /\ p.pc \notin {"idle", "done"} => p.rows \in [Files -> Rows]
    /\ Holding(p) => p.file \in Files
    /\ p.pc = "write" => p.body \in Products

TextFits(p, rows, originals) ==
    /\ p.pc \notin {"idle", "done"} =>
           \A f \in Files : originals[f] = p.rows[f].sha => rows[f].link \in {None, originals[f]}
    /\ Holding(p) /\ p.pc # "check" => originals[p.file] = p.rows[p.file].sha
    /\ p.pc \in {"persist", "insert"} => p.body = Product(p.rows[p.file].sha, p.engine)
    /\ p.pc = "write" => p.body.of = p.rows[p.file].sha

\* Each group is taken once: the files with an outcome and the one in hand are
\* not among those to do, and one of every group that is not.
Taken(p, k) ==
    {f \in Files : k.outcomes[f] # "none"} \cup (IF Holding(p) THEN {p.file} ELSE {})

TakenOnce(p, k) ==
    /\ \A f \in Taken(p, k) : \A group \in p.todo : f \notin group
    /\ \A g, h \in p.todo : g # {} /\ (g # h => g \cap h = {})
    /\ Holding(p) => k.outcomes[p.file] = "none"
    /\ p.pc \in {"idle", "done"} => p.todo = {}

TakenAll(p, k, rows) ==
    p.pc # "idle" =>
        /\ p.todo \subseteq Groups(rows)
        /\ \A f \in Files : Same(rows, f) \notin p.todo =>
               \E g \in Files : Same(rows, f) \cap Taken(p, k) = {g}

\* A link leads to its note.
LinksLead(k) ==
    \A l \in k.links :
        /\ k.outcomes[l[1]] = "converted"
        /\ l[2] \in {<<"body">>, <<"attachment", l[1]>>}
        /\ \E n \in k.notes : n.name = l[2] /\ (l[2] # <<"body">> => n.file = l[1])

Fits(p, k, rows, originals, changed, changes) ==
    /\ RowsFit(p) /\ TakenOnce(p, k) /\ LinksLead(k)
    /\ changed = {} => TextFits(p, rows, originals) /\ \A n \in k.notes : n.of = n.sha
    /\ changes = 0 => TakenAll(p, k, rows)

AttachmentsInv ==
    /\ Typed
    /\ touched = {} => CacheFits
    /\ \A c \in Converters :
           Fits(procs[c], packages[c], files, disk, touched, trouble.changes)

-----------------------------------------------------------------------------
Undisturbed == touched = {}

\* A note holds the text of the content it names, and a product in the cache
\* is of the content it is known by, as long as no original changed under a
\* conversion or after it was linked.
NotesAreTrue ==
    Undisturbed =>
        /\ \A c \in Converters : \A n \in packages[c].notes : n.of = n.sha
        /\ \A key \in Contents \X Engines : products[key] # None => products[key].of = key[1]

\* A row of the cache never vouches for another product than the one there,
\* unless that one was lost: not even when two conversions raced.
CacheIsTrue ==
    Undisturbed =>
        \A key \in Contents \X Engines :
            artifacts[key] # None => products[key] \in {artifacts[key], None}

\* Every link leads to the note of that very attachment, unless the item has
\* two bodies, whose notes have the same name; and a package that is done has
\* one outcome for each distinct content the item has.
PackageAddsUp ==
    \A c \in Converters :
        /\ \A l \in packages[c].links :
               /\ packages[c].outcomes[l[1]] = "converted"
               /\ \E n \in packages[c].notes :
                      n.name = l[2] /\ (l[2] # <<"body">> => n.file = l[1])
        /\ At(c, "done") /\ trouble.changes = 0 =>
               \A f \in Files :
                   Cardinality({g \in Files : /\ files[g].sha = files[f].sha
                                              /\ packages[c].outcomes[g] # "none"}) = 1

AttachmentsAreTrue == NotesAreTrue /\ CacheIsTrue /\ PackageAddsUp
=============================================================================
