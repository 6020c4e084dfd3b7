---------------------------- MODULE DetailCapture ----------------------------
(***************************************************************************)
(* The capture of one OA item (collector/detail.py): its page, the pages   *)
(* of the documents it refers to, down to a depth, the attachments of      *)
(* each, and the verdict that there is none anywhere.                      *)
(*                                                                         *)
(* What OA shows is discovered when it is read: `content` of a page is the *)
(* control its attachment hangs on, `known` its associated documents.      *)
(* `overlooked` remembers that an error was swallowed on the way.          *)
(***************************************************************************)
EXTENDS Naturals, Sequences, FiniteSets, SequencesExt

CONSTANTS
    Docs, Root,     \* pages, and the one of the item
    Depths,         \* possible values of max_depth; the root has depth 1
    MaxFiles,       \* pages that hold an attachment
    MaxFaults       \* errors of the browser or of OA

VARIABLES
    family,         \* what the path of the page says
    inventoryOnly,  \* the online audit lists files and downloads none
    maxDepth,
    content, known, read,   \* what OA shows, and the pages whose links were read
    stack,          \* the crawl: [doc, depth, todo], innermost last
    visited,
    pc,             \* open, crawl, links, widgets, batches, panel, file, done
    at,             \* the page in work: [doc, depth]
    got,            \* statuses of its files so far
    empty,          \* _last_attachment_inventory_confirmed_empty
    late,           \* the deadline has passed
    issues, captured, root, result, overlooked, spent

shown == <<content, known, read>>
crawl == <<stack, visited>>
page == <<at, got, empty>>
outcome == <<captured, root, result>>
call == <<family, inventoryOnly, maxDepth>>
vars == <<call, shown, crawl, pc, page, late, issues, outcome, overlooked, spent>>

Kinds == {"link", "widget", "batch", "panel"}
Fault == spent < MaxFaults /\ spent' = spent + 1
Swallowed == Fault /\ overlooked' = TRUE

\* A download that fails - no event, no complete file in time, a page of OA
\* instead of the bytes - leaves an issue.
Reported(i) == Fault /\ overlooked' = overlooked /\ issues' = issues \union {i}
Smooth == UNCHANGED <<spent, overlooked>>
AtRoot == at.depth = 1

Init ==
    /\ family \in {"collaboration", "meeting", "finance", "login", "unsupported"}
    /\ inventoryOnly \in BOOLEAN /\ maxDepth \in Depths
    /\ content = [d \in Docs |-> "unread"] /\ known = [d \in Docs |-> {}] /\ read = {}
    /\ stack = <<>> /\ visited = {} /\ pc = "open" /\ at = [doc |-> Root, depth |-> 1]
    /\ got = {} /\ empty = FALSE /\ late = FALSE /\ issues = {} /\ captured = {}
    /\ root = [files |-> {}, empty |-> FALSE] /\ result = "none"
    /\ overlooked = FALSE /\ spent = 0

-----------------------------------------------------------------------------
(* The pages.                                                              *)

\* What a page may refer to: any other document (a reference of a page to
\* itself or to the item is left out).
Refers(d) == Docs \ {Root, d}

\* The associated documents of a page.  An entry that cannot be read is
\* passed over without a word.
Associated(d, links) ==
    \E K \in IF d \in read THEN {known[d]} ELSE SUBSET Refers(d) :
        /\ known' = [known EXCEPT ![d] = K] /\ read' = read \union {d} /\ content' = content
        /\ \/ links = K /\ Smooth
           \/ \E l \in K : links = K \ {l} /\ Swallowed

Visit(d, depth) ==
    pc' = "links" /\ at' = [doc |-> d, depth |-> depth] /\ got' = {} /\ empty' = FALSE

\* The page of the item is open: the login page is an error; the documents
\* of a collaboration or govdoc page are followed before its own attachments.
Open ==
    /\ pc = "open"
    /\ IF family = "login"
       THEN pc' = "done" /\ result' = "auth" /\ UNCHANGED <<shown, stack, page>> /\ Smooth
       ELSE IF family = "collaboration"
       THEN /\ pc' = "crawl" /\ UNCHANGED <<page, result>>
            /\ \E links \in SUBSET Refers(Root) :
                  /\ Associated(Root, links)
                  /\ stack' = <<[doc |-> Root, depth |-> 1, todo |-> links]>>
       ELSE Visit(Root, 1) /\ UNCHANGED <<shown, stack, result>> /\ Smooth
    /\ UNCHANGED <<call, visited, late, issues, captured, root>>

\* Asking after the deadline leaves an issue.
TimedOut(stage) == late /\ issues' = issues \union {<<"capture_timeout", stage>>}
InTime == ~late /\ issues' = issues

Top == stack[Len(stack)]
Leaves(s) == stack' = [stack EXCEPT ![Len(stack)].todo = s]

\* A document is visited once in the whole tree.
NewOnly(d) == d \notin visited

\* The next associated document in the order of the page: seen already, not to be opened, or opened.
NextChild ==
    /\ pc = "crawl" /\ Top.todo # {}
    /\ \/ /\ TimedOut("associated_containers") /\ Leaves({})
          /\ UNCHANGED <<visited, pc, page>> /\ Smooth
       \/ LET d == CHOOSE d \in Top.todo : TRUE IN
             /\ ~late /\ Leaves(Top.todo \ {d}) /\ visited' = visited \union {d}
             /\ IF NewOnly(d)
                THEN \/ Reported(<<"unavailable", d>>) /\ UNCHANGED <<pc, page>>
                     \/ Visit(d, Top.depth + 1) /\ issues' = issues /\ Smooth
                ELSE UNCHANGED <<pc, page, issues>> /\ Smooth
    /\ UNCHANGED <<call, shown, late, outcome>>

\* No document is left here: back to the parent, or on to the attachments of
\* the item itself.
Back ==
    /\ pc = "crawl" /\ Top.todo = {}
    /\ IF Len(stack) > 1 THEN UNCHANGED <<pc, page>> ELSE Visit(Root, 1)
    /\ stack' = Front(stack)
    /\ UNCHANGED <<call, shown, visited, late, issues, outcome>> /\ Smooth

-----------------------------------------------------------------------------
(* The attachments of one page: its links, its widgets, the batches when   *)
(* no widget could be downloaded, its panel.                               *)

Looks(kind) ==
    \E k \in IF content[at.doc] # "unread" THEN {content[at.doc]}
             ELSE {"none"} \union
                  IF Cardinality({d \in Docs : content[d] \in Kinds}) < MaxFiles THEN Kinds ELSE {} :
        /\ content' = [content EXCEPT ![at.doc] = k] /\ UNCHANGED <<known, read>>
        /\ kind = k
Keeps(status) == got' = got \union {status}

\* A link: listed, known from an earlier attempt, downloaded, or failed with
\* an issue; the error of a whole frame is swallowed.
Links ==
    /\ pc = "links"
    /\ \E kind \in Kinds \union {"none"} :
          /\ Looks(kind)
          /\ \/ TimedOut("attachments") /\ Smooth /\ got' = got /\ pc' = "file"
             \/ InTime /\ kind # "link" /\ Smooth /\ got' = got /\ pc' = "widgets"
             \/ InTime /\ kind = "link" /\ Swallowed /\ got' = got /\ pc' = "widgets"
             \/ /\ InTime /\ kind = "link" /\ Smooth /\ pc' = "widgets"
                /\ Keeps(IF inventoryOnly THEN "discovered" ELSE "downloaded")
             \/ /\ InTime /\ kind = "link" /\ ~inventoryOnly /\ Fault /\ overlooked' = overlooked
                /\ Keeps("known_download_failed") /\ pc' = "widgets"
             \/ /\ ~late /\ kind = "link" /\ ~inventoryOnly
                /\ Reported(<<"attachment_download_failed", at.doc>>)
                /\ Keeps("download_failed") /\ pc' = "widgets"
    /\ UNCHANGED <<call, crawl, at, empty, late, outcome>>

\* A widget that cannot be operated leaves neither a file nor an issue; one
\* whose download fails leaves a failed file only.
Widgets ==
    /\ pc = "widgets"
    /\ \/ TimedOut("attachments") /\ Smooth /\ got' = got /\ pc' = "file"
       \/ /\ InTime /\ pc' = "batches"
          /\ IF content[at.doc] = "widget"
             THEN \/ Swallowed /\ got' = got
                  \/ Smooth /\ Keeps(IF inventoryOnly THEN "discovered" ELSE "widget_downloaded")
                  \/ ~inventoryOnly /\ Fault /\ overlooked' = overlooked /\ Keeps("download_failed")
             ELSE Smooth /\ got' = got
    /\ UNCHANGED <<call, shown, crawl, at, empty, late, outcome>>

\* The ZIP of a form.  An inventory does not look at it; a failed one leaves
\* the names the form shows, if it shows any.
Batches ==
    /\ pc = "batches" /\ pc' = "panel"
    /\ \/ TimedOut("attachments") /\ Smooth /\ got' = got
       \/ /\ InTime
          /\ IF content[at.doc] \in {"batch", "widget"} /\ "widget_downloaded" \notin got
             THEN \/ inventoryOnly /\ got' = got /\ spent' = spent
                     /\ overlooked' = (overlooked \/ content[at.doc] = "batch")
                  \/ ~inventoryOnly /\ Smooth /\ Keeps("downloaded")
                  \/ ~inventoryOnly /\ Fault /\ overlooked' = overlooked /\ Keeps("download_failed")
                  \/ ~inventoryOnly /\ Swallowed /\ got' = got
             ELSE Smooth /\ got' = got
    /\ UNCHANGED <<call, shown, crawl, at, empty, late, outcome>>

\* A meeting page says that it has none by hiding its rows.
MeetingShowsNone ==
    content[at.doc] = "none" /\ family = "meeting" /\ AtRoot /\ got = {}

\* The panel behind the paperclip: absent, listing files, or saying there is
\* none - which it says of what it lists, not of the widgets of a form.
Panel ==
    /\ pc = "panel" /\ pc' = "file"
    /\ \/ TimedOut("attachments") /\ Smooth /\ UNCHANGED <<got, empty>>
       \/ /\ InTime /\ UNCHANGED <<got, empty>>
          /\ IF content[at.doc] = "panel" THEN Swallowed ELSE Smooth
       \/ /\ InTime /\ content[at.doc] # "panel" /\ content[at.doc] # "link" /\ Smooth
          /\ got' = got /\ empty' = TRUE
       \/ InTime /\ MeetingShowsNone /\ Smooth /\ got' = got /\ empty' = TRUE
       \/ /\ InTime /\ content[at.doc] = "panel" /\ Smooth /\ empty' = empty
          /\ Keeps(IF inventoryOnly THEN "discovered" ELSE "downloaded")
       \/ /\ ~late /\ content[at.doc] = "panel" /\ ~inventoryOnly /\ empty' = empty
          /\ Reported(<<"attachment_download_failed", at.doc>>) /\ Keeps("download_failed")
    /\ UNCHANGED <<call, shown, crawl, at, late, outcome>>

Confirmable_EmptyOnly(r, found, noted) ==
    /\ r.empty /\ noted = {}
    /\ \A c \in found : c.files = {} /\ c.empty

\* Complete empty evidence across the whole reachable tree.
Confirmable(r, found, noted) ==
    /\ r.empty /\ noted = {}
    /\ \A c \in found : c.files = {} /\ c.empty /\ ~c.unvisited

HasFiles == root.files # {} \/ \E c \in captured : c.files # {}
Confirmed == Confirmable(root, captured, issues)

\* A page of the tree is done: it is kept with what was found there, and its
\* own documents are next unless it lies at the maximal depth.
KeepChild ==
    /\ pc = "file" /\ ~AtRoot /\ pc' = "crawl"
    /\ \E links \in SUBSET Refers(at.doc) :
          /\ Associated(at.doc, links)
          /\ captured' = captured \union
                {[doc |-> at.doc, files |-> got, empty |-> empty,
                  unvisited |-> at.depth = maxDepth /\ links # {}]}
          /\ stack' = IF at.depth < maxDepth
                      THEN Append(stack, [doc |-> at.doc, depth |-> at.depth, todo |-> links])
                      ELSE stack
    /\ UNCHANGED <<call, visited, page, late, issues, root, result>>

\* The attachments of the item itself were the last to be read.  A page of
\* OA with nothing on it and no proof of that is an error.
Conclude ==
    /\ pc = "file" /\ AtRoot /\ pc' = "done"
    /\ root' = [files |-> got, empty |-> empty]
    /\ result' =
         IF family = "unsupported" THEN "unsupported"
         ELSE IF /\ family # "finance" /\ got = {} /\ \A c \in captured : c.files = {}
                 /\ ~Confirmable([files |-> got, empty |-> empty], captured, issues)
         THEN "unavailable"
         ELSE "captured"
    /\ UNCHANGED <<call, shown, crawl, page, late, issues, captured>> /\ Smooth

\* The deadline passes, or the browser fails outside every handler.
Expire ==
    /\ pc # "done" /\ ~late /\ late' = TRUE /\ Fault
    /\ UNCHANGED <<call, shown, crawl, pc, page, issues, outcome, overlooked>>
Raise ==
    /\ pc # "done" /\ pc' = "done" /\ result' = "raised" /\ Fault
    /\ UNCHANGED <<call, shown, crawl, page, late, issues, captured, root, overlooked>>

Next ==
    \/ Open \/ NextChild \/ Back \/ Links \/ Widgets \/ Batches \/ Panel
    \/ KeepChild \/ Conclude \/ Expire \/ Raise
    \/ pc = "done" /\ UNCHANGED vars

Spec == Init /\ [][Next]_vars

-----------------------------------------------------------------------------
(* Two views of one file.                                                  *)

Canonical(v) == v.control = "link"
Shortened(n) == n = "re...port"
SameName(m, n) == m = n \/ {m, n} = {"re...port", "report"}
Ranked == <<"direct_attachment", "official_attachment", "official_body">>
Higher(r, s) == IF \E i, j \in 1..3 : i > j /\ Ranked[i] = r /\ Ranked[j] = s THEN r ELSE s

\* One alias joins the only file of its bytes that bears its name, the exact
\* name first; otherwise it stays a file of its own.
JoinAlias(files, v) ==
    LET alike == {i \in DOMAIN files : SameName(files[i].name, v.name)}
        exact == {i \in alike : files[i].name = v.name}
        fit == IF exact # {} THEN exact ELSE alike
    IN IF Cardinality(fit) # 1 THEN Append(files, v)
       ELSE LET i == CHOOSE i \in fit : TRUE
            IN [files EXCEPT ![i].role = Higher(@, v.role),
                             ![i].name = IF Shortened(@) THEN v.name ELSE @]

\* The views with the same bytes: the controls of a form are aliases of the
\* links, or of one another when they are of two kinds.
Merged(group) ==
    LET links == SelectSeq(group, Canonical)
        aliases == SelectSeq(group, LAMBDA v : ~Canonical(v))
    IN IF aliases = <<>> \/ Len(group) = 1 THEN group
       ELSE IF links # <<>> THEN FoldLeft(JoinAlias, links, aliases)
       ELSE IF Cardinality({v.control : v \in ToSet(aliases)}) = 1 THEN group
       ELSE FoldLeft(JoinAlias, <<Head(aliases)>>, Tail(aliases))

Deduplicated(views) ==
    LET unread == SelectSeq(views, LAMBDA v : v.bytes = "none")
        bytes == SetToSeq({v.bytes : v \in ToSet(views)} \ {"none"})
    IN FoldLeft(LAMBDA r, b : r \o Merged(SelectSeq(views, LAMBDA v : v.bytes = b)), unread, bytes)

-----------------------------------------------------------------------------
(* Properties.                                                             *)

\* Every page that a chain of references leads to: the pages of the smallest
\* set that holds the item and what its pages name.
Closed(S) == Root \in S /\ \A d \in S : known[d] \subseteq S
Tree == IF family = "collaboration"
        THEN {d \in Docs : \A S \in SUBSET Docs : Closed(S) => d \in S}
        ELSE {Root}

\* "No attachment" is recorded only when it is true: whatever cycles the
\* references form, wherever the deadline fell and whichever page stayed
\* closed, every page of the tree was read and holds nothing - unless an
\* error was swallowed on the way.
NoAttachmentMeansNone ==
    result = "captured" /\ Confirmed /\ ~HasFiles /\ ~overlooked =>
        \A d \in Tree : content[d] = "none" /\ (family = "collaboration" => d \in read)

\* A capture that reports no problem has every attachment of the tree.
NothingIsLost ==
    result = "captured" /\ issues = {} /\ ~overlooked /\ (\A p \in captured : ~p.unvisited) =>
        \A d \in Tree : content[d] \in Kinds =>
            \/ d = Root /\ root.files # {}
            \/ \E c \in captured : c.doc = d /\ c.files # {}

\* Removing the second view of a file removes no file: two links stay two,
\* the bytes stay, and a name that can be read in full is not lost.
ViewsAreKept(S) ==
    \A views \in S :
        LET out == Deduplicated(views)
        IN /\ Len(SelectSeq(out, Canonical)) = Len(SelectSeq(views, Canonical))
           /\ {v.bytes : v \in ToSet(out)} = {v.bytes : v \in ToSet(views)}
           /\ \A v \in ToSet(views) : \E w \in ToSet(out) : w.bytes = v.bytes /\ SameName(v.name, w.name)
=============================================================================
