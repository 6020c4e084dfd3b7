---------------------------- MODULE ManifestScan ----------------------------
(***************************************************************************)
(* Reading the list of done items while it changes: the inventory job      *)
(* (run_inventory of done_collection.py, with a checkpoint after every     *)
(* page), "manifest run" and "manifest refresh-head" (cli.py), over the    *)
(* pages of collector/done.py.  New items come at the head of the list;    *)
(* an item may leave it anywhere.  A page is what the frame shows, and     *)
(* navigating to the page that is shown does not load it again.            *)
(***************************************************************************)
EXTENDS Naturals, Sequences, FiniteSets, SequencesExt

CONSTANTS
    Length,         \* items the list starts with
    MaxItems,       \* bound on the items there ever are: 1..MaxItems
    PageSize,
    SessionPages,   \* pages one browser session of the inventory reads (10 in the code)
    HeadPages,      \* max_pages of refresh-head
    MaxChanges      \* bound on the changes of the list

VARIABLES
    list,      \* what OA would show
    newest,    \* the last item that came
    manifest,  \* keys of oa_manifest_items
    sync,      \* status of the newest oa_manifest_syncs row
    job,       \* status of the inventory job
    saved,     \* its checkpoint: next_page, keys, page_signatures, totals
    pc,        \* idle, previous, scan, final; or run and head
    mem,       \* the checkpoint in memory, or what run and head have read
    view,      \* the page shown, and the list it was loaded from
    room,      \* pages left in this session
    drift      \* changes of the list so far

vars == <<list, newest, manifest, sync, job, saved, pc, mem, view, room, drift>>

Pages(l) == (Len(l) + PageSize - 1) \div PageSize
PageOf(l, n) ==
    SubSeq(l, (n - 1) * PageSize + 1, IF n * PageSize < Len(l) THEN n * PageSize ELSE Len(l))

\* _discover_frame, _list_stats
Rows == PageOf(view.list, view.page)
Totals(l) == <<Len(l), Pages(l)>>

NoTotals == <<0, 0>>
Restarted(c) == [c EXCEPT !.next = 1, !.keys = {}, !.signatures = <<>>, !.again = FALSE]
Empty == [next |-> 1, keys |-> {}, signatures |-> <<>>, totals |-> NoTotals, from |-> <<>>, at |-> 0, again |-> FALSE]
NoView == [page |-> 0, list |-> <<>>]

Init ==
    /\ list = [n \in 1..Length |-> Length + 1 - n] /\ newest = Length
    /\ manifest = {} /\ sync = "none"
    /\ job = "queued" /\ saved = Empty
    /\ pc = "idle" /\ mem = Empty /\ view = NoView /\ room = 0 /\ drift = 0

-----------------------------------------------------------------------------
(* OA.                                                                     *)

Change(l) ==
    /\ drift < MaxChanges /\ drift' = drift + 1
    /\ list' = l
    /\ UNCHANGED <<manifest, sync, job, saved, pc, mem, view, room>>

Arrive ==
    /\ newest < MaxItems /\ newest' = newest + 1
    /\ Change(<<newest + 1>> \o list)

Leave == UNCHANGED newest /\ \E n \in 1..Len(list) : Change(RemoveAt(list, n))

Drift == Arrive \/ Leave

-----------------------------------------------------------------------------
(* The inventory job.                                                      *)

\* navigate_to_page and what the frame shows after it.
Shown(n) == IF view.page = n THEN view ELSE [page |-> n, list |-> list]

\* A fresh page, or the one a kept browser shows (desktop_collection.py).
Open ==
    /\ pc = "idle" /\ job \in {"queued", "running"} /\ job' = "running"
    /\ \/ view' = [page |-> 1, list |-> list]
       \/ view.page > 0 /\ view' = Shown(1)
    /\ LET first == PageOf(view'.list, 1)
           changed == \/ saved.totals \notin {NoTotals, Totals(view'.list)}
                      \/ saved.signatures # <<>> /\ saved.signatures[1] # first
           start == IF changed THEN Restarted(saved) ELSE saved
       IN
       /\ mem' = [start EXCEPT !.totals = Totals(view'.list)]
       /\ pc' = IF start.next > 2 THEN "previous" ELSE "scan"
    /\ room' = SessionPages
    /\ UNCHANGED <<list, newest, manifest, sync, saved, drift>>

\* The page before the checkpoint must be the one that was read.
CheckPrevious ==
    /\ pc = "previous" /\ pc' = "scan"
    /\ view' = Shown(mem.next - 1)
    /\ mem' = IF mem.signatures[mem.next - 1] = PageOf(view'.list, mem.next - 1)
              THEN mem ELSE [Restarted(mem) EXCEPT !.again = TRUE]
    /\ UNCHANGED <<list, newest, manifest, sync, job, saved, room, drift>>

LastPage == mem.totals[2]

Read(n, rows) ==
    [mem EXCEPT !.next = n + 1, !.keys = @ \cup Range(rows), !.signatures = Append(@, rows)]

ReadPage ==
    /\ pc = "scan" /\ mem.next <= LastPage /\ room > 0
    /\ view' = Shown(mem.next)
    /\ LET rows == PageOf(view'.list, mem.next) IN
       /\ rows # <<>>
       /\ mem' = Read(mem.next, rows)
       /\ manifest' = manifest \cup Range(rows)
    /\ saved' = mem'
    /\ room' = room - 1
    /\ UNCHANGED <<list, newest, sync, job, pc, drift>>

\* The session is over; the next one starts at the checkpoint.
EndSession ==
    /\ pc = "scan" /\ mem.next <= LastPage /\ room = 0
    /\ pc' = "idle" /\ job' \in {"queued", "paused"}
    /\ UNCHANGED <<list, newest, manifest, sync, saved, mem, view, room, drift>>

Aligned_CountOnly(l) == Len(l) = mem.totals[1] /\ Totals(l) = mem.totals

\* Totals and head are compared once more.
Aligned(l) ==
    /\ Cardinality(mem.keys) = mem.totals[1]
    /\ Totals(l) = mem.totals
    /\ PageOf(l, 1) = mem.signatures[1]

Conclude ==
    /\ pc = "scan" /\ mem.next > LastPage /\ mem.signatures # <<>>
    /\ view' = Shown(1)
    /\ sync' = IF Aligned(view'.list) THEN "complete" ELSE "incomplete"
    /\ job' = IF Aligned(view'.list) THEN "completed" ELSE "failed"
    /\ pc' = "idle"
    /\ UNCHANGED <<list, newest, manifest, saved, mem, room, drift>>

\* A page does not load or is empty; or the process dies, and the job is queued again.
Interrupted ==
    /\ pc \in {"previous", "scan"} /\ pc' = "idle"
    /\ \/ job' = "failed" /\ UNCHANGED view
       \/ job' = "queued" /\ view' = NoView
    /\ UNCHANGED <<list, newest, manifest, sync, saved, mem, room, drift>>

\* control_collection: a failed inventory starts again at the first page.
Resume ==
    /\ pc = "idle" /\ job \in {"failed", "paused"} /\ job' = "queued"
    /\ saved' = IF job = "failed" THEN Restarted(saved) ELSE saved
    /\ UNCHANGED <<list, newest, manifest, sync, pc, mem, view, room, drift>>

-----------------------------------------------------------------------------
(* manifest run and manifest refresh-head: one pass, page after page.      *)

StartPass(kind) ==
    /\ pc = "idle" /\ kind \in {"run", "head"} /\ pc' = kind
    /\ view' = [page |-> 1, list |-> list]
    /\ mem' = [Empty EXCEPT !.totals = Totals(list), !.from = list, !.at = drift]
    /\ room' = IF kind = "head" /\ HeadPages < Pages(list) THEN HeadPages ELSE Pages(list)
    /\ UNCHANGED <<list, newest, manifest, sync, job, saved, drift>>

\* The rows shown are stored; a run downloads what they lack before it turns
\* the page, and a head stores them at the end.
PassPage ==
    /\ pc \in {"run", "head"} /\ room > 0
    /\ mem' = Read(view.page, Rows)
    /\ manifest' = IF pc = "run" THEN manifest \cup Range(Rows) ELSE manifest
    /\ \/ /\ room > 1 /\ view.page < Pages(list)
          /\ view' = Shown(view.page + 1) /\ room' = room - 1
       \/ /\ room = 1 \/ view.page >= Pages(list)
          /\ room' = 0 /\ UNCHANGED view
    /\ UNCHANGED <<list, newest, sync, job, saved, pc, drift>>

Count(s) == Cardinality(s)

\* finalize_manifest_sync: counts of the manifest, of the items, rows and pages read.
RunComplete ==
    /\ Count(manifest) = mem.totals[1] /\ Count(mem.keys) = mem.totals[1]
    /\ Len(mem.signatures) = mem.totals[2]

EndRun ==
    /\ pc = "run" /\ room = 0 /\ pc' = "idle"
    /\ sync' = IF RunComplete THEN "complete" ELSE "incomplete"
    /\ UNCHANGED <<list, newest, manifest, job, saved, mem, view, room, drift>>

\* The head only compares how many rows there are.
EndHead ==
    /\ pc = "head" /\ room = 0 /\ pc' = "idle"
    /\ manifest' = manifest \cup mem.keys
    /\ sync' = IF Count(manifest') = mem.totals[1] THEN "complete" ELSE "incomplete"
    /\ UNCHANGED <<list, newest, job, saved, mem, view, room, drift>>

-----------------------------------------------------------------------------
Inventory ==
    Open \/ CheckPrevious \/ ReadPage \/ EndSession \/ Conclude \/ Interrupted \/ Resume

Pass == (\E kind \in {"run", "head"} : StartPass(kind)) \/ PassPage \/ EndRun \/ EndHead

Next == Drift \/ Inventory \/ Pass

Spec == Init /\ [][Next]_vars

-----------------------------------------------------------------------------
\* "drift never reports success" (done_collection.py:294): when the inventory
\* is completed, its keys are the list as it was when the head was loaded for
\* the last time, over all sessions, crashes and restarts: unless more items
\* than a page holds came and left again, which a page read meanwhile shows in
\* place of others while the totals and the head agree afterwards.  A run that
\* reports a complete manifest has stored the list it started with, unless that
\* changed more than once under way: it does not look at the head again.
FewChanges == drift < 2 * (PageSize + 1)

CompletesListed ==
    /\ job # "completed" /\ job' = "completed" /\ ~mem.again /\ FewChanges =>
           saved.keys = Range(view'.list)
    /\ pc = "run" /\ pc' = "idle" /\ sync' = "complete" /\ drift <= mem.at + 1
           => Range(mem.from) \subseteq manifest

\* Every step of the readers keeps to it.
CompleteMeansListed == [][CompletesListed]_vars
=============================================================================
