----------------------------- MODULE MarkdownQueue -----------------------------
(***************************************************************************)
(* The queue of single-file conversions (markdown_queue.py) and the one    *)
(* process that works it off (markdown_worker.py, behind a file lock).     *)
(* A claim requeues what other processes have left running, takes a row,   *)
(* and commits both; when there is nothing to take it commits nothing.     *)
(* The row of a conversion and the export it writes are one commit.        *)
(***************************************************************************)
EXTENDS Naturals, FiniteSets

CONSTANTS
    Files,       \* verified source files
    Permitted,   \* those of a classified item: enqueue_file takes no other
    Pdfs,        \* those start_pdf_mineru_campaign picks
    Terminal,    \* files no engine converts: encrypted, corrupted, unknown
    MaxOrders,   \* bound on what the operator asks for
    MaxCrashes   \* bound on the crashes of the worker

VARIABLES
    md,          \* Files -> [status, campaign, mine]; mine: by a live worker
    export,      \* Files -> status of the MarkdownExport
    engine,      \* Files -> engine of the export: none, default, mineru
    control,     \* MarkdownQueueControl: paused, pdf_mineru_paused
    found,       \* Files -> the source is where the database says
    at,          \* the file the worker converts, with the engine it was told
    orders, mdCrashes

mdVars == <<md, export, engine, control, at, orders, mdCrashes>>

NoTask == [status |-> "none", campaign |-> FALSE, mine |-> FALSE]
Resting == [file |-> "none", mineru |-> FALSE]

MdInit ==
    /\ md = [f \in Files |-> NoTask]
    /\ export = [f \in Files |-> "none"]
    /\ engine = [f \in Files |-> "none"]
    /\ control = [paused |-> FALSE, pdfPaused |-> FALSE]
    /\ found = [f \in Files |-> TRUE]
    /\ at = Resting
    /\ orders = 0 /\ mdCrashes = 0

InStatus(status) == {f \in Files : md[f].status = status}

-----------------------------------------------------------------------------

\* enqueue_missing_markdown_tasks: one row per file and schema version, none
\* for a file that is exported or can never be.
EnqueueMissing ==
    LET missing == {f \in Permitted : md[f].status = "none"
                        /\ export[f] \notin {"success", "unsupported"}}
    IN  /\ missing # {}
        /\ md' = [f \in Files |-> IF f \in missing
                      THEN [NoTask EXCEPT !.status = "queued"] ELSE md[f]]
        /\ UNCHANGED <<export, engine, control, found, at, orders, mdCrashes>>

Order == orders < MaxOrders /\ orders' = orders + 1

\* The campaign takes every PDF mineru has not converted.  A running row is
\* marked too, but the conversion in flight keeps the engine it started with.
StartCampaign ==
    LET picked == {f \in Pdfs : ~(export[f] = "success" /\ engine[f] = "mineru")}
    IN  /\ Order
        /\ md' = [f \in Files |->
               IF f \notin picked THEN md[f]
               ELSE IF md[f].status = "running"
               THEN [md[f] EXCEPT !.campaign = TRUE]
               ELSE [status |-> "queued", campaign |-> TRUE, mine |-> FALSE]]
        /\ control' = [control EXCEPT !.pdfPaused = FALSE]
        /\ UNCHANGED <<export, engine, found, at, mdCrashes>>

SetPdfPaused(paused) ==
    /\ Order
    /\ control' = [control EXCEPT !.pdfPaused = paused]
    /\ UNCHANGED <<md, export, engine, found, at, mdCrashes>>

SetPaused(paused) ==
    /\ Order
    /\ control' = [control EXCEPT !.paused = paused]
    /\ UNCHANGED <<md, export, engine, found, at, mdCrashes>>

\* retry_failed, and retry_pdf_mineru_failed for the rows of the campaign.
RetryFailed(campaignOnly) ==
    /\ Order
    /\ md' = [f \in Files |->
           IF md[f].status = "failed" /\ (campaignOnly => md[f].campaign)
           THEN [md[f] EXCEPT !.status = "queued"] ELSE md[f]]
    /\ UNCHANGED <<export, engine, control, found, at, mdCrashes>>

-----------------------------------------------------------------------------

\* What claim sees after it has requeued the rows other owners left running.
Requeued_None == md
Requeued == [f \in Files |-> IF md[f].status = "running"
                 THEN [md[f] EXCEPT !.status = "queued", !.mine = FALSE] ELSE md[f]]

\* The campaign comes first and has a switch of its own.
Takeable ==
    LET queued == {f \in Files : Requeued[f].status = "queued"}
        campaign == {f \in queued : Requeued[f].campaign /\ ~control.pdfPaused}
    IN  IF campaign # {} THEN campaign
        ELSE {f \in queued : ~Requeued[f].campaign /\ ~control.paused}

\* Without a row to take the session is closed uncommitted, and the rows
\* stay as they are.
MdClaim(f) ==
    /\ at = Resting /\ f \in Takeable
    /\ md' = [Requeued EXCEPT ![f] = [@ EXCEPT !.status = "running", !.mine = TRUE]]
    /\ at' = [file |-> f, mineru |-> md[f].campaign]
    /\ UNCHANGED <<export, engine, control, found, orders, mdCrashes>>

\* _convert_one.  With an engine of its own a row is converted again in any
\* case; otherwise an export that is current is left, and the worker reports
\* a conversion that was not needed as failed.
Convert(good) ==
    LET f == at.file
        skip == ~at.mineru /\ found[f] /\ export[f] \in {"success", "unsupported"}
        result == IF ~found[f] \/ skip THEN "failed"
                  ELSE IF f \in Terminal \/ good THEN "succeeded" ELSE "failed"
    IN  /\ at # Resting
        /\ md' = [md EXCEPT ![f].status = result, ![f].mine = FALSE]
        /\ IF ~found[f] \/ skip THEN UNCHANGED <<export, engine>>
           ELSE /\ export' = [export EXCEPT ![f] =
                       IF f \in Terminal THEN "unsupported"
                       ELSE IF good THEN "success" ELSE "failed"]
                /\ engine' = [engine EXCEPT ![f] =
                       IF at.mineru THEN "mineru" ELSE "default"]
        /\ at' = Resting
        /\ UNCHANGED <<control, found, orders, mdCrashes>>

MdCrash ==
    /\ at # Resting /\ mdCrashes < MaxCrashes
    /\ mdCrashes' = mdCrashes + 1
    /\ md' = [md EXCEPT ![at.file].mine = FALSE]
    /\ at' = Resting
    /\ UNCHANGED <<export, engine, control, found, orders>>

MdWork == (\E f \in Files : MdClaim(f)) \/ \E good \in BOOLEAN : Convert(good)

Operator ==
    \/ StartCampaign
    \/ \E paused \in BOOLEAN : SetPdfPaused(paused) \/ SetPaused(paused)
    \/ \E campaignOnly \in BOOLEAN : RetryFailed(campaignOnly)

MdNext == EnqueueMissing \/ Operator \/ MdWork \/ MdCrash
=============================================================================
