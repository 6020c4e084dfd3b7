------------------------- MODULE MCProductionQueue -------------------------
(* Small instances of ProductionQueue: one pending item, one local_delivery *)
(* row and one row of a retired stage.                                      *)
EXTENDS ProductionQueue, TLC

MCQueueOf ==
    (1 :> "realtime_pending") @@ (2 :> "markdown_delivery") @@ (3 :> "realtime_done")

MCEntryStage ==
    (1 :> "notify_feishu") @@ (2 :> "index_publish") @@ (3 :> "ollama_extract")

PidSymmetry == Permutations(Pids)
=============================================================================
