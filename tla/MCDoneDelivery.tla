--------------------------- MODULE MCDoneDelivery ---------------------------
(* Instances of DoneDelivery for TLC.                                        *)
EXTENDS DoneDelivery, TLC

CONSTANTS f1, f2, x1, x2, y1

Growing == <<f1 :> x1 @@ f2 :> NoContent, f1 :> x1 @@ f2 :> y1>>
OneFile == <<f1 :> x1>>
=============================================================================
