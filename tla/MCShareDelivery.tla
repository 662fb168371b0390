--------------------------- MODULE MCShareDelivery ---------------------------
(* Small instances of ShareDelivery: three helpers, of which one may answer  *)
(* anything, one initial delivery and one tracking operation.                *)
EXTENDS ShareDelivery
=============================================================================
