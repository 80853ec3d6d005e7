--------------------------- MODULE MCQueueInformer ---------------------------
(***************************************************************************)
(* The instance of QueueInformer for TLC.                                  *)
(***************************************************************************)
EXTENDS QueueInformer
=============================================================================
