----------------------- MODULE MCEmbeddingRetryQueue -----------------------
(* Model-checking instance of EmbeddingRetryQueue: three processes on one file *)
(* race for one slot.                                                         *)
EXTENDS EmbeddingRetryQueue
=============================================================================
