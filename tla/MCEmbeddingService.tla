------------------------- MODULE MCEmbeddingService -------------------------
(* Small instances of the shared embedding daemon. *)
EXTENDS EmbeddingServiceProps, TLC

AllFaults == FaultKind
Sessions  == Permutations(Client)

===============================================================================
