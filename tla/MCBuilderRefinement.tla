------------------------- MODULE MCBuilderRefinement ------------------------
(* The builder's refinement checked over the wallets, inputs and outputs  *)
(* of MCTransactionBuilder.                                                *)
EXTENDS BuilderRefinement, MCTransactionBuilder

MCNotes == MCNonces \cup {<<"payment_id", h>> : h \in MCNonces}
====
