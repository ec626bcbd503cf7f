------------------------- MODULE MCPaymentConsumer -------------------------
(* PaymentConsumer with model values for its constants. *)
EXTENDS PaymentConsumer, TLC

Symmetry ==
  Permutations(LockIds) \cup Permutations(Workers) \cup Permutations(Copies)
=============================================================================
