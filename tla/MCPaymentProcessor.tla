------------------------ MODULE MCPaymentProcessor ------------------------
(* PaymentProcessor with model values for its constants. *)
EXTENDS PaymentProcessor, TLC

LockIdSymmetry == Permutations(LockIds) \cup Permutations(Workers)
=============================================================================
