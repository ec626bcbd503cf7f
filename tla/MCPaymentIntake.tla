--------------------------- MODULE MCPaymentIntake ---------------------------
(* PaymentIntake with model values for its constants. *)
EXTENDS PaymentIntake, TLC
=============================================================================
