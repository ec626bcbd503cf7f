--------------------------- MODULE MCOutboxRelay ---------------------------
(* OutboxRelay with model values for its constants. *)
EXTENDS OutboxRelay, TLC

Symmetry == Permutations(Relays)
=============================================================================
