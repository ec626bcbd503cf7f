SPECIFICATION Spec
INVARIANTS StatusesAccepted
