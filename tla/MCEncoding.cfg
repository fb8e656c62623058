\* A family with a verified contract and one without; indexes of up to four fields.
CONSTANTS
  Groups = {8, 9}
  Families = {"TypeScript", "Rust"}
  Explicit = {"UTF8"}
  MaxFields = 4
  Streams <- MCStreams
SPECIFICATION Spec
INVARIANTS
  IndexIsWhole
  SuccessIsCompleted
  InterruptNotMasked
  RejectionDeserved
CHECK_DEADLOCK FALSE
