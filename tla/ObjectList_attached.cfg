CONSTANTS
  Objects = {"a", "b", "c"}
  Attached = {"a", "b"}
SPECIFICATION Spec
INVARIANTS
  AttachedInOrder
