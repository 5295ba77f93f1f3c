SPECIFICATION MCSpec
CONSTANTS
  k1 = k1
  k2 = k2
  e1 = e1
  e2 = e2
  f1 = f1
  f2 = f2
  Member = {1, 2}
  MaxLevel = 1
  MaxHashInt = 1
  MaxNumber = 2
  Proc = {c1, c2}
  Key = {k1, k2}
  NoCommand = NoCommand
  Command <- AllCommands
  MaxDue = 1
  MaxElems = 1
SYMMETRY ProcSymmetry
INVARIANTS
  NoEmptyCollections
  HashSizesRight
PROPERTIES
  ImplementsAtomicCollections
