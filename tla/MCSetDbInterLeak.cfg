SPECIFICATION MCSpec
CONSTANTS
  k1 = k1
  k2 = k2
  k3 = k3
  m1 = m1
  m2 = m2
  Proc = {c1, c2}
  Key = {k1, k2, k3}
  EmptyMember = m2
  NoCommand = NoCommand
  Menus <- LeakMenu
  Command <- AllCommands
  MaxDue = 0
SYMMETRY ProcSymmetry
INVARIANTS
  LocksReleased
\* A panic ends the connection of a client: both may be gone.
CHECK_DEADLOCK FALSE
