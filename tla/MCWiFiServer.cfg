CONSTANTS
  Objs = {o1, o2}
  Handles = {h1, h2, h3}
  NULL = NULL
  MaxConns = 3
SPECIFICATION Spec
CHECK_DEADLOCK FALSE
SYMMETRY MCSymmetry
INVARIANTS TypeOK OwnData ConnectedIsOpen ConnectionsHeld
