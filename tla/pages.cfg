SPECIFICATION Spec
CONSTANTS
  Admins = {a1, a2}
  Elements = {e1, e2}
  PageIds = {p1, p2}
  NoElement = NoElement
  MaxList = 2
  MaxBegun = 3
SYMMETRY Alike
INVARIANTS TypeOK ListedExists AddedIsListed
PROPERTIES DeletionKeepsOthers
CHECK_DEADLOCK FALSE
