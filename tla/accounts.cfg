SPECIFICATION Spec
CONSTANTS
  Browsers = {b1, b2}
  Ids = {u1, u2, u3}
  Names = {n1, n2}
  Emails = {e1, n2}
  Passwords = {p1}
  None = None
  MaxBegun = 5
  MaxLost = 1
INVARIANTS TypeOK NamesAreUnique EmailsAreUnique LoginActs
PROPERTIES DeletedStaysDeleted
CHECK_DEADLOCK FALSE
