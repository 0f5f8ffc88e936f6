CONSTANTS
  Clients = {c1, c2}
  Emails = {e1, e2}
  Passwords = {p1, p2}
  Names = {n1}
  MaxUID = 2
  MaxFaults = 1
  MaxCalls = 2
SYMMETRY Symmetry
SPECIFICATION Spec
INVARIANTS
  TypeOK
  CreatedOnce
  LoginRight
  UpdateClosesStatement
CHECK_DEADLOCK FALSE
