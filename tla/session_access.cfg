SPECIFICATION GateSpec
CONSTANTS
  Users = {u1, u2}
  Admin = u1
  Orgs = {o1, o2}
  None = none
INVARIANT AccessIsOwn
