CONSTANTS
  u1 = u1
  u2 = u2
  r1 = r1
  r2 = r2
  r3 = r3
  Users <- MCUsers
  Founder = u1
  Requests <- MCRequests
  None = none
  StartLakes = 1
  MaxFaults = 1
SPECIFICATION Spec
SYMMETRY Interchangeable
CHECK_DEADLOCK FALSE
INVARIANTS
  AllowanceHeld
  OwnerRemains
  PaidOnOrgCustomer
  
