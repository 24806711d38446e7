CONSTANTS
  e1 = e1
  e2 = e2
  e3 = e3
  e4 = e4
  c1 = c1
  phone = phone
  mail = mail
  None = None
  Items = {i1, i2, i3, i4, i5, i6}
  Events = {e1, e2, e3, e4}
  Calls = {w1, w2}
  Requests = {r1}
  Customers = {c1}
  Keys = {phone, mail}
  EventCustomer <- MCEventCustomer
  EventKeys <- MCEventKeys
  CustomerKeys <- MCCustomerKeys
  EventAt <- MCEventAt
  Assigned = {e3}
  LockRank <- MCLockRank
  MaxMoves = 1
SPECIFICATION Spec
SYMMETRY MCSymmetry
INVARIANTS CountedOnce NoCircle OneLifecycle SignalsHonest MergedIsEmpty
PROPERTIES MergedStaysClosed
