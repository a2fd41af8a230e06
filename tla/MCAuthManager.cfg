\* Two goroutines of one manager, one of another, of the same origin or not.
CONSTANTS
  t1 = t1
  t2 = t2
  t3 = t3
  m1 = m1
  m2 = m2
  Threads = {t1, t2, t3}
  Managers = {m1, m2}
  Origins = {o1, o2}
  ManagerOf <- TwoAndOne
  NoCreds = NoCreds
  Causes <- Accidents
  MaxIssued = 2
SPECIFICATION Spec
SYMMETRY SharedManager
INVARIANTS
  TypeOK
  LoginIsKept
PROPERTY HandedInOrder
