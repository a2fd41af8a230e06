\* One manager, and callers that give up.
CONSTANTS
  t1 = t1
  t2 = t2
  t3 = t3
  m1 = m1
  m2 = m2
  Threads = {t1, t2}
  Managers = {m1}
  Origins = {o1}
  ManagerOf <- Two
  NoCreds = NoCreds
  Causes = {"cancelled"}
  MaxIssued = 3
SPECIFICATION Spec
INVARIANT SpentOnce
