SPECIFICATION MCSpec
CONSTANTS
  t1 = t1 t2 = t2 t3 = t3
  Ending = {t1, t2, t3}
  Programs <- MCPrograms
  init = init a = a b = b a1 = a1 b1 = b1
  Procs = {init, a, b}
  Threads = {t1, t2, a1, b1}
  Owner <- MCOwner
  Seeks = {a, ANY}
  Ticks = {a, b}
  ANY = ANY None = None
CHECK_DEADLOCK FALSE
INVARIANTS DeadWhenPublished  OneReaper  NoOversight
PROPERTIES ExitFinishes  ListedIsReaped
