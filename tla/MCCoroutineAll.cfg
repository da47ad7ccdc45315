SPECIFICATION Spec
CONSTANTS
  Machines = {m1, m2}
  Tasks = {t0, t1, t2}
  Main = t0
  NoTask = NoTask
  Users = {u1}
  Calls = {"yield", "go", "await_func", "await_timer", "await_trigger", "notify"}
  MaxCalls = 2
  MaxRefuse = 1
  WaitSize = 3
SYMMETRY Symmetry
INVARIANTS TypeOK OnlySharedReentered
