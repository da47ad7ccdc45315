SPECIFICATION FairSpec
CONSTANTS
  Machines = {m1, m2}
  Tasks = {t0, t1, t2}
  Main = t0
  NoTask = NoTask
  Users = {}
  Calls = {"yield", "go", "await_func"}
  MaxCalls = 2
  MaxRefuse = 1
  WaitSize = 6
INVARIANTS SingleEntry RunsAfterTarget
PROPERTIES EveryTaskFinishes
