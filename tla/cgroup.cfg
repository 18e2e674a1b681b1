SPECIFICATION LiveSpec
CONSTANTS
  payload = payload
  monitor = monitor
  inner = inner
  NoCgroup = NoCgroup
  Tasks = {t1, t2, t3}
  Children = {payload, monitor}
  Nested = {inner}
  Parent <- ParentOf
  MaxForks = 2
INVARIANTS CgroupTypeOK SweepKillsAll
PROPERTIES DrainEnds DeleteFailsOnlyIfBusy
