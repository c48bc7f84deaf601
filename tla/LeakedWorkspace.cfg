SPECIFICATION DeliverySpec
CONSTANTS
  calc = calc
  extra = extra
  good = good
  old = old
  Absent = Absent
  Path = {calc, extra}
  Content = {good, old}
  Trees <- TheTrees
  Tasks <- TheTasks
INVARIANTS WorkspaceIsRemoved
