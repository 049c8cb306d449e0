SPECIFICATION Spec
CONSTANTS
  Members = {m1}
  Watchers = {host}
  Nobody = Nobody
  MaxChanges = 2
PROPERTIES
  ViewsConverge
