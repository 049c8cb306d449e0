SPECIFICATION Spec
CONSTANTS
  Members = {m1}
  Watchers = {host}
  Nobody = Nobody
  MaxChanges = 3
INVARIANTS
  NoPlaceholder
PROPERTIES
  EveryChangeTold
  Quiets
