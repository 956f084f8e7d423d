SPECIFICATION Spec
CONSTANTS
  Url = {u1}
  Slot = {j1}
  NoInfo = NoInfo
  MaxEvents = 2
PROPERTY NeverMadeOnceRemoved
