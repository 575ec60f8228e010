\* One seed slot, two torrents, and one save of the settings.
SPECIFICATION Spec
\* The commands are bounded.
CHECK_DEADLOCK FALSE
CONSTANTS
  Torrents = {"t1", "t2"}
  Slots = 1
  MaxSeeds = 1
  Workers = {1, 2}
  MaxCommands = 2
  MaxSaves = 1
  MaxFences = 0
  MaxDoubts = 0
INVARIANTS
  SomebodySeeds
