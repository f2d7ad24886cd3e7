SPECIFICATION ButtonsSpec
CONSTANTS
  Pin = {1, 2}
  Helpers = {"DigKeepHold"}
  Holdtime = 3
  MaxGap = 2
  Wrap = 16
  Group = 2
INVARIANTS HeldRepeats
