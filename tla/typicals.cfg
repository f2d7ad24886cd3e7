SPECIFICATION MCSpec
CONSTANTS
  Travel = 2
  MaxCommands = 3
INVARIANTS RunBounded OutputsKnown NeverBoth Regulates Tracks
PROPERTIES NoReversal TemporaryStopHolds EndStateJustified NotEarly ManualHolds PulseHonest OffIsDark ComesToRest
