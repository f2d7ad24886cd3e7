SPECIFICATION MCSpec
CONSTANTS
  N = 2
  WTD_EXPIRE = 1
  WTD_SET = 3
  MAXBYTE = 3
  DelayTime = 2
  SensorEvent = 2
  ArmDelay = 1
  Lossy = TRUE
  UserCommands = {3, 4, 5}
  Dead = {}
  MaxCommands = 2
  MaxSensor = 1
  MaxFault = 1
INVARIANTS NoFalseAlarm
PROPERTIES AlarmLatched CountdownRuns RingRaisesAlarm
