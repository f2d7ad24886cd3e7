SPECIFICATION FairSpec
CONSTANTS
  N = 2
  WTD_EXPIRE = 1
  WTD_SET = 3
  MAXBYTE = 3
  DelayTime = 2
  SensorEvent = 1
  ArmDelay = 0
  Lossy = FALSE
  UserCommands = {3, 4, 5}
  Dead = {}
  MaxCommands = 1
  MaxSensor = 1
  MaxFault = 0
PROPERTY PeerAlarmRaisesAlarm
