SPECIFICATION Spec
CONSTANTS
  Symbol = {"EURUSD", "XAUUSD"}
  HeartbeatS = 1
  TimeoutS = 2
  HighWater = 2
  MaxTs = 2
  MaxStarts = 2
INVARIANTS RepeatsOnlyAfterRestart OneLateTick NoFalseAlarm
PROPERTY SilentGatewayArms
