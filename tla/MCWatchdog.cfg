SPECIFICATION FairSpec
CONSTANTS
  Own = {own1, own2}
  Foreign = {other}
  FlattenOnSilenceS = 4
  ReconnectSeconds = 3
  PushSeconds = 3
  MaxQuiet = 5
  MaxRefusals = 1
  MaxRestarts = 1
  AllowExecution = TRUE
INVARIANT SilenceIsHonest
PROPERTIES FlattenOnlyAfterSilence Reconnects HungBrainFlattened
