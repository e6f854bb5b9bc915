CONSTANTS
  lan = lan  wan = wan
  None = None
  Interfaces = {lan, wan}
  Watched = lan
  Indices = {1, 2}
  Given = 1
  Speed = 1
  Wrap = 3
  Direction = "above"
  Warn = 50
  Crit = 100
  FailuresToDown = 3
  RecoveriesToUp = 2
  MaxPolls = 4
  MaxMeasures = 3
  MaxOtherPolls = 9
  MaxClock = 4
  MaxMeasuring = 3
  MaxStarts = 1
  Monitored <- Samples
  Names = {"ap1", "ap2", "ap3", "ap4"}
  Limit = 2
  MaxDevices = 3
  MaxSlips = 1
  Hour = 2
  Lookback = 5
  Retention = 6
  MinPoints = 2
  MinSpan = 2
  Horizon = 5
  MinR2 = 50
  Values = {0, 1, 3}
  Limits <- SomeLimits
  MaxNow = 6
  MaxRows = 4
SPECIFICATION MCForecastSpec
PROPERTY FollowsTheValues
\* Polling stops at the bounds of the instance.
CHECK_DEADLOCK FALSE
