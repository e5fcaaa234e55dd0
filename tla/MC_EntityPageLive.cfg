SPECIFICATION PageSpec
CONSTANTS
 PageKeys = {"temp", "rssi"}
 NoPageKey = "none"
 Alarms = {"low", "high"}
 MaxReadings = 2
 MaxFrames = 1
INVARIANT
  LiveFramesTakeOver
CHECK_DEADLOCK FALSE
