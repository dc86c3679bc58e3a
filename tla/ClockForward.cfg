SPECIFICATION Spec
CONSTANTS
  Period = 2
  MaxResolution = 2
  IntMax = 3
  Resolutions <- SomeResolutions
  Ticks = {0, 1, 2}
  Over = 1
  Gap = 1
  HostMax = 12
PROPERTIES
  MovesForward
