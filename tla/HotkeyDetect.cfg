SPECIFICATION FairHotkeysSpec
CONSTANTS
  HotKeys = {"copilot", "plain"}
  ProbedKeys = {"copilot"}
  MaxPresses = 2
  MaxDetects = 1
  MaxRemaps = 1
PROPERTY DetectModeEnds
CHECK_DEADLOCK FALSE
