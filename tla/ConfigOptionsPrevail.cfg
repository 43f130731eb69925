CONSTANTS
  Files <- MCFiles
  Options <- MCOptions
  NoFile = NoFile
  INT_MAX = 127
  MAX_ARGS = 2
SPECIFICATION Spec
INVARIANT OptionsPrevail
