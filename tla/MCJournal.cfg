CONSTANTS
  none = none
  result = result
  norec = norec
  Params <- MCParams
  NoParams = none
  NoRecord = norec
  RecordSize = 2
  MaxFrames = 3
SPECIFICATION JSpec
PROPERTIES ImplementsDurableLog
