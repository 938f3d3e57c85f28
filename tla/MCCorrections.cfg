CONSTANTS
  Worlds <- Machines
  TypedLines <- Lines
  MaxTaken = 3
  MaxLines = 4
SPECIFICATION CorrectSpec
INVARIANTS  OneMind 
CHECK_DEADLOCK FALSE
