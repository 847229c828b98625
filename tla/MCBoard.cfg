SPECIFICATION BoardSpec
CONSTANTS
  flash = flash
  update = update
  halt = halt
  resume = resume
  run = run
  Plugin <- Loaded
  Op = {flash, update, halt, resume, run}
  Capability <- Asked
  Version <- Wanted
  Installed = "v1"
  MaxRetries = 1
CHECK_DEADLOCK FALSE
INVARIANTS
  LeaseKeepsBoard
  AnswersAreTrue
