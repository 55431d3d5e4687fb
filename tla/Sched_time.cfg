\* Two vCPUs of one core, both ready at boot; one cross-call from outside.
CONSTANTS
  N = 2
  Boot = {0}
  Quanta = {1}
  Horizon = 1
  MaxCalls = 2
  Demo = TRUE
  Timers <- CoreTimers
SPECIFICATION FairSpec
INVARIANTS RegistersBelong DeadlinesWatched
PROPERTIES SwitchPoints SleeperWakes ReadyRuns
