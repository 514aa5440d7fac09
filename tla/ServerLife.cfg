SPECIFICATION Spec
INVARIANTS TypeOK CleanShutdown HealthzTells
PROPERTIES SignalEnds HealthzCatchesUp
CHECK_DEADLOCK FALSE
