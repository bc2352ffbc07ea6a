SPECIFICATION Spec
CONSTANTS
  num_process = 5
  MaxNeed = 3
  TimesNeeded <- AllTimesNeeded
INVARIANT HeapSafe
PROPERTIES ImplementsShortestJob KeepsInterface
CHECK_DEADLOCK FALSE
