SPECIFICATION Spec
CONSTANTS
  MaxHold = 7
  MaxUnanswered = 3
INVARIANTS
  TypeOK OneForOne NoInventedPulse
PROPERTIES
  OneCycleWide PulseDelivered BusyClears
