\* Four updates, so that a fault, a finished update and a later one all meet;
\* two faults in a row disable the updates, two crashes the overlay.
SPECIFICATION Spec
CONSTANTS
  MaxUpdates = 4
  MaxFaults = 2
  MaxCrashes = 2
INVARIANTS ChannelsInOrder MeasuredOnce
PROPERTY QuietAfterExit
CHECK_DEADLOCK FALSE
