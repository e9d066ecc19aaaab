\* Three ticks to a second, so that every carry and borrow happens; deadlines in
\* the past and in the next seconds; a waiter held up for up to three ticks; the
\* realtime clock put back and forward twice; a futex's waiter woken in vain twice.
\* The last tick is late enough for every deadline.
CONSTANTS
  Second = 3
  Timeouts = {0, 1, 5, 7}
  Offsets = {4, 6, 8}
  MaxTime = 18
  LastCall = 3
  MaxDelay = 3
  MaxSets = 2
  MaxWakes = 2
SPECIFICATION TimedSpec
PROPERTY OnTime
PROPERTY TimedWaitEnds
\* The clocks stop at their bounds.
CHECK_DEADLOCK FALSE
