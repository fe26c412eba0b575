\* A cooldown of two intervals, a tester overdue after three, a cycle that may
\* run into the next interval, one failing database call.
SPECIFICATION Spec
CONSTANTS
  Cooldown = 2
  StaleAfter = 3
  MaxCycle = 1
  MaxFaults = 1
  Never = Never
  NoTicker = NoTicker
INVARIANTS TypeOK NewPanelIsQuiet
PROPERTIES MessagesAreSpaced TesterAlarmIsHonest AlarmRepeats AlarmEnds
