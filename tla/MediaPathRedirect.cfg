\* The smallest instance in which a redirect drains a queued timeout.
CONSTANTS
  MaxChanges = 2
  MaxRedirects = 1
SPECIFICATION FairSpec
PROPERTIES
  OutageEnds
CHECK_DEADLOCK FALSE
