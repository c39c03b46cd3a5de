\* Two processes, two packaged revisions, every database that may be found at
\* either path, a failing call and two crashes.
SPECIFICATION Spec
CONSTANTS
  Processes = {p1, p2}
  Nobody = Nobody
  NoFile = NoFile
  Head = 2
  MaxFailures = 1
  MaxCrashes = 2
INVARIANTS
  ImportTypeOK
  ImportsArriveWhole
  OpenIsForGood
PROPERTIES
  NothingIsReplaced
  LeftoversDoNotFailStarts
  EveryProcessOpens
