\* Two mails and a widget of one header; one hook and one other call; a lost
\* call, a restart and an initialize request for each process.
\* The host may close the connection of the last process: the end.
SPECIFICATION Spec
CONSTANTS
  Hook = hook
  Others = {c1}
  None = None
  Limit = 1
  MaxMails = 2
  MaxLost = 1
  Values = {1}
  Requests <- MCRequests
  MailboxDefault = FALSE
  MaxRequests = 2
  MaxRestarts = 1
INVARIANTS
  AnswersMatchTheirRequests
PROPERTIES
  SkippedIsShown
  WidgetCatchesUp
  MailIsNoticed
CHECK_DEADLOCK FALSE
