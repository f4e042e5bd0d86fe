SPECIFICATION KeptSpec
CONSTANTS
  InitSize = 1
  MaxCoros <- MCMaxCoros
  MaxCalls = 2
  MaxRequests = 2
  MessageKept = FALSE
INVARIANTS SchedulerOK MailboxOfKept
PROPERTIES SendRecieveSpec CallsReturn
