\* One run()/queueReader() pair: subscribe, trace, unsubscribe and quit with
\* up to 4 notifications over two loggers.  Soft limit 2, hard limit 3,
\* inbox size 2, so every limit is reached.
CONSTANTS
  tA = tA
  tB = tB
  Types <- MCTypes
  INBOX_SIZE = 2
  inpq_max_size = 2
  inpq_threshold = 2
  Runs = {r1}
  MaxMsgs = 3
  MaxCmds = 3
  Malformed = FALSE
  QueueEnd = QueueEnd
  NoMsg = NoMsg
SPECIFICATION Spec
INVARIANT TypeOK InboxBounded InboxInArrivalOrder QueueWithinHardLimit SubscribedHaveInbox
PROPERTY RunTerminates
\* The process may stop: os._exit on a full queue, or every thread blocked
\* waiting for a frame or a command once the bounds are used up.
CHECK_DEADLOCK FALSE
