\* One worker, both loops, under fairness; an upload may wait behind another.
SPECIFICATION FairSpec
CONSTANTS
  u1 = u1  u2 = u2  d1 = d1
  NoMessage = NoMessage
  Message <- MCMessage
  Queue <- MCQueue
  Route <- MCRoute
  CallbackQueue <- MCCallbackQueue
  Worker = {w1}
  Prefetch = 2
  MaxRetries = 1
  MaxDisruptions = 2
CHECK_DEADLOCK FALSE
INVARIANTS ConsumerTypeOK NothingLost NothingDoubled
PROPERTIES BuriedOnlyAfterLiveFailures AtLeastOnce WorkerRecovers
