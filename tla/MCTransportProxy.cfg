SPECIFICATION FairSpec
CONSTANTS
  MessageSize = 2
  MaxBytes = 6
  MaxChunks = 1
  SocketBuffer = 3
INVARIANTS BytesInOrder ReceivedAllBeforeDisconnect DestroyedOnce FullMeansBuffered
PROPERTIES NoCallbackAfterEnd RefusedIsCalledBack BytesReachSocket AbandonedIsDeleted
CHECK_DEADLOCK FALSE
