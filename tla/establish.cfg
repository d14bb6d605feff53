CONSTANTS
  a = a  b = b
  Conns = {a, b}
  Kinds = {"tcp", "ws", "quic"}
  FirstDelay = 1
  MaxDelay = 3
  MaxErrors = 3
  Timed = {a}
  MaxBytes <- MCMaxBytes
SPECIFICATION FairSpec
INVARIANT TypeOK
INVARIANT PortReleased
INVARIANT BackoffFollowsErrors
INVARIANT FirstBytesKept
PROPERTY EverySetupEnds
CHECK_DEADLOCK FALSE
