CONSTANTS
  a = a  b = b  f = f  g = g  m0 = m0  m1 = m1  m2 = m2
  None = None
  Conns = {a, b}
  Filters = {f}
  Matching = {f}
  Msgs = {m1, m2}
  Qos <- QosOf
  Asked = {0, 2}
  IdMax = 1
  Stalling = {}
SPECIFICATION Spec
SYMMETRY Perms
INVARIANT TypeOK
INVARIANT AckedSubscribersServed
INVARIANT Qos2OnlyOnce
INVARIANT PacketIdValid
INVARIANT ClosedMeansDisconnected
CHECK_DEADLOCK FALSE
