CONSTANTS
  a = a  b = b  f = f  g = g  m0 = m0  m1 = m1  m2 = m2
  None = None
  Conns = {a, b}
  Filters = {f, g}
  Matching = {f}
  Msgs = {m0}
  Qos <- QosOf
  Asked = {0}
  IdMax = 1
  Stalling = {b}
SPECIFICATION FairSpec
PROPERTY CloseEndsHandlers
CHECK_DEADLOCK FALSE
