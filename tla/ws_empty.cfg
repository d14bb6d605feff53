CONSTANTS
  s1 = s1  s2 = s2  r = r  l = l  c = c  p1 = p1  p2 = p2  p3 = p3
  None = None
  Senders = {}
  Setters = {}
  Closers = {c}
  Reader = r
  Loop = l
  Packets = {}
  Durations = {2}
  PeerItems = {"data", "fragment", "ping", "close", "eof", "bad"}
  EmptyMessages = TRUE
  MaxIn = 2
  MaxQuiet = 10
SPECIFICATION Spec
INVARIANT IdleBounded
