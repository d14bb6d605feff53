CONSTANTS
  s1 = s1  s2 = s2  r = r  c = c  p0 = p0  p1 = p1  p2 = p2  p3 = p3
  None = None
  Senders = {s1, s2}
  Reader = r
  Setters = {c}
  Closers = {c}
  Packets = {p1, p2, p3}
  Size <- MCSize
  Durations = {0, 1}
  Tls = FALSE
  MarshalerPanics = FALSE
SPECIFICATION Spec
INVARIANT RecvUsesLastTimeout
