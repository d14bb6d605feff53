\* Three Sends by two goroutines, one of them also the reader's, a Close and
\* SetTimeOut from elsewhere.
CONSTANTS
  s1 = s1  s2 = s2  r = r  c = c  p0 = p0  p1 = p1  p2 = p2  p3 = p3
  None = None
  Senders = {s1, s2}
  Reader = s1
  Setters = {c}
  Closers = {c}
  Packets = {p0, p2, p3}
  Size <- MCSize
  Durations = {0, 1}
  Tls = FALSE
  MarshalerPanics = FALSE
SPECIFICATION Spec
INVARIANT TypeOK
INVARIANT AckedWhole
INVARIANT WriteOwnership
PROPERTY Framing
