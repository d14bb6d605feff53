CONSTANTS
  s1 = s1  s2 = s2  r = r  l = l  c = c  p1 = p1  p2 = p2  p3 = p3
  None = None
  Senders = {s1, s2}
  Setters = {}
  Closers = {s1}
  Reader = s2
  Loop = l
  Packets = {p1, p2}
  Durations = {0}
  PeerItems = {"data", "ping", "close"}
  EmptyMessages = FALSE
  MaxIn = 1
  MaxQuiet = 0
SPECIFICATION FairSpec
INVARIANT CauseIsOriginal
PROPERTY FramingUntilTorn
PROPERTY CloseReleasesAll
PROPERTY PeerEndClosesSocket
