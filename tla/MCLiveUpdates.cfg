CONSTANTS
  i1 = i1 i2 = i2 ann = ann bob = bob tab1 = tab1 tab2 = tab2 phone = phone
  n1 = n1 n2 = n2 m1 = m1 m2 = m2 w1 = w1
  Instances = {i1, i2}
  Users = {ann, bob}
  Sockets = {tab1, tab2, phone}
  Owner <- MCOwner
  TTL = 1
  Bannable = {ann}
  MaxFlight = 1
  MaxFaults = 1
  Stories <- MCStories
  None = None
  News = {n1, n2}
  Published0 = {n1}
  FeedBounds <- MCFeedBounds
  NoList = NoList
  MessageNotes = {m1, m2}
  NewsNotes = {w1}
  BellBounds <- MCBellBounds
  NoAnswer = NoAnswer
SPECIFICATION LiveSpec
INVARIANTS
  RoomsMatchSockets
  BannedAreOut
  MessageReachesRoom
  GesturesHold
  MessagesAreTold
PROPERTY LiveUpdatesSettle
CHECK_DEADLOCK FALSE
