CONSTANTS
  Null = Null
  Malformed = Malformed
  TradeKeys <- MCTradeKeys
  Amounts = {0, 5}
  MaxCalls = 2
  MaxStrays = 1
  buyer = buyer
  seller = seller
  solver = solver
  server1 = server1
  server2 = server2
  Parties = {buyer, seller, solver}
  Servers = {server1, server2}
  ServersOf <- MCServersOf
  MaxSkew = 1
  MaxAhead = 2
  MaxAttachment = 2
  Overhead = 1
  Refused = Refused
  NoFile = NoFile
  MaxChats = 1
  MaxTime = 1
  Makers = {anna, bert}
  Nobody = Nobody
  MaxOrders = 2
  MaxSightings = 4
  Calls = {c1, c2, c3}
  NoSalt = NoSalt
  MaxSalts = 3
SPECIFICATION Spec
INVARIANTS RequestArrivesIntact ResultMatchesDecision ChatReadByPeer AttachmentOpens AnnotationMatchesSigner  EnvelopesOpen
CHECK_DEADLOCK FALSE
