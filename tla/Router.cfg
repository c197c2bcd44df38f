SPECIFICATION Spec
CONSTANTS
  Channel = {c1}
  Host = {h1, h2}
  Device = {d1}
  TokenDevice = {d1}
  PairingId = {p1, p2}
  NoId = NoId
  NoPairing = NoPairing
  HostConn = {hc1}
  DevConn = {dc1, dc2}
  DelReq = {x1, x2}
  DeviceAttachPerChannel = 1
  MailboxMaxFrames = 1
  MaxSeq = 1
SYMMETRY Symmetry
CONSTRAINT Focus
INVARIANTS TypeOK StoreIndexed RoutedUnderRegistration SocketAccounting LostOnlyToDetach
           PushOnlyForBuffered HostToldOfDevice
