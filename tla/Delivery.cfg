SPECIFICATION Spec
CONSTANTS
  MaxConnect = 2
  MaxH2D = 5
  MaxD2H = 3
  QueueCap = 2
  MailboxCap = 2
  PageLimit = 1
  AttachCap = 2
INVARIANTS SkippedMeansReconcile HostViewConverges
PROPERTIES HostToDevice DeviceToHost
CHECK_DEADLOCK FALSE
