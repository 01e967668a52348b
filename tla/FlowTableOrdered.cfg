SPECIFICATION Spec
CONSTANTS
  a = a
  b = b
  Addresses <- MCAddresses
  Ports <- MCPorts
  Protocols <- MCProtocols
  MaxTime = 4
  Wrap = 64
  ActivityTimeout = 1
  FlowTimeout = 3
  Packets <- MCPackets
  Ordered = TRUE
  MaxPackets = 4
INVARIANT OneFlowPerConnection
INVARIANT FlowsAccounted
INVARIANT LingeringIsFirstRst
INVARIANT FinishedByRstOrBothFins
INVARIANT SegmentsInOrder
INVARIANT InterArrivalsTelescope
INVARIANT ActiveIdlePartition
INVARIANT HalvesAddUp
INVARIANT HalvesByEndpoint
INVARIANT RowColumnsAgree
PROPERTY ImplementsLedger
