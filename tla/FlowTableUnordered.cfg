SPECIFICATION FairSpec
CONSTANTS
  a = a
  b = b
  Addresses <- MCAddresses
  Ports <- MCPorts
  Protocols <- MCProtocols
  MaxTime = 4
  Wrap = 64
  ActivityTimeout = 1
  FlowTimeout = 3
  Packets <- MCUnorderedPackets
  Ordered = FALSE
  MaxPackets = 3
INVARIANT TypeOK
INVARIANT DurationBounded
INVARIANT FlowMatchesKey
PROPERTY ImplementsCounts
PROPERTY EveryFlowReported
PROPERTY ImplementsFairLedger
