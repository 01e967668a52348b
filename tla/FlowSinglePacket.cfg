SPECIFICATION Spec
CONSTANTS
  a = a
  b = b
  Addresses <- MCAddresses
  Ports <- MCPorts
  Protocols <- MCProtocols
  MaxTime = 3
  Wrap = 64
  ActivityTimeout = 1
  FlowTimeout = 3
  Packets <- MCPackets
  Ordered = TRUE
  MaxPackets = 2
INVARIANT SinglePacketFlowsSkipped
