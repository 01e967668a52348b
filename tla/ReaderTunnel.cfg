SPECIFICATION Spec
CONSTANTS
  Addresses <- MCAddresses
  Ports <- MCPorts
  Protocols <- MCProtocols
  MaxTime = 0
  Wrap = 64
  Snaplen = 262144
  Frames <- MCFrames
  read_ipv4 = TRUE
  read_ipv6 = FALSE
  HasProgress = TRUE
  MaxFrames = 1
INVARIANT L2tpIsDecapsulated
