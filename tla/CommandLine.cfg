SPECIFICATION Spec
CONSTANTS
  Words <- MCWords
  stoull <- MCstoull
  Throws = Throws
  None = None
  Wrap = 4096
  MaxArgs = 5
INVARIANT TypeOK
INVARIANT StatusByUsage
INVARIANT OptionsByUsage
