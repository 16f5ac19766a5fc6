CONSTANTS
  ByteMax = 4
  MaxInput = 9
  MaxWire = 5
  Inputs <- MCInputs
  Wires <- MCWires
SPECIFICATION Spec
INVARIANT OnlyDelimitersAreZero
