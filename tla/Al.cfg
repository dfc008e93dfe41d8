SPECIFICATION Spec
CONSTANTS
  Years = {2016}
  Months = {1, 9, 10, 12}
  Days = {1, 9, 10, 31}
  Hours = {0, 9, 10, 23}
  Minutes = {0, 9, 10, 59}
  Lengths = {0, 1, 250, 251, 252, 253, 254, 255, 256, 65535, 65536, 16777215, 16777216, 2147483647}
  NULL_LENGTH = NULL_LENGTH
  MetaBytes = {0, 1, 255}
  MaxColumns = 3
  MaxRows = 2
  ByteBits = 2
  NullValue = NullValue
INVARIANTS TimeReadBack TableMapReadBack 
