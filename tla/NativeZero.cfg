\* The same group, asked whether the zero it computes is zero.
SPECIFICATION Spec
CONSTANTS
  WordBits = 2
  WindowBits = 2
  KaratsubaMin = 4
  P = 199
  Q = 11
  PLen = 4
  QLen = 2
  Gen = 61
  Nibble = 2
  Exponents = {0, 1, 6, 10}
  MaxMinimum = 2
  SliceBytes = 8
  SliceValues = {0, 1, 2}
INVARIANTS ZeroIsZero
CHECK_DEADLOCK FALSE
