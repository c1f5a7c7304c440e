CONSTANTS
  p1 = p1  p2 = p2  p3 = p3  b1 = b1  n1 = n1  n2 = n2
  Pubkey = {p1, p2, p3}
  Nonce = {n1, n2}
  Time = {1, 2}
  Body = {b1}
  Types <- SomeTypes
SPECIFICATION Spec
SYMMETRY Symmetry
CHECK_DEADLOCK FALSE
INVARIANT TypeOK
INVARIANT OpenedWasPosted
INVARIANT PostedOpens
INVARIANT NonceNamesOneText
INVARIANT RepeatsRecognised
