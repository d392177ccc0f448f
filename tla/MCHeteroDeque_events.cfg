SPECIFICATION Spec
CONSTANTS
  a = a  b = b  c = c
  Nil = Nil
  Body = Body
  Element = {a, b, c}
  Width <- Widths
  Size = 11
INVARIANTS TypeOK LinksAreSound
PROPERTIES PushesLikeDequePush PushesBySpace
