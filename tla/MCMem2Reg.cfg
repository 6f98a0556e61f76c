SPECIFICATION Spec
CONSTANTS
  Block = {b1, b2, b3, b4}
  Entry = b1
  x = x
  y = y
  t = t
  Var = {x, y, t}
  Codes <- MCCodes
  NoBlock = nil
  NoName = none
SYMMETRY Symmetry
INVARIANTS DominatesIsDominance LoadsKeepTheirValue StacksAreScoped
PROPERTY OnlyClimbs
CHECK_DEADLOCK FALSE
