CONSTANTS
  Attempts = {a1, a2, a3}
  Groups = {g1, g2}
  Nobody = Nobody
  Limit = 2
SPECIFICATION Spec
PROPERTIES
  AlwaysAnswered
CHECK_DEADLOCK FALSE
