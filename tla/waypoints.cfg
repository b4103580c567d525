CONSTANTS
  WP = {home, stdby}
  Global = {home}
  Place <- Diagonal
  Offset <- AtOrigin
  Reach = {0, 1}
SPECIFICATION Spec
INVARIANT GlobalsStayInPlace
