\* Two items (one e-mail), two cycles, one clerk, one to three upsets.
CONSTANTS
  Channels = {"webhook", "email", "teams", "scim", "receipt"}
  Items = {i1, i2}
  Room <- MCRoom
  Workers = {w1, w2}
  Clerks = {c1}
  Limit = 2
  MaxUpsets <- MCMaxUpsets
  None = None
SPECIFICATION Spec
SYMMETRY Symmetry
INVARIANTS
  TypeOK
  AttemptBudget
PROPERTIES
  KeepsPromise
  CallsAreCurrent
CHECK_DEADLOCK FALSE
