CONSTANTS
  Brokers = {b1, b2, b3}
  Owners = {b1}
  Mortal = {b1, b2}
  Delay = 1
SPECIFICATION Spec
CHECK_DEADLOCK FALSE
INVARIANT BirthSpares
