CONSTANTS
  Scalars = {"temperature"}
  Order <- OneScalar
  Stale = 2
  Wrap = 3
  MaxTime = 3
  buf_len = 7
  Lengths = {1, 6}
SPECIFICATION JsonSpec
INVARIANTS TypeOK NotTorn FreshOnly FreshKept InBuffer TextWhole
PROPERTY ReadsAreSnapshots
