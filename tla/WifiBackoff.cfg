CONSTANT MaxLosses = 8
SPECIFICATION Spec
INVARIANT DocumentedBackoff
