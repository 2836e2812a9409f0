\* A pasted private key that the form no longer shows.
SPECIFICATION Spec
CONSTANTS
  Rows = {i1, i2}
  i1 = i1
  i2 = i2
  New = New
  Nothing = Nothing
SYMMETRY Symmetry
INVARIANT StoredKeyIsKept
