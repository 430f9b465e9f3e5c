\* Two writers that share the temporary file, and a reader; a file each can have open, one
\* under each name.
CONSTANTS
  v1 = v1
  v2 = v2
  w1 = w1
  w2 = w2
  t1 = t1
  i1 = i1
  i2 = i2
  i3 = i3
  i4 = i4
  i5 = i5
  Nothing = Nothing
  Values = {v1, v2}
  Writers = {w1, w2}
  Readers = {t1}
  Inodes = {i1, i2, i3, i4, i5}
  MaxCrashes = 2
SPECIFICATION Spec
SYMMETRY Symmetry
INVARIANTS
  MetaIsSettled
PROPERTIES
  ImplementsAtomicFile
