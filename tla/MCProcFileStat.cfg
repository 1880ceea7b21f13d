\* A write against opens and stats of the same file.
SPECIFICATION Spec
CONSTANTS
  q1 = q1 q2 = q2 s1 = s1
  Procs <- TwoProcs
  Statters <- OneStatter
  Chunks <- SomeChunks
  MaxText = 3
  Default = 12
  Counts = {1, 2}
  Modulus = 32
SYMMETRY Symmetry
PROPERTY WriteTakesEffect
