\* Two processes and a statter on one stored setting.
SPECIFICATION Spec
CONSTANTS
  q1 = q1 q2 = q2 s1 = s1
  Procs <- TwoProcs
  Statters <- OneStatter
  Chunks <- SomeChunks
  MaxText = 4
  Default = 12
  Counts = {1, 2}
  Modulus = 32
SYMMETRY Symmetry
INVARIANTS TypeOK OwnText UnwrittenShowsSetting ReadsSetting
  CopyKeepsSetting
PROPERTY OwnTextTakesEffect
