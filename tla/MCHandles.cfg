\* Two threads, two files, four opens, contexts allocated at reused addresses.
SPECIFICATION Spec
CONSTANTS
  t1 = t1 t2 = t2 f1 = f1 f2 = f2 x1 = x1 a1 = a1 a2 = a2
  NoProc = NoProc Null = Null
  Threads <- TwoThreads
  Files <- TwoFiles
  Procs <- OneProc
  Addresses <- TwoAddresses
  MaxOpens = 4
SYMMETRY Symmetry
INVARIANTS TypeOK NoDangling ServedByItsOpen HandlesDiffer NoContextLeft
