SPECIFICATION Spec
CONSTANTS
  pa = pa
  pb = pb
  pc = pc
  q1 = q1
  q2 = q2
  Procs = {q1, q2}
  Pkgs = {pa, pb, pc}
  Deps <- Diamond
  FileCount <- FewFiles
  Loads <- BothLoads
INVARIANTS RecordedIsComplete
PROPERTIES DepsFirst StepwiseDb CommandEnds
