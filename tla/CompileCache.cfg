SPECIFICATION Spec
CONSTANTS
  Procs = {p1, p2}
  Texts = {t1, t2}
INVARIANTS TypeOK Current
SYMMETRY Symmetry
