\* Three threads, capacities 0 to 3, two waiting priorities, four tokens.
CONSTANTS
  t1 = t1  t2 = t2  t3 = t3
  m1 = m1  m2 = m2  m3 = m3 m4 = m4
  Thread = {t1, t2, t3}
  Msg = {m1, m2, m3, m4}
  Priority = {1, 2}
  MaxCapacity = 3
  NoMsg = NoMsg
SYMMETRY ThreadSymmetry
SPECIFICATION Spec
INVARIANTS RingSound
PROPERTIES NoSilentLoss ServedInOrder ImplementsDeque
