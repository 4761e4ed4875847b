CONSTANTS
  p1 = p1
  p2 = p2
  p3 = p3
  Procs <- MCThree
  Updaters <- MCTwo
  Nobody = Nobody
  MaxDb = 2
SPECIFICATION Spec
INVARIANTS CleanHolder StatusCurrent
