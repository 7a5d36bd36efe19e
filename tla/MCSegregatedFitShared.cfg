CONSTANTS
  Threads = {t1, t2}
  Nobody = Nobody
  Mode = 2
  Size = 16
  NumClasses = 3
  Lengths = {2, 3}
SPECIFICATION Spec
SYMMETRY Perms
INVARIANT ItemsApart
