\* Two threads, two slots, three host keys (one may be on its way out while
\* both slots are in use again) and two values beside NULL.
CONSTANTS
  Threads = {t1, t2}
  MaxKeys = 2
  HostKeys = {h1, h2, h3}
  Values = {v1, v2}
  Dtors = {d1, d2}
  NULL = NULL
SYMMETRY Symmetry
SPECIFICATION Spec
INVARIANT KeysInv
PROPERTY ImplementsTls
