\* SIGKILL and SIGCHLD (20 on the host), two threads; a mask with a signal the host
\* does not have.
CONSTANTS
  Threads = {t1, t2}
  Signals = {9, 17}
  Handlers = {h1}
  Masks = {{16, 17}}
  Asks <- MCAsks
  DFL = DFL
  IGN = IGN
SYMMETRY Symmetry
SPECIFICATION Spec
INVARIANT DispositionsAgree
INVARIANT CleanDelivery
