\* Three callers of one once word: one winner, one loser of the exchange, one
\* caller that arrives while the initialiser runs or after it.
CONSTANT Callers = {t1, t2, t3}
SPECIFICATION FairSpec
INVARIANT OnceInv
PROPERTY ImplementsOnce
PROPERTY EveryCallerReturns
