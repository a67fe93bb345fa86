\* Two calls; the second meets the watcher of the first.
SPECIFICATION Spec
CONSTANTS
  Calls = {k1, k2}
  Texts = {t1}
INVARIANT
  InterruptsItsOwn
\* A session that is closed takes no call.
CHECK_DEADLOCK FALSE
