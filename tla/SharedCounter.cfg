\* The four threads of main; two turns of the loop are enough for a store to
\* undo several others.
SPECIFICATION CounterSpec
CONSTANTS
  Threads = {tidA, tidB, tidC, tidD}
  NLOOP = 2
PROPERTIES EachStoreAddsOne
\* The program ends.
CHECK_DEADLOCK FALSE
