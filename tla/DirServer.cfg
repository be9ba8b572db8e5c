SPECIFICATION FairSpec
CONSTANTS NClients = 3
          Asks <- AsksOfThree
          NProcs = 4
          FdRoom = 2
INVARIANTS ResponseExact ServiceRemains NobodyAbandoned IInv
PROPERTY EveryClientAnswered
CHECK_DEADLOCK FALSE
