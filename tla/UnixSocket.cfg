SPECIFICATION FairSpec
CONSTANTS NServers = 2
          NClients = 2
          Backlog = 0
INVARIANTS PrintedFresh ConnectionHeldOnce IInv
PROPERTY EveryClientEnds ImplementsService
CHECK_DEADLOCK FALSE
