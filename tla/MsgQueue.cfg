SPECIFICATION FairSpec
CONSTANTS NClients = 3
          ReplyRoom = 2
INVARIANTS SecondNewer FreshUnlessLeftover NobodyStranded IInv
PROPERTY EveryClientPrints ImplementsService
CHECK_DEADLOCK FALSE
