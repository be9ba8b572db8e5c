SPECIFICATION FairSpec
CONSTANTS MaxSize = 9
          Word = 8
          ReadMax = 6
          PipeRoom = 2
INVARIANTS IInv CountExact
PROPERTY BothEnd
CHECK_DEADLOCK FALSE
