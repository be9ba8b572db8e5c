SPECIFICATION FairSpec
CONSTANTS SIZE = 3
          SEMVMX = 1
          CommandLines <- SomeCommandLines
INVARIANTS IInv AllStarted ReadersSeeWhole SoundUntilMisread
PROPERTIES ImplementsObject LocksReturned
