SPECIFICATION FairSpec
CONSTANT SIZE = 5
INVARIANTS PrintedWhole IInv
PROPERTIES ImplementsPasses LinesKeepComing
