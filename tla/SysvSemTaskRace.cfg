SPECIFICATION Spec
CONSTANTS SIZE = 2
          SEMVMX = 2
INVARIANT OneAtATime
CHECK_DEADLOCK FALSE
