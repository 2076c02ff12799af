CONSTANT Times <- MCTimes
SPECIFICATION Spec
INVARIANT ReadsBack
