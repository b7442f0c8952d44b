SPECIFICATION Spec
CONSTANT MaxRound = 2
INVARIANT LastUpdateTrue
