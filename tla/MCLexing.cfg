SPECIFICATION Spec
CONSTANTS
    Words <- MCWords
    Capital <- MCCapital
    MaxInt = 1000
    MaxChar = 63
    Surrogates = {40, 41, 42, 43, 44, 45, 46, 47}
    Sources <- MCSources
    Numbers <- MCNumbers
    Features = {"p", "q"}
INVARIANTS  NumbersExact
CHECK_DEADLOCK FALSE
