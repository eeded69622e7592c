SPECIFICATION Spec
CONSTANTS
    Call = {c1}
    MaxUser = 1
    Released <- AllOrNone
PROPERTY LowScoreMeansBusy
