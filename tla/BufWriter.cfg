CONSTANTS
    Size = 2
    MaxBytes = 7
    Lengths <- MCLengths
SPECIFICATION WrFairSpec
INVARIANT OutputExact
PROPERTY StickyError
PROPERTY WriterReturns
