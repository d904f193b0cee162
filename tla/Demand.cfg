SPECIFICATION Spec
CONSTANTS
    Coeffs <- MCCoeffs
    Counters <- MCCounters
    Usages <- MCUsages
    Word = word
    Text = text
    Number = number
    None = none
    a = a
    b = b
    MaxConstraints = 2
INVARIANT PricesAreRead
INVARIANT PriceModelIsKnown
INVARIANT NoRoundTrip
INVARIANT DecorationIsHollow
CHECK_DEADLOCK FALSE
