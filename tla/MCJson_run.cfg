SPECIFICATION Spec
CONSTANTS
    IntBits = 7
    Precision = 5
    MinExp <- MCMinExp
    Exponents2 = 12
    DiyBits = 14
    Alpha <- MCAlpha
    Gamma <- MCGamma
    MinDec <- MCMinDec
    DecStep = 1
    BufferSize = 16
    Inputs <- MCInputs
    Dumps <- MCDumps
    DocBytes <- MCDocBytes
    Binaries <- MCBinaries
    Cuts <- MCCuts
INVARIANT ParserAcceptsJson
INVARIANT DumpIsRead
INVARIANT BinaryIsRead
CHECK_DEADLOCK FALSE
