CONSTANTS
    IdNone = IdNone
    IdBasicTx = IdBasicTx
    IdBasicRx = IdBasicRx
    ExtIds = {}
    BasicTxMake = BasicTxMake
    BasicRxMake = BasicRxMake
    xcvrMake = xcvrMake
    ExtCtors <- MCExtCtors
    NmEmpty = NmEmpty
    NmA = NmA
    NmB = NmB
    NmAB = NmAB
    nmX = nmX
    ExtNames <- MCExtNames
    ExtRegs = {}
    NoCtor = NoCtor
    NoNames = NoNames
    NoProxy = NoProxy
    Mboards = {mb0}
    Vals <- MCVals
    V0 = "v0"
SPECIFICATION Spec
INVARIANT EntryPerId
