CONSTANTS
    IdNone = IdNone
    IdBasicTx = IdBasicTx
    IdBasicRx = IdBasicRx
    ExtIds = {idX}
    BasicTxMake = BasicTxMake
    BasicRxMake = BasicRxMake
    xcvrMake = xcvrMake
    ExtCtors <- MCExtCtors
    NmEmpty = NmEmpty
    NmA = NmA
    NmB = NmB
    NmAB = NmAB
    nmX = nmX
    ExtNames <- MCExtNames
    ExtRegs <- MCExtRegs
    NoCtor = NoCtor
    NoNames = NoNames
    NoProxy = NoProxy
    Mboards = {mb0}
    Vals <- MCVals
    V0 = "v0"
VIEW MCClientView
SPECIFICATION Spec
INVARIANT TypeOK Resolvable ExternalOverrideWins TransceiverCoherent SeparateCtorsIsolated
PROPERTY ImplementsContract
