CONSTANTS
    NumMboards = 2
    NumDsps = 1
    MaxSpec = 2
    e1 = e1
    e2 = e2
    a1 = a1
    a2 = a2
    s1 = s1
    Entries <- MCEntries2
    Rates <- MCOneRate
    CoerceRate <- MCOneCoerce
    Antennas <- MCAntennas2
    ClockVals <- MCClocks
    Cmds <- MCCmds
    AllMboards = AllMboards
    AllChans = AllChans
    NoCmd = NoCmd
    Specs <- MCBoardSpecs

VIEW MCDeviceView
SPECIFICATION Spec
PROPERTY AntennaSetReachesSubdev
