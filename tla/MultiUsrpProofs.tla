--------------------------- MODULE MultiUsrpProofs --------------------------
(***************************************************************************)
(* Type correctness of the multi-board facade.  Every setter writes a      *)
(* value of the node's type wherever the channel resolver sends it, so the *)
(* proof needs no fact about what ChanToMcp computes.                      *)
(***************************************************************************)
EXTENDS MultiUsrp, TLAPS

LEMMA FacadeInit == Init => TypeOK
  <1> SUFFICES ASSUME Init PROVE TypeOK
    OBVIOUS
  <1> USE FacadeAssumption
  <1>1. (CHOOSE r \in Rates : TRUE) \in Rates
        /\ (CHOOSE a \in Antennas : TRUE) \in Antennas
        /\ (CHOOSE v \in ClockVals : TRUE) \in ClockVals
    OBVIOUS
  <1>2. OtherCall \in [op : {"set_rate", "set_antenna", "other"}, dir : Dirs,
                       val : Rates \cup Antennas, chan : (0 .. MaxChan) \cup {AllChans}]
    BY <1>1 DEF OtherCall, Dirs, MaxChan
  <1> QED
    BY <1>1, <1>2 DEF Init, TypeOK

(* The values lastCall may record.                                        *)
CallT == [op : {"set_rate", "set_antenna", "other"}, dir : Dirs,
          val : Rates \cup Antennas, chan : (0 .. MaxChan) \cup {AllChans}]

LEMMA OtherCallType == OtherCall \in CallT
  BY FacadeAssumption DEF OtherCall, CallT, Dirs, MaxChan

(* A per-board setter writes v on the boards it names and keeps the rest.  *)
LEMMA BoardPropType ==
    ASSUME NEW S, NEW f \in [Boards -> S], NEW v \in S, NEW mb
    PROVE  SetBoardProp(f, v, mb) \in [Boards -> S]
  BY DEF SetBoardProp

LEMMA ClockType ==
    ASSUME TypeOK, NEW v \in ClockVals, NEW mb,
           SetMasterClockRate(v, mb) \/ SetClockConfig(v, mb)
    PROVE  TypeOK'
  <1>0. SetBoardProp(clockRate, v, mb) \in [Boards -> ClockVals]
        /\ SetBoardProp(clockConfig, v, mb) \in [Boards -> ClockVals]
    BY BoardPropType DEF TypeOK
  <1>1. clockRate' \in [Boards -> ClockVals] /\ clockConfig' \in [Boards -> ClockVals]
    BY <1>0 DEF TypeOK, SetMasterClockRate, SetClockConfig
  <1>2. failed' \in BOOLEAN /\ lastCall' \in CallT
    BY OtherCallType DEF SetMasterClockRate, SetClockConfig, Called
  <1> QED
    BY <1>1, <1>2 DEF TypeOK, CallT, SetMasterClockRate, SetClockConfig

LEMMA SpecType ==
    ASSUME TypeOK, NEW s \in Specs, NEW mb, NEW d \in Dirs, SetSubdevSpec(d, s, mb)
    PROVE  TypeOK'
  <1>1. spec' \in [Dirs -> [Boards -> Specs]]
    <2>1. spec[d] \in [Boards -> Specs]
      BY DEF TypeOK
    <2>2. SetBoardProp(spec[d], s, mb) \in [Boards -> Specs]
      BY <2>1, BoardPropType
    <2> QED
      BY <2>2 DEF TypeOK, SetSubdevSpec
  <1>2. failed' \in BOOLEAN /\ lastCall' \in CallT
    BY OtherCallType DEF SetSubdevSpec, Called
  <1> QED
    BY <1>1, <1>2 DEF TypeOK, CallT, SetSubdevSpec

LEMMA RateType ==
    ASSUME TypeOK, NEW r \in Rates, NEW c \in ChanArgs, NEW d \in Dirs, SetRate(d, r, c)
    PROVE  TypeOK'
  <1>1. CoerceRate[r] \in Rates
    BY FacadeAssumption
  <1>2. rate' \in [Dirs -> [Boards -> [Dsps -> Rates]]]
    BY <1>1 DEF TypeOK, SetRate
  <1>3. lastCall' \in CallT
    BY DEF SetRate, CallT, ChanArgs
  <1> QED
    BY <1>2, <1>3 DEF TypeOK, CallT, SetRate

LEMMA CmdType ==
    ASSUME TypeOK, NEW cmd \in Cmds, NEW c, IssueStreamCmd(cmd, c)
    PROVE  TypeOK'
  <1>1. streamCmd' \in [Boards -> [Dsps -> Cmds \cup {NoCmd}]]
    BY DEF TypeOK, IssueStreamCmd
  <1>2. failed' \in BOOLEAN /\ lastCall' \in CallT
    BY OtherCallType DEF IssueStreamCmd, Called
  <1> QED
    BY <1>1, <1>2 DEF TypeOK, CallT, IssueStreamCmd

(* An antenna set writes one subdevice node of one board, if any.         *)
LEMMA AntennaType ==
    ASSUME TypeOK, NEW a \in Antennas, NEW c \in 0 .. MaxChan, NEW d \in Dirs,
           SetAntenna(d, a, c)
    PROVE  TypeOK'
  <1>1. antenna' \in [Dirs -> [Boards -> [Entries -> Antennas]]]
    BY DEF TypeOK, SetAntenna
  <1>2. lastCall' \in CallT
    BY DEF SetAntenna, CallT
  <1> QED
    BY <1>1, <1>2 DEF TypeOK, CallT, SetAntenna

LEMMA FacadeStep == TypeOK /\ [Next]_vars => TypeOK'
  <1> SUFFICES ASSUME TypeOK, [Next]_vars PROVE TypeOK'
    OBVIOUS
  <1>1. CASE \E v \in ClockVals, mb \in BoardArgs : SetMasterClockRate(v, mb)
    BY <1>1, ClockType
  <1>2. CASE \E v \in ClockVals, mb \in BoardArgs : SetClockConfig(v, mb)
    BY <1>2, ClockType
  <1>3. CASE \E s \in Specs, mb \in BoardArgs : SetRxSubdevSpec(s, mb) \/ SetTxSubdevSpec(s, mb)
    BY <1>3, SpecType DEF SetRxSubdevSpec, SetTxSubdevSpec, Dirs
  <1>4. CASE \E r \in Rates, c \in ChanArgs : SetRxRate(r, c) \/ SetTxRate(r, c)
    BY <1>4, RateType DEF SetRxRate, SetTxRate, Dirs
  <1>5. CASE \E cmd \in Cmds, c \in ChanArgs : IssueStreamCmd(cmd, c)
    BY <1>5, CmdType
  <1>6. CASE \E a \in Antennas, c \in 0 .. MaxChan : SetRxAntenna(a, c) \/ SetTxAntenna(a, c)
    BY <1>6, AntennaType DEF SetRxAntenna, SetTxAntenna, Dirs
  <1>7. CASE UNCHANGED vars
    BY <1>7 DEF vars, TypeOK
  <1> QED
    BY <1>1, <1>2, <1>3, <1>4, <1>5, <1>6, <1>7 DEF Next

(* Every reachable state of the facade's property tree is well typed: the  *)
(* setters of multi_usrp.cpp (lines 97-450) write a value of each node's   *)
(* type, and a lookup past the end of a board's spec leaves the antennas   *)
(* alone, for any number of boards, DSPs, entries and values.              *)
THEOREM FacadeTypeCorrect == Spec => []TypeOK
  BY FacadeInit, FacadeStep, PTL DEF Spec

=============================================================================
