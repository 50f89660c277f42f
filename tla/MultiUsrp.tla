------------------------------ MODULE MultiUsrp -----------------------------
(***************************************************************************)
(* The multi-board facade of multi_usrp.cpp: the channel resolver          *)
(* (rx_chan_to_mcp / tx_chan_to_mcp), the per-board and per-channel        *)
(* setters and their "all boards" / "all channels" fan-outs.               *)
(*                                                                         *)
(* The property tree is the state: per direction and board the subdevice  *)
(* spec (a sequence of entries, each a (db_name, sd_name) pair abstracted  *)
(* to a model value), per DSP the host rate, per RX DSP the last stream    *)
(* command, per subdevice node the antenna, per board the clock rate and   *)
(* clock config.  Board m's DSPs are 0 .. NumDsps-1 (its dsp name list).  *)
(* The device layer may accept any spec of at most MaxSpec entries, and    *)
(* the DSP coerces a requested rate to CoerceRate[rate].                   *)
(***************************************************************************)
EXTENDS Naturals, Sequences, FiniteSets

CONSTANTS
    NumMboards,   \* get_num_mboards()
    NumDsps,      \* size of each board's RX/TX DSP name list
    Entries,      \* subdevice spec entries (db_name, sd_name)
    MaxSpec,      \* longest spec the device layer accepts
    Rates,        \* requested host rates
    CoerceRate,   \* the rate a DSP achieves for a request
    Antennas,     \* antenna names
    ClockVals,    \* master clock rates and clock configs
    Cmds,         \* stream commands
    AllMboards,   \* ALL_MBOARDS
    AllChans,     \* ALL_CHANS
    NoCmd         \* no stream command issued yet

ASSUME FacadeAssumption ==
    /\ NumMboards \in Nat \ {0}
    /\ NumDsps \in Nat
    /\ MaxSpec \in Nat
    /\ CoerceRate \in [Rates -> Rates]
    /\ AllMboards \notin Nat /\ AllChans \notin Nat
    /\ NoCmd \notin Cmds
    /\ Rates # {} /\ Antennas # {} /\ ClockVals # {}   \* every node holds a value from the start

Boards  == 0 .. NumMboards - 1
Dsps    == 0 .. NumDsps - 1
Dirs    == {"RX", "TX"}
Specs   == UNION {[1 .. k -> Entries] : k \in 0 .. MaxSpec}
MaxChan == NumMboards * MaxSpec          \* flat indices the client may pass

VARIABLES
    spec,        \* spec[d][m]: MBOARD_PROP_RX/TX_SUBDEV_SPEC of board m
    rate,        \* rate[d][m][k]: DSP_PROP_HOST_RATE of DSP k of board m
    streamCmd,   \* streamCmd[m][k]: last DSP_PROP_STREAM_CMD of RX DSP k
    antenna,     \* antenna[d][m][e]: SUBDEV_PROP_ANTENNA of subdevice e of board m
    clockRate,   \* clockRate[m]: MBOARD_PROP_CLOCK_RATE
    clockConfig, \* clockConfig[m]: MBOARD_PROP_CLOCK_CONFIG
    failed,      \* whether the last facade call threw
    lastCall     \* history: the operation and arguments of the last call

vars == <<spec, rate, streamCmd, antenna, clockRate, clockConfig, failed, lastCall>>

-----------------------------------------------------------------------------
(* Channel resolution.                                                     *)

Sizes(d) == [m \in Boards |-> Len(spec[d][m])]

(* Variant: the loop breaks on mcp.chan <= sss.                           *)
ChanToMcpLe(sz, c) ==
    LET Iter[k \in 0 .. NumMboards] ==
            IF k = 0 THEN [mboard |-> 0, chan |-> c]
            ELSE LET s == Iter[k - 1] IN
                 IF s.mboard < NumMboards /\ s.chan > sz[s.mboard]
                 THEN [mboard |-> s.mboard + 1, chan |-> s.chan - sz[s.mboard]]
                 ELSE s
    IN Iter[NumMboards]

(* rx_chan_to_mcp / tx_chan_to_mcp (lines 488-508): walk the boards,      *)
(* subtracting each board's spec size until the index fits.  Iter[k] is    *)
(* the pair after k turns of the loop; a turn that breaks, or that starts  *)
(* with mboard = num_mboards, leaves it unchanged.                         *)
ChanToMcp(sz, c) ==
    LET Iter[k \in 0 .. NumMboards] ==
            IF k = 0 THEN [mboard |-> 0, chan |-> c]
            ELSE LET s == Iter[k - 1] IN
                 IF s.mboard < NumMboards /\ s.chan >= sz[s.mboard]
                 THEN [mboard |-> s.mboard + 1, chan |-> s.chan - sz[s.mboard]]
                 ELSE s
    IN Iter[NumMboards]

(* get_rx_num_channels / get_tx_num_channels (lines 285-291, 395-401).     *)
NumChannels(sz) ==
    LET Cum[k \in 0 .. NumMboards] ==
            IF k = 0 THEN 0 ELSE Cum[k - 1] + sz[k - 1]
    IN Cum[NumMboards]

Mcp(d, c) == ChanToMcp(Sizes(d), c)

(* _rx_dsp / _tx_dsp (lines 514-523): _mboard's names.at(mboard) and      *)
(* dsp_names.at(chan) throw out_of_range past the end.                     *)
DspOk(d, c) == Mcp(d, c).mboard < NumMboards /\ Mcp(d, c).chan < NumDsps

(* _rx_subdev / _tx_subdev (lines 534-543): the spec entry of the channel. *)
SubdevOk(d, c) == Mcp(d, c).mboard < NumMboards

SubdevOf(d, c) == spec[d][Mcp(d, c).mboard][Mcp(d, c).chan + 1]

OtherCall == [op |-> "other", dir |-> "RX", val |-> CHOOSE r \in Rates : TRUE, chan |-> 0]

-----------------------------------------------------------------------------
Init ==
    /\ spec \in [Dirs -> [Boards -> Specs]]
    /\ rate = [d \in Dirs |-> [m \in Boards |-> [k \in Dsps |-> CHOOSE r \in Rates : TRUE]]]
    /\ streamCmd = [m \in Boards |-> [k \in Dsps |-> NoCmd]]
    /\ antenna = [d \in Dirs |-> [m \in Boards |-> [e \in Entries |-> CHOOSE a \in Antennas : TRUE]]]
    /\ clockRate = [m \in Boards |-> CHOOSE v \in ClockVals : TRUE]
    /\ clockConfig = [m \in Boards |-> CHOOSE v \in ClockVals : TRUE]
    /\ failed = FALSE
    /\ lastCall = OtherCall

Called(ok) == failed' = ~ok /\ lastCall' = OtherCall

(* A per-board setter: a single board, or every board in turn.  The board  *)
(* index of a single call is one the client passes; past the end,          *)
(* names.at() throws.                                                      *)
BoardsOf(mb) == IF mb = AllMboards THEN Boards ELSE {mb} \cap Boards
BoardOk(mb)  == mb = AllMboards \/ mb \in Boards

SetBoardProp(f, v, mb) == [m \in Boards |-> IF m \in BoardsOf(mb) THEN v ELSE f[m]]

(* set_master_clock_rate (lines 97-105).                                   *)
SetMasterClockRate(v, mb) ==
    /\ clockRate' = SetBoardProp(clockRate, v, mb)
    /\ Called(BoardOk(mb))
    /\ UNCHANGED <<spec, rate, streamCmd, antenna, clockConfig>>

(* set_clock_config (lines 242-250).                                       *)
SetClockConfig(v, mb) ==
    /\ clockConfig' = SetBoardProp(clockConfig, v, mb)
    /\ Called(BoardOk(mb))
    /\ UNCHANGED <<spec, rate, streamCmd, antenna, clockRate>>

(* Variant: a spec set appends to the board's spec instead of replacing.  *)
SetSubdevSpecAppend(d, s, mb) ==
    /\ spec' = [spec EXCEPT ![d] = [m \in Boards |->
                    IF m \in BoardsOf(mb) THEN spec[d][m] \o s ELSE spec[d][m]]]
    /\ Called(BoardOk(mb))
    /\ UNCHANGED <<rate, streamCmd, antenna, clockRate, clockConfig>>

(* set_rx_subdev_spec / set_tx_subdev_spec (lines 271-279, 377-385).       *)
SetSubdevSpec(d, s, mb) ==
    /\ spec' = [spec EXCEPT ![d] = SetBoardProp(spec[d], s, mb)]
    /\ Called(BoardOk(mb))
    /\ UNCHANGED <<rate, streamCmd, antenna, clockRate, clockConfig>>
SetRxSubdevSpec(s, mb) == SetSubdevSpec("RX", s, mb)
SetTxSubdevSpec(s, mb) == SetSubdevSpec("TX", s, mb)

(* The fan-out over channels 0 .. num_channels-1 of a per-channel DSP      *)
(* setter: the first channel whose DSP lookup throws ends the loop, and    *)
(* the channels before it keep what was written.  A single channel c is    *)
(* the same loop over {c}.                                                 *)
ChansOf(d, c) == IF c = AllChans THEN 0 .. NumChannels(Sizes(d)) - 1 ELSE {c}
FirstBad(d, c) ==
    LET bad == {x \in ChansOf(d, c) : ~DspOk(d, x)}
    IN IF bad = {} THEN MaxChan + 1 ELSE CHOOSE x \in bad : \A y \in bad : x <= y
Written(d, c) == {x \in ChansOf(d, c) : x < FirstBad(d, c)}
WrittenDsps(d, c) == {<<Mcp(d, x).mboard, Mcp(d, x).chan>> : x \in Written(d, c)}

(* set_rx_rate / set_tx_rate (lines 297-306, 403-412): write the host rate *)
(* (the DSP achieves CoerceRate[r]), then read it back for the warning.    *)
SetRate(d, r, c) ==
    /\ rate' = [rate EXCEPT ![d] = [m \in Boards |-> [k \in Dsps |->
                    IF <<m, k>> \in WrittenDsps(d, c) THEN CoerceRate[r] ELSE rate[d][m][k]]]]
    /\ failed' = ~(FirstBad(d, c) > MaxChan)
    /\ lastCall' = [op |-> "set_rate", dir |-> d, val |-> r, chan |-> c]
    /\ UNCHANGED <<spec, streamCmd, antenna, clockRate, clockConfig>>
SetRxRate(r, c) == SetRate("RX", r, c)
SetTxRate(r, c) == SetRate("TX", r, c)

(* issue_stream_cmd (lines 232-240): RX DSPs only.                         *)
IssueStreamCmd(cmd, c) ==
    /\ streamCmd' = [m \in Boards |-> [k \in Dsps |->
                    IF <<m, k>> \in WrittenDsps("RX", c) THEN cmd ELSE streamCmd[m][k]]]
    /\ Called(FirstBad("RX", c) > MaxChan)
    /\ UNCHANGED <<spec, rate, antenna, clockRate, clockConfig>>

OtherDir(d) == IF d = "RX" THEN "TX" ELSE "RX"

(* Variant: set_rx_antenna writes through _tx_subdev (and vice versa).    *)
SetAntennaOtherDir(d, a, c) ==
    /\ antenna' = IF SubdevOk(d, c) /\ SubdevOk(OtherDir(d), c)
                  THEN [antenna EXCEPT ![OtherDir(d)][Mcp(OtherDir(d), c).mboard]
                                         [SubdevOf(OtherDir(d), c)] = a]
                  ELSE antenna
    /\ failed' = ~SubdevOk(d, c)
    /\ lastCall' = [op |-> "set_antenna", dir |-> d, val |-> a, chan |-> c]
    /\ UNCHANGED <<spec, rate, streamCmd, clockRate, clockConfig>>

(* set_rx_antenna / set_tx_antenna (lines 342-344, 448-450): one channel.  *)
SetAntenna(d, a, c) ==
    /\ antenna' = IF SubdevOk(d, c)
                  THEN [antenna EXCEPT ![d][Mcp(d, c).mboard][SubdevOf(d, c)] = a]
                  ELSE antenna
    /\ failed' = ~SubdevOk(d, c)
    /\ lastCall' = [op |-> "set_antenna", dir |-> d, val |-> a, chan |-> c]
    /\ UNCHANGED <<spec, rate, streamCmd, clockRate, clockConfig>>
SetRxAntenna(a, c) == SetAntenna("RX", a, c)
SetTxAntenna(a, c) == SetAntenna("TX", a, c)

ChanArgs == (0 .. MaxChan) \cup {AllChans}
BoardArgs == (0 .. NumMboards) \cup {AllMboards}

Next ==
    \/ \E v \in ClockVals, mb \in BoardArgs : SetMasterClockRate(v, mb)
    \/ \E v \in ClockVals, mb \in BoardArgs : SetClockConfig(v, mb)
    \/ \E s \in Specs, mb \in BoardArgs : SetRxSubdevSpec(s, mb) \/ SetTxSubdevSpec(s, mb)
    \/ \E r \in Rates, c \in ChanArgs : SetRxRate(r, c) \/ SetTxRate(r, c)
    \/ \E cmd \in Cmds, c \in ChanArgs : IssueStreamCmd(cmd, c)
    \/ \E a \in Antennas, c \in 0 .. MaxChan : SetRxAntenna(a, c) \/ SetTxAntenna(a, c)

Spec == Init /\ [][Next]_vars

-----------------------------------------------------------------------------
TypeOK ==
    /\ spec \in [Dirs -> [Boards -> Specs]]
    /\ rate \in [Dirs -> [Boards -> [Dsps -> Rates]]]
    /\ streamCmd \in [Boards -> [Dsps -> Cmds \cup {NoCmd}]]
    /\ antenna \in [Dirs -> [Boards -> [Entries -> Antennas]]]
    /\ clockRate \in [Boards -> ClockVals]
    /\ clockConfig \in [Boards -> ClockVals]
    /\ failed \in BOOLEAN
    /\ lastCall \in [op : {"set_rate", "set_antenna", "other"}, dir : Dirs,
                     val : Rates \cup Antennas, chan : (0 .. MaxChan) \cup {AllChans}]

(* The antenna a client reads through channel c: get_rx/tx_antenna.       *)
AntennaOf(d, c) == antenna[d][Mcp(d, c).mboard][SubdevOf(d, c)]
AntennaAfter(d, c) == antenna'[d][Mcp(d, c).mboard][SubdevOf(d, c)]

(* An antenna set through channel c is read back through c, and through    *)
(* exactly the other channels that resolve to the same subdevice node (a   *)
(* spec may name one subdevice twice); every other channel keeps its       *)
(* antenna.  A channel past the end throws and changes nothing.            *)
AntennaSetReachesSubdev ==
    [][lastCall'.op = "set_antenna" =>
          LET d == lastCall'.dir
              c == lastCall'.chan
          IN /\ failed' = (c \notin 0 .. NumChannels(Sizes(d)) - 1)
             /\ \A x \in 0 .. NumChannels(Sizes(d)) - 1 :
                   AntennaAfter(d, x) =
                       IF ~failed' /\ Mcp(d, x).mboard = Mcp(d, c).mboard
                                   /\ SubdevOf(d, x) = SubdevOf(d, c)
                       THEN lastCall'.val ELSE AntennaOf(d, x)]_vars

(* Spec 7: configuration and invalid-reference errors abort the fan-out    *)
(* with no partial application.  The loops of lines 303-305 and 409-411    *)
(* have already written the channels before the failing one.               *)
FanOutAllOrNothing ==
    [][(lastCall'.op = "set_rate" /\ lastCall'.chan = AllChans /\ failed') =>
          rate' = rate]_vars

-----------------------------------------------------------------------------
(* get_pp_string's channel loops (lines 128-141, 144-157): chan carries    *)
(* over from board to board, but the bound is (m+1) * size(m).             *)
PpChans(sz) ==
    LET Iter[k \in 0 .. NumMboards] ==
            IF k = 0 THEN [next |-> 0, listed |-> {}]
            ELSE LET s   == Iter[k - 1]
                     top == k * sz[k - 1]
                 IN IF s.next < top
                    THEN [next |-> top, listed |-> s.listed \cup (s.next .. top - 1)]
                    ELSE s
    IN Iter[NumMboards].listed

(* get_pp_string lists every channel once and every channel it lists       *)
(* resolves (for any per-board channel counts, spec 2).  The bound         *)
(* (m+1)*size(m) equals the running total only when all boards have the   *)
(* same count: otherwise channels are skipped, or an index past the last   *)
(* channel reaches _mboard(num_mboards) and names.at() throws.             *)
PpStringListsChannels ==
    \A d \in Dirs :
        /\ PpChans(Sizes(d)) = 0 .. NumChannels(Sizes(d)) - 1
=============================================================================
