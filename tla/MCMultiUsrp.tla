---------------------------- MODULE MCMultiUsrp -----------------------------
(* Model-checking instance of MultiUsrp: two boards with one DSP each, so  *)
(* a spec of two entries puts a channel on a missing DSP; specs of up to   *)
(* two entries; a DSP that achieves rate 2 for either request.  A second  *)
(* instance, for the per-board and antenna setters, has two clock values, *)
(* two antennas and one rate.                                              *)
(* The reference channel layout is the concatenation, board by board, of  *)
(* each board's spec positions: the numbering contract of spec 3.          *)
EXTENDS MultiUsrp, SequencesExt

CONSTANTS e1, e2, a1, a2, s1

MCEntries  == {e1}
MCRates    == {1, 2}
MCCoerce   == (1 :> 2) @@ (2 :> 2)
MCAntennas == {a1}
MCClocks   == {0}
MCCmds     == {s1}

MCOneRate   == {1}
MCOneCoerce == 1 :> 1
MCAntennas2 == {a1, a2}
MCClocks2   == {0, 1}
MCEntries2  == {e1, e2}

(* The specs the device accepts in the antenna run: an empty board, two    *)
(* distinct subdevices, and one subdevice named twice.                     *)
MCBoardSpecs == {<<>>, <<e1, e2>>, <<e2, e2>>}

(* failed and lastCall record the last call and no action reads them, so  *)
(* two states that differ only there have the same futures; the antenna   *)
(* property reads only their values after a step.                          *)
MCDeviceView == <<spec, rate, streamCmd, antenna, clockRate, clockConfig>>

(* The flat channel list: <<board, position>> for board 0's entries, then *)
(* board 1's, and so on.                                                   *)
Layout(sz) ==
    FlattenSeq([j \in 1 .. NumMboards |->
                   [i \in 1 .. sz[j - 1] |-> <<j - 1, i - 1>>]])

(* The channel resolver agrees with the numbering contract: index c below  *)
(* the total names the c-th entry of the layout, any larger index resolves *)
(* past the last board (where the indexed access throws), and the channel  *)
(* count is the layout's length.                                           *)
ResolverMatchesLayout ==
    \A d \in Dirs :
        LET L == Layout(Sizes(d)) IN
        /\ NumChannels(Sizes(d)) = Len(L)
        /\ \A c \in 0 .. MaxChan :
              IF c < Len(L)
              THEN Mcp(d, c) = [mboard |-> L[c + 1][1], chan |-> L[c + 1][2]]
              ELSE Mcp(d, c).mboard = NumMboards
=============================================================================
