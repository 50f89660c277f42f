------------------------- MODULE TimeSyncRefinement -------------------------
(***************************************************************************)
(* TimeSync implements TimeSyncContract under StageView and VerdictView,   *)
(* for every number of boards, offsets and phases that satisfy RefTiming. *)
(* Every step maps to a step of the contract or to a stutter; the facts   *)
(* each one needs come from the invariants proved in TimeSyncProofs, in   *)
(* the state after the step as well as before it.                          *)
(***************************************************************************)
EXTENDS TimeSyncProofs, TLAPS

(* The refinement rests on all three timing hypotheses: no value pending  *)
(* from an earlier call, the poll and arm loops within a period and the    *)
(* sleep at least one (SyncTiming), host gaps within the 10 ms tolerance   *)
(* (VerifyTiming), and the 1.1 s timeout longer than a period and two     *)
(* gaps (NoStaleTiming).  The real values (1 s, 1.1 s, 10 ms, accesses of  *)
(* well under a millisecond) satisfy them.                                 *)
RefTiming == VerifyTiming /\ NoStaleTiming

(* The invariants of TimeSyncProofs the mapping needs, in both states.     *)
RefInv == TInv /\ EdgeInv /\ ClockInv /\ SyncInv /\ NoPpsInv /\ VerifyInv

(* A tick moves only the clocks of boards with the PPS.                    *)
LEMMA TickNoPps == TInv /\ Tick => \A m \in Boards : ~ppsOn[m] => off'[m] = off[m]
  <1> SUFFICES ASSUME TInv, Tick, NEW m \in Boards, ~ppsOn[m] PROVE off'[m] = off[m]
    OBVIOUS
  <1>1. CASE IsEdge(t + 1)
    BY <1>1 DEF Tick
  <1>2. CASE ~IsEdge(t + 1)
    BY <1>2 DEF Tick
  <1> QED
    BY <1>1, <1>2

(* A tick is a drift of the clocks with the PPS while the call runs, and a *)
(* stutter from the wake on.                                               *)
LEMMA TickRefines ==
    SyncTiming /\ TInv /\ SyncInv /\ NoPpsInv /\ Tick
        => Contract!CDrift \/ UNCHANGED Contract!cvars
  <1> SUFFICES ASSUME SyncTiming, TInv, SyncInv, NoPpsInv, Tick
               PROVE  Contract!CDrift \/ UNCHANGED Contract!cvars
    OBVIOUS
  <1>1. UNCHANGED <<ppsOn, pc, warned, synced>> /\ ~Returned
    BY DEF Tick
  <1>2. CASE PostWake
    <2>0. UNCHANGED <<off, armed>>
      BY <1>2, StableAfterWake
    <2>1. UNCHANGED off
      BY <2>0
    <2>2. StageView' = StageView /\ VerdictView' = VerdictView
      BY <1>1 DEF StageView, VerdictView
    <2>3. UNCHANGED Contract!cvars
      BY <1>1, <2>1, <2>2 DEF Contract!cvars
    <2> QED
      BY <2>3
  <1>3. CASE ~PostWake
    <2>1. StageView = "running" /\ StageView' = "running" /\ VerdictView' = VerdictView
      BY <1>1, <1>3 DEF StageView, VerdictView, PostWake, Returned
    <2>2. off' \in [Boards -> Int]
      BY TickType DEF TInv, TypeOK
    <2>3. \A m \in Boards : ~ppsOn[m] => off'[m] = off[m]
      BY TickNoPps
    <2> QED
      BY <1>1, <2>1, <2>2, <2>3 DEF Contract!CDrift, Contract!CBoards, Boards
  <1> QED
    BY <1>2, <1>3

(* Every host access leaves the PPS wiring and the clocks alone.           *)
LEMMA HostFixesClocks == Host => UNCHANGED <<ppsOn, off>>
  BY DEF Host, ReadStart, ReadStartPps, PollPps, PollNow, ArmBoard, Wake,
         Verify0, VerifyI, Query0, QueryI, Access

(* A host access that keeps the stage, the verdict and the answer is a     *)
(* stutter of the contract.                                                *)
LEMMA HostStutter ==
    ASSUME Host, StageView' = StageView, VerdictView' = VerdictView, synced' = synced
    PROVE  UNCHANGED Contract!cvars
  BY HostFixesClocks DEF Contract!cvars

(* get_time_synchronized returns an answer that VerifyInv vouches for.     *)
LEMMA ReturnAnswers ==
    ASSUME VerifyInv', Host, pc \in {"query0", "queryi"}, pc' = "returned",
           synced' \in BOOLEAN
    PROVE  Contract!CAnswer
  <1>0. UNCHANGED <<ppsOn, off, warned>>
    BY HostFixesClocks DEF Host, ReadStart, ReadStartPps, PollPps, PollNow, ArmBoard,
                           Wake, Verify0, VerifyI, Query0, QueryI
  <1>1. StageView = "verified" /\ StageView' = "answered" /\ VerdictView' = VerdictView
    BY <1>0 DEF StageView, VerdictView
  <1>2. synced' = TRUE => \A m \in Boards \ {0} : ~Misaligned(m)
    BY <1>0 DEF VerifyInv, Misaligned
  <1>3. synced' = FALSE => \E b \in Boards \ {0} : off[b] # off[0]
    BY <1>0 DEF VerifyInv
  <1>4. /\ synced' => \A m \in Boards \ {0} : ~Contract!Off(m)
        /\ ~synced' => \E m \in Boards \ {0} : off[m] # off[0]
    BY <1>2, <1>3, Zenon DEF Contract!Off, Misaligned
  <1> QED
    BY <1>0, <1>1, <1>4, Zenon DEF Contract!CAnswer, Contract!CBoards, Boards

(* A host access is a step of the contract or a stutter: the timeout is    *)
(* the failure, the wake the settling, the end of the verify loop the      *)
(* verdict and the return of get_time_synchronized the answer.             *)
LEMMA HostRefines ==
    TInv /\ NoPpsInv /\ VerifyInv /\ TInv' /\ EdgeInv' /\ SyncInv' /\ VerifyInv' /\ Host
        => [Contract!CNext]_Contract!cvars
  <1> SUFFICES ASSUME TInv, NoPpsInv, VerifyInv, TInv', EdgeInv', SyncInv', VerifyInv', Host
               PROVE  [Contract!CNext]_Contract!cvars
    OBVIOUS
  <1> USE TimeSyncAssumption
  <1>0. UNCHANGED <<ppsOn, off>>
    BY HostFixesClocks
  <1>1. CASE ReadStart \/ ReadStartPps \/ PollPps \/ ArmBoard \/ Verify0
    <2>1. StageView' = StageView /\ VerdictView' = VerdictView /\ synced' = synced
      BY <1>1 DEF ReadStart, ReadStartPps, PollPps, ArmBoard, Verify0, Access,
                  StageView, VerdictView
    <2> QED
      BY <2>1, HostStutter
  <1>2. CASE PollNow
    <2>1. CASE Now(0) - tStart > PpsTimeout
      <3>1. pc = "poll_now" /\ pc' = "error" /\ synced' = synced
        BY <1>2, <2>1 DEF PollNow, Access
      <3>2. ~ppsOn[0]
        BY <1>0, <3>1 DEF EdgeInv
      <3>3. StageView = "running" /\ StageView' = "failed"
            /\ VerdictView = None /\ VerdictView' = None
        BY <3>1 DEF StageView, VerdictView
      <3>4. Contract!CFail
        BY <1>0, <3>1, <3>2, <3>3 DEF Contract!CFail
      <3> QED
        BY <3>4 DEF Contract!CNext
    <2>2. CASE ~(Now(0) - tStart > PpsTimeout)
      <3>1. StageView' = StageView /\ VerdictView' = VerdictView /\ synced' = synced
        BY <1>2, <2>2 DEF PollNow, Access, StageView, VerdictView
      <3> QED
        BY <3>1, HostStutter
    <2> QED
      BY <2>1, <2>2
  <1>3. CASE Wake
    <2>1. pc = "sleep" /\ PostWake' /\ UNCHANGED <<warned, synced, armed>>
      BY <1>3 DEF Wake, Access, PostWake
    <2>2. ppsOn[0]
      BY <2>1 DEF NoPpsInv
    <2>3. \A m \in Boards : ppsOn[m] => off[m] = off[0]
      BY <1>0, <2>1, <2>2 DEF SyncInv, PpsDone
    <2>4. warned = {}
      BY <2>1 DEF VerifyInv, PostWake
    <2>5. StageView = "running" /\ VerdictView = None
      BY <2>1 DEF StageView, VerdictView
    <2>6. IF NumMboards > 1
          THEN StageView' = "settled" /\ VerdictView' = None
          ELSE StageView' = "verified" /\ VerdictView' = {}
      BY <1>3, <2>1, <2>4 DEF Wake, StageView, VerdictView
    <2>7. Contract!CSettle
      BY <1>0, <2>1, <2>3, <2>5, <2>6 DEF Contract!CSettle, Contract!CBoards, Boards
    <2> QED
      BY <2>7 DEF Contract!CNext
  <1>4. CASE VerifyI
    <2>1. CASE k + 1 < NumMboards
      <3>1. StageView' = StageView /\ VerdictView' = VerdictView /\ synced' = synced
        BY <1>4, <2>1 DEF VerifyI, Access, StageView, VerdictView
      <3> QED
        BY <3>1, HostStutter
    <2>2. CASE ~(k + 1 < NumMboards)
      <3>1. pc = "verifyi" /\ pc' = "query0" /\ synced' = synced
        BY <1>4, <2>2 DEF VerifyI, Access
      <3>2. /\ StageView = "settled" /\ StageView' = "verified"
            /\ VerdictView' = warned' /\ VerdictView = None
        BY <3>1 DEF StageView, VerdictView
      <3>3. warned' \in SUBSET (Boards \ {0})
        BY DEF TInv, TypeOK
      <3>4. \A m \in Boards \ {0} :
               (off[m] = off[0] => m \notin warned') /\ (Misaligned(m) => m \in warned')
        <4> SUFFICES ASSUME NEW m \in Boards \ {0}
                     PROVE  (off[m] = off[0] => m \notin warned') /\ (Misaligned(m) => m \in warned')
          OBVIOUS
        <4>1. Judged(m)'
          BY <3>1 DEF VerifyInv
        <4> QED
          BY <4>1, <1>0 DEF Judged, Misaligned
      <3>5. Contract!CVerdict
        BY <1>0, <3>1, <3>2, <3>3, <3>4, Zenon
           DEF Contract!CVerdict, Contract!Off, Contract!CBoards, Boards, Misaligned
      <3> QED
        BY <3>5 DEF Contract!CNext
    <2> QED
      BY <2>1, <2>2
  <1>5. CASE Query0
    <2>1. CASE NumMboards > 1
      <3>1. StageView' = StageView /\ VerdictView' = VerdictView /\ synced' = synced
        BY <1>5, <2>1 DEF Query0, Access, StageView, VerdictView
      <3> QED
        BY <3>1, HostStutter
    <2>2. CASE ~(NumMboards > 1)
      <3>1. pc = "query0" /\ pc' = "returned" /\ synced' = TRUE
        BY <1>5, <2>2 DEF Query0, Access
      <3>2. Contract!CAnswer
        BY <3>1, ReturnAnswers
      <3> QED
        BY <3>2 DEF Contract!CNext
    <2> QED
      BY <2>1, <2>2
  <1>6. CASE QueryI
    <2>1. CASE ~Deviates(time0, Now(k)) /\ k + 1 < NumMboards
      <3>1. StageView' = StageView /\ VerdictView' = VerdictView /\ synced' = synced
        BY <1>6, <2>1 DEF QueryI, Access, StageView, VerdictView
      <3> QED
        BY <3>1, HostStutter
    <2>2. CASE ~(~Deviates(time0, Now(k)) /\ k + 1 < NumMboards)
      <3>1. pc = "queryi" /\ pc' = "returned" /\ synced' \in BOOLEAN
        BY <1>6, <2>2 DEF QueryI, Access
      <3>2. Contract!CAnswer
        BY <3>1, ReturnAnswers
      <3> QED
        BY <3>2 DEF Contract!CNext
    <2> QED
      BY <2>1, <2>2
  <1> QED
    BY <1>1, <1>2, <1>3, <1>4, <1>5, <1>6 DEF Host

(* The initial state of the procedure is one of the contract's.            *)
LEMMA InitRefines == Init => Contract!CInit
  <1> SUFFICES ASSUME Init PROVE Contract!CInit
    OBVIOUS
  <1> USE TimeSyncAssumption
  <1>1. off \in [Boards -> Int]
    <2>1. off \in [Boards -> InitOffsets]
      BY DEF Init
    <2> QED
      BY <2>1, Zenon
  <1>2. StageView = "running" /\ VerdictView = None
    BY DEF Init, StageView, VerdictView
  <1> QED
    BY <1>1, <1>2 DEF Init, Contract!CInit, Contract!CBoards, Boards

(* set_time_unknown_pps followed by get_time_synchronized implements the   *)
(* contract, for every number of boards, every initial offset and PPS      *)
(* phase, under the timing the code's constants give: clocks without the   *)
(* PPS never move, the call throws only without PPS on board 0, the wake   *)
(* finds every board with the PPS aligned and freezes the clocks, the     *)
(* verify loop warns exactly about the boards that are off and the answer *)
(* is sound.                                                               *)
THEOREM SyncRefinement == RefTiming => (Spec => ImplementsSyncContract)
  <1> SUFFICES ASSUME RefTiming PROVE Spec => Contract!CSpec
    BY DEF ImplementsSyncContract
  <1>0. SyncTiming /\ VerifyTiming /\ NoStaleTiming
    BY DEF RefTiming, VerifyTiming
  <1>1. Init => RefInv
    BY <1>0, TInvInit, EdgeInit, ClockInit, SyncInit, NoPpsInit, VerifyInit DEF RefInv
  <1>2. RefInv /\ [Next]_vars => RefInv'
    BY <1>0, TInvStep, EdgeStep, ClockStep, SyncStep, NoPpsStep, VerifyStep DEF RefInv
  <1>3. RefInv /\ RefInv' /\ [Next]_vars => [Contract!CNext]_Contract!cvars
    <2> SUFFICES ASSUME RefInv, RefInv', [Next]_vars
                 PROVE  [Contract!CNext]_Contract!cvars
      OBVIOUS
    <2>1. CASE Tick
      BY <1>0, <2>1, TickRefines DEF RefInv, Contract!CNext
    <2>2. CASE Host
      BY <2>2, HostRefines DEF RefInv
    <2>3. CASE UNCHANGED vars
      BY <2>3 DEF vars, Contract!cvars, StageView, VerdictView
    <2> QED
      BY <2>1, <2>2, <2>3 DEF Next
  <1>4. Init => Contract!CInit
    BY InitRefines
  <1> QED
    BY <1>1, <1>2, <1>3, <1>4, PTL DEF Spec, Contract!CSpec

=============================================================================
