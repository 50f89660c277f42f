------------------------------ MODULE TimeSync ------------------------------
(***************************************************************************)
(* set_time_unknown_pps and get_time_synchronized of multi_usrp.cpp,       *)
(* against the boards' clocks and a shared PPS edge.                       *)
(*                                                                         *)
(* Real time t advances in ticks.  All boards count the common reference,  *)
(* so board m's "time now" is t + off[m].  When PPS is present an edge    *)
(* falls on every tick t with t % PpsPeriod = phase; at an edge each board *)
(* with a pending "time at next PPS" value latches it into its clock, and  *)
(* board 0's "time at last PPS" takes the value its clock shows at the     *)
(* edge.                                                                   *)
(*                                                                         *)
(* The host runs one property-tree access per step; between two accesses  *)
(* at most MaxGap ticks pass, except while it sleeps.  pc names the next  *)
(* access of the procedure.                                               *)
(***************************************************************************)
EXTENDS Integers

CONSTANTS
    NumMboards,   \* get_num_mboards()
    PpsPeriod,    \* ticks per PPS period (1 s)
    PpsTimeout,   \* time_spec_t(1.1) in ticks
    SettleTime,   \* the 1 s sleep after arming, in ticks
    SyncTol,      \* time_spec_t(0.01) in ticks
    MaxGap,       \* longest time between two host accesses, in ticks
    MaxTime,      \* bound on real time: the model stops the clock there
    Phases,       \* possible ticks of the first edge after the call starts
    Target,       \* the time_spec passed to set_time_unknown_pps
    InitOffsets,  \* possible initial board clock offsets
    StaleArms,    \* pending "time at next PPS" values left by an earlier call
    None          \* no pending value

ASSUME TimeSyncAssumption ==
    /\ NumMboards \in Nat \ {0}
    /\ PpsPeriod \in Nat \ {0}
    /\ {PpsTimeout, SettleTime, SyncTol, MaxGap, MaxTime} \subseteq Nat
    /\ Phases \subseteq 1 .. PpsPeriod
    /\ Target \in Int
    /\ InitOffsets \subseteq Int
    /\ StaleArms \subseteq Int
    /\ None \notin Int \cup BOOLEAN

Boards == 0 .. NumMboards - 1

VARIABLES
    t,         \* real time in ticks
    gap,       \* ticks since the host's last access
    ppsOn,     \* ppsOn[m]: whether board m gets the PPS signal
    phase,     \* the tick of the first edge after the call starts
    off,       \* off[m]: board m's clock minus real time
    armed,     \* armed[m]: pending MBOARD_PROP_TIME_PPS value, or None
    lastPps,   \* board 0's MBOARD_PROP_TIME_PPS ("time at last PPS")
    pc,        \* the host's next access
    tStart,    \* time_start
    ppsStart,  \* time_start_last_pps
    k,         \* board index of the arm and verify loops
    sleepEnd,  \* the tick the settle sleep ends
    time0,     \* time_0 of the current verify or query turn
    warned,    \* boards the verify loop reported a deviation for
    synced     \* the result of get_time_synchronized, or None

vars == <<t, gap, ppsOn, phase, off, armed, lastPps, pc, tStart, ppsStart,
          k, sleepEnd, time0, warned, synced>>

Now(m) == t + off[m]

IsEdge(tick) == tick % PpsPeriod = phase % PpsPeriod

Init ==
    /\ t = 0
    /\ gap = 0
    /\ ppsOn \in [Boards -> BOOLEAN]
    /\ phase \in Phases
    /\ off \in [Boards -> InitOffsets]
    /\ armed \in [Boards -> {None} \cup StaleArms]
    /\ lastPps = off[0] + phase - PpsPeriod
    /\ pc = "start"
    /\ tStart = 0 /\ ppsStart = 0 /\ k = 0 /\ sleepEnd = 0 /\ time0 = 0
    /\ warned = {}
    /\ synced = None

Sleeping == pc = "sleep" /\ t < sleepEnd
Returned == pc \in {"returned", "error"}

(* One tick of real time; an edge at the new tick latches pending values.  *)
Tick ==
    /\ ~Returned
    /\ t < MaxTime
    /\ Sleeping \/ gap < MaxGap
    /\ t' = t + 1
    /\ gap' = IF Sleeping THEN 0 ELSE gap + 1
    /\ IF IsEdge(t + 1)
       THEN LET latch(m) == ppsOn[m] /\ armed[m] # None
                newOff   == [m \in Boards |->
                               IF latch(m) THEN armed[m] - (t + 1) ELSE off[m]]
            IN /\ off' = newOff
               /\ armed' = [m \in Boards |-> IF latch(m) THEN None ELSE armed[m]]
               /\ lastPps' = IF ppsOn[0] THEN t + 1 + newOff[0] ELSE lastPps
       ELSE UNCHANGED <<off, armed, lastPps>>
    /\ UNCHANGED <<ppsOn, phase, pc, tStart, ppsStart, k, sleepEnd, time0, warned, synced>>

(* A host access at the current tick.                                      *)
Access(from) == pc = from /\ ~Sleeping /\ gap' = 0 /\ UNCHANGED <<t, ppsOn, phase>>

(* time_start = get_time_now() (line 192).                                 *)
ReadStart ==
    /\ Access("start")
    /\ tStart' = Now(0)
    /\ pc' = "read_pps"
    /\ UNCHANGED <<off, armed, lastPps, ppsStart, k, sleepEnd, time0, warned, synced>>

(* time_start_last_pps = get_time_last_pps() (line 193).                   *)
ReadStartPps ==
    /\ Access("read_pps")
    /\ ppsStart' = lastPps
    /\ pc' = "poll_pps"
    /\ UNCHANGED <<off, armed, lastPps, tStart, k, sleepEnd, time0, warned, synced>>

(* Variant: the loop takes a fresh baseline on every turn, so it compares *)
(* a read with itself.                                                     *)
PollPpsRebaseline ==
    /\ Access("poll_pps")
    /\ ppsStart' = lastPps
    /\ pc' = "poll_now"
    /\ k' = 0
    /\ UNCHANGED <<off, armed, lastPps, tStart, sleepEnd, time0, warned, synced>>

(* if (get_time_last_pps() != time_start_last_pps) break; (line 195).      *)
PollPps ==
    /\ Access("poll_pps")
    /\ pc' = IF lastPps # ppsStart THEN "arm" ELSE "poll_now"
    /\ k' = 0
    /\ UNCHANGED <<off, armed, lastPps, tStart, ppsStart, sleepEnd, time0, warned, synced>>

(* Variant: the poll loop without its timeout.                             *)
PollNowNoTimeout ==
    /\ Access("poll_now")
    /\ pc' = "poll_pps"
    /\ UNCHANGED <<off, armed, lastPps, tStart, ppsStart, k, sleepEnd, time0, warned, synced>>

(* if ((get_time_now() - time_start) > 1.1) throw (lines 196-202).         *)
PollNow ==
    /\ Access("poll_now")
    /\ pc' = IF Now(0) - tStart > PpsTimeout THEN "error" ELSE "poll_pps"
    /\ UNCHANGED <<off, armed, lastPps, tStart, ppsStart, k, sleepEnd, time0, warned, synced>>

(* Variant: the arm loop runs to m <= get_num_mboards().                   *)
ArmBoardPastEnd ==
    /\ Access("arm")
    /\ armed' = [armed EXCEPT ![k] = Target]
    /\ k' = k + 1
    /\ IF k < NumMboards
       THEN pc' = "arm" /\ UNCHANGED sleepEnd
       ELSE pc' = "sleep" /\ sleepEnd' = t + SettleTime
    /\ UNCHANGED <<off, lastPps, tStart, ppsStart, time0, warned, synced>>

(* Variant: no settle sleep after arming.                                  *)
ArmBoardNoSleep ==
    /\ Access("arm")
    /\ armed' = [armed EXCEPT ![k] = Target]
    /\ k' = k + 1
    /\ IF k + 1 < NumMboards
       THEN pc' = "arm" /\ UNCHANGED sleepEnd
       ELSE pc' = "sleep" /\ sleepEnd' = t
    /\ UNCHANGED <<off, lastPps, tStart, ppsStart, time0, warned, synced>>

(* set_time_next_pps (lines 184-188), one board per access, then the       *)
(* one-second sleep of line 207.                                           *)
ArmBoard ==
    /\ Access("arm")
    /\ armed' = [armed EXCEPT ![k] = Target]
    /\ k' = k + 1
    /\ IF k + 1 < NumMboards
       THEN pc' = "arm" /\ UNCHANGED sleepEnd
       ELSE pc' = "sleep" /\ sleepEnd' = t + SettleTime
    /\ UNCHANGED <<off, lastPps, tStart, ppsStart, time0, warned, synced>>

(* The thread wakes; the verify loop starts at board 1 (line 210).         *)
Wake ==
    /\ Access("sleep")
    /\ k' = 1
    /\ pc' = IF NumMboards > 1 THEN "verify0" ELSE "query0"
    /\ UNCHANGED <<off, armed, lastPps, tStart, ppsStart, sleepEnd, time0, warned, synced>>

(* Variant: only a board ahead by more than the tolerance deviates.       *)
DeviatesAheadOnly(time_0, time_i) == time_i - time_0 > SyncTol

(* The deviation test of lines 213 and 227.                                *)
Deviates(time_0, time_i) == time_i < time_0 \/ time_i - time_0 > SyncTol

(* time_0 = board 0's time now (line 211).                                 *)
Verify0 ==
    /\ Access("verify0")
    /\ time0' = Now(0)
    /\ pc' = "verifyi"
    /\ UNCHANGED <<off, armed, lastPps, tStart, ppsStart, k, sleepEnd, warned, synced>>

(* time_i = board k's time now, compared with time_0 (lines 212-219).      *)
VerifyI ==
    /\ Access("verifyi")
    /\ warned' = IF Deviates(time0, Now(k)) THEN warned \cup {k} ELSE warned
    /\ k' = IF k + 1 < NumMboards THEN k + 1 ELSE 1
    /\ pc' = IF k + 1 < NumMboards THEN "verify0" ELSE "query0"
    /\ UNCHANGED <<off, armed, lastPps, tStart, ppsStart, sleepEnd, time0, synced>>

(* get_time_synchronized (lines 223-230), called once the procedure has    *)
(* returned: the same loop, returning false at the first deviation.        *)
Query0 ==
    /\ Access("query0")
    /\ IF NumMboards > 1
       THEN time0' = Now(0) /\ pc' = "queryi" /\ UNCHANGED synced
       ELSE synced' = TRUE /\ pc' = "returned" /\ UNCHANGED time0
    /\ UNCHANGED <<off, armed, lastPps, tStart, ppsStart, k, sleepEnd, warned>>

QueryI ==
    /\ Access("queryi")
    /\ IF Deviates(time0, Now(k))
       THEN synced' = FALSE /\ pc' = "returned" /\ k' = k
       ELSE IF k + 1 < NumMboards
            THEN pc' = "query0" /\ k' = k + 1 /\ UNCHANGED synced
            ELSE synced' = TRUE /\ pc' = "returned" /\ k' = k
    /\ UNCHANGED <<off, armed, lastPps, tStart, ppsStart, sleepEnd, time0, warned>>

Host ==
    \/ ReadStart \/ ReadStartPps \/ PollPps \/ PollNow \/ ArmBoard \/ Wake
    \/ Verify0 \/ VerifyI \/ Query0 \/ QueryI

Next == Tick \/ Host

(* Real time passes and the single control thread keeps running: both are *)
(* weakly fair.                                                            *)
Spec == Init /\ [][Next]_vars /\ WF_vars(Tick) /\ WF_vars(Host)

-----------------------------------------------------------------------------
PCs == {"start", "read_pps", "poll_pps", "poll_now", "arm", "sleep",
        "verify0", "verifyi", "query0", "queryi", "returned", "error"}

TypeOK ==
    /\ t \in Nat /\ gap \in 0 .. MaxGap
    /\ ppsOn \in [Boards -> BOOLEAN]
    /\ phase \in Phases
    /\ off \in [Boards -> Int]
    /\ armed \in [Boards -> {None} \cup {Target} \cup StaleArms]
    /\ lastPps \in Int
    /\ pc \in PCs
    /\ {tStart, ppsStart, sleepEnd, time0} \subseteq Int
    /\ k \in 0 .. NumMboards
    /\ warned \subseteq Boards \ {0}
    /\ synced \in {None, TRUE, FALSE}

(* A board 0 with a PPS signal never gets the "no PPS" timeout: an edge    *)
(* comes within one period, the loop sees it within a few accesses, and    *)
(* 1.1 s leaves room for both.                                             *)
NoSpuriousTimeout == ppsOn[0] => pc # "error"

(* When every board gets the PPS, the procedure returns with every pending *)
(* value latched and all clocks equal: the arm loop finished before the    *)
(* next edge, and the sleep outlasted it.                                  *)
SyncedOnReturn ==
    (pc \in {"query0", "queryi", "returned"} /\ \A m \in Boards : ppsOn[m]) =>
        \A m \in Boards : off[m] = off[0] /\ armed[m] = None

(* The verify loop (lines 210-220) warns about a board exactly when its    *)
(* clock is off: never about a board whose clock equals board 0's (reads   *)
(* of board 0 come first, and the gap between them is within 10 ms), and   *)
(* always about one behind by more than that gap or ahead by more than     *)
(* 10 ms.  get_time_synchronized's answer agrees.                          *)
Misaligned(m) == off[m] < off[0] - MaxGap \/ off[m] > off[0] + SyncTol

VerifyExact ==
    pc \in {"query0", "queryi", "returned"} =>
        \A m \in Boards \ {0} :
            /\ off[m] = off[0] => m \notin warned
            /\ Misaligned(m) => m \in warned
            /\ synced = TRUE => ~Misaligned(m)
            /\ synced = FALSE => \E b \in Boards \ {0} : off[b] # off[0]

(* The procedure as its caller sees it: failed when it threw, settled     *)
(* in the verify loop, verified once it ended, answered when the query     *)
(* returned; the verify loop's warnings once it has ended; the answer.     *)
StageView == IF pc = "error" THEN "failed"
             ELSE IF pc = "returned" THEN "answered"
             ELSE IF pc \in {"verify0", "verifyi"} THEN "settled"
             ELSE IF pc \in {"query0", "queryi"} THEN "verified"
             ELSE "running"

VerdictView == IF pc \in {"query0", "queryi", "returned"} THEN warned ELSE None

Contract == INSTANCE TimeSyncContract WITH
    Skew <- MaxGap, pps <- ppsOn, clk <- off, stage <- StageView,
    verdict <- VerdictView, answer <- synced

(* The procedure implements its contract: clocks without the PPS never     *)
(* move, the call throws only without PPS on board 0, the wake finds the   *)
(* boards with PPS aligned and no clock moves after it, the verify loop's  *)
(* warnings are exact and the query's answer is sound.                     *)
ImplementsSyncContract == Contract!CSpec

(* The call returns or throws; the query after it returns.                 *)
Terminates == <>Returned
=============================================================================
