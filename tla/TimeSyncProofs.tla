--------------------------- MODULE TimeSyncProofs ---------------------------
(***************************************************************************)
(* Proofs about the PPS procedure of TimeSync, for every number of boards, *)
(* offsets, phases and timings that satisfy the stated hypotheses:         *)
(*   - type correctness;                                                   *)
(*   - a board 0 with PPS never times out (NoStaleTiming);                 *)
(*   - with PPS everywhere, all clocks agree once it returns (SyncTiming); *)
(*   - the clocks stand still from the wake on (SyncTiming);               *)
(*   - the verify loop and get_time_synchronized judge every board exactly *)
(*     (VerifyTiming).                                                     *)
(***************************************************************************)
EXTENDS TimeSync, TLAPS

(* The loop index is in range wherever an access uses it.                  *)
KInv ==
    /\ pc = "arm" => k \in 0 .. NumMboards - 1
    /\ pc \in {"verify0", "verifyi", "queryi"} => k \in 1 .. NumMboards - 1
    /\ (pc = "query0" /\ NumMboards > 1) => k \in 1 .. NumMboards - 1

TInv == TypeOK /\ KInv

(* Real time of board 0's last edge, as lastPps shows it.                  *)
LastEdge == lastPps - off[0]

PreArm == pc \in {"start", "read_pps", "poll_pps", "poll_now"}

(* Before arming, with PPS on board 0: board 0's clock keeps its offset,   *)
(* lastPps shows the latest edge (edges fall on phase + j * PpsPeriod, so  *)
(* the next one is less than a period away), and the host's reads are tied to the  *)
(* real time they were taken at.                                           *)
EdgeInv ==
    ppsOn[0] =>
        /\ pc # "error"
        /\ PreArm =>
            /\ armed[0] = None
            /\ \E j \in -1 .. t : LastEdge = phase + j * PpsPeriod
            /\ LastEdge <= t
            /\ t < LastEdge + PpsPeriod
            /\ pc = "start" => t = gap
            /\ pc = "read_pps" => t + off[0] - tStart = gap
            /\ pc \in {"poll_pps", "poll_now"} => ppsStart <= tStart + MaxGap
            /\ pc = "poll_now" => t - gap < ppsStart - off[0] + PpsPeriod
(* Whenever board 0 gets the PPS, LastEdge is the latest edge: a latch     *)
(* moves board 0's offset and lastPps together.                            *)
ClockInv ==
    ppsOn[0] =>
        /\ \E j \in -1 .. t : LastEdge = phase + j * PpsPeriod
        /\ LastEdge <= t
        /\ t < LastEdge + PpsPeriod

AllPps == \A m \in Boards : ppsOn[m]

NoneArmed == \A m \in Boards : armed[m] = None

Aligned == \A m \in Boards : off[m] = off[0]

PostWake == pc \in {"verify0", "verifyi", "query0", "queryi", "returned"}

(* Boards with the PPS have latched their pending value and agree with    *)
(* board 0.                                                                *)
PpsDone == \A m \in Boards : ppsOn[m] => armed[m] = None /\ off[m] = off[0]

(* With PPS on board 0: the poll loop sees an edge within two gaps of it;  *)
(* the arm loop has armed boards 0 .. k-1 and no edge has fallen since the *)
(* one it saw; the sleep starts before the next edge and ends after it,    *)
(* and that edge latches every board with PPS at once.                     *)
SyncInv ==
    ppsOn[0] =>
        /\ PreArm => NoneArmed
        /\ pc = "poll_now" => lastPps = ppsStart \/ t - LastEdge < gap
        /\ pc = "poll_pps" => lastPps = ppsStart \/ t - LastEdge < gap + MaxGap
        /\ pc = "arm" =>
               /\ t - LastEdge < gap + (k + 2) * MaxGap
               /\ \A m \in Boards : armed[m] = IF m < k THEN Target ELSE None
        /\ pc = "sleep" =>
               \/ /\ \A m \in Boards : armed[m] = Target
                  /\ t < LastEdge + PpsPeriod
                  /\ LastEdge + PpsPeriod <= sleepEnd
               \/ PpsDone
        /\ PostWake => PpsDone

(* Without PPS on board 0 lastPps never moves, so the poll loop never      *)
(* leaves.                                                                 *)
NoPpsInv ==
    ~ppsOn[0] =>
        /\ pc \in {"start", "read_pps", "poll_pps", "poll_now", "error"}
        /\ pc \in {"poll_pps", "poll_now"} => lastPps = ppsStart

(* A board's verdict is right when the verify loop warns about it exactly  *)
(* as VerifyExact says.                                                    *)
Judged(m) == /\ off[m] = off[0] => m \notin warned
             /\ Misaligned(m) => m \in warned

(* The verify and query loops: boards 1 .. k-1 are judged (verify) or      *)
(* passed (query); time0 is board 0's clock at the access gap ticks ago;  *)
(* the answer is set only on return, and then it is right.                 *)
VerifyInv ==
    /\ ~PostWake => warned = {}
    /\ pc \in {"verify0", "verifyi"} =>
           /\ \A m \in 1 .. k - 1 : Judged(m)
           /\ \A m \in k .. NumMboards - 1 : m \notin warned
    /\ pc \in {"query0", "queryi", "returned"} => \A m \in Boards \ {0} : Judged(m)
    /\ pc \in {"query0", "queryi"} => \A m \in 1 .. k - 1 : ~Misaligned(m)
    /\ pc \in {"verifyi", "queryi"} => time0 = t - gap + off[0]
    /\ pc # "returned" => synced = None
    /\ (pc = "returned" /\ synced = TRUE) => \A m \in Boards \ {0} : ~Misaligned(m)
    /\ (pc = "returned" /\ synced = FALSE) => \E b \in Boards \ {0} : off[b] # off[0]

-----------------------------------------------------------------------------
LEMMA TInvInit == Init => TInv
  <1> SUFFICES ASSUME Init PROVE TInv
    OBVIOUS
  <1> USE TimeSyncAssumption
  <1>1. 0 \in Boards
    BY DEF Boards
  <1>2. off \in [Boards -> InitOffsets] /\ phase \in Phases
    BY DEF Init
  <1>3. off \in [Boards -> Int]
    BY <1>2, Zenon
  <1>5. lastPps \in Int
    BY <1>1, <1>2, <1>3 DEF Init
  <1>4. synced \in {None, TRUE, FALSE}
    BY Zenon DEF Init
  <1>6. armed \in [Boards -> {None} \cup {Target} \cup StaleArms]
    BY DEF Init
  <1> QED
    BY <1>3, <1>4, <1>5, <1>6 DEF Init, TInv, TypeOK, KInv, PCs, Boards

(* One tick keeps the types: a latched offset is a pending integer minus   *)
(* the tick, and the gap grows only below MaxGap.                          *)
LEMMA TickType == TInv /\ Tick => TInv'
  <1> SUFFICES ASSUME TInv, Tick PROVE TInv'
    OBVIOUS
  <1> USE TimeSyncAssumption
  <1> DEFINE ArmT == [Boards -> {None} \cup {Target} \cup StaleArms]
  <1>0. /\ armed \in ArmT /\ off \in [Boards -> Int] /\ 0 \in Boards
        /\ t \in Nat /\ gap \in 0 .. MaxGap /\ lastPps \in Int
    BY DEF TInv, TypeOK, Boards
  <1>1. t' \in Nat /\ gap' \in 0 .. MaxGap
    BY <1>0 DEF Tick
  <1>2. /\ off' \in [Boards -> Int]
        /\ armed' \in ArmT
        /\ lastPps' \in Int
    <2>1. CASE IsEdge(t + 1)
      <3> DEFINE latch(m) == ppsOn[m] /\ armed[m] # None
                 newOff   == [m \in Boards |->
                                IF latch(m) THEN armed[m] - (t + 1) ELSE off[m]]
      <3>1. /\ off' = newOff
            /\ armed' = [m \in Boards |-> IF latch(m) THEN None ELSE armed[m]]
            /\ lastPps' = IF ppsOn[0] THEN t + 1 + newOff[0] ELSE lastPps
        BY <2>1 DEF Tick
      <3>2. \A m \in Boards : latch(m) => armed[m] \in Int
        BY <1>0
      <3>3. \A m \in Boards : newOff[m] \in Int
        BY <1>0, <3>2
      <3>4. newOff \in [Boards -> Int]
        BY <3>3, Zenon
      <3>5. [m \in Boards |-> IF latch(m) THEN None ELSE armed[m]] \in ArmT
        BY <1>0
      <3> QED
        BY <3>1, <3>3, <3>4, <3>5, <1>0
    <2>2. CASE ~IsEdge(t + 1)
      <3>1. UNCHANGED <<off, armed, lastPps>>
        BY <2>2 DEF Tick
      <3> QED
        BY <3>1, <1>0
    <2> QED
      BY <2>1, <2>2
  <1>3. UNCHANGED <<ppsOn, phase, pc, tStart, ppsStart, k, sleepEnd, time0, warned, synced>>
    BY DEF Tick
  <1> QED
    BY <1>1, <1>2, <1>3 DEF TInv, TypeOK, KInv

(* A host access that leaves the offsets and lastPps alone, and gives the *)
(* other variables values of their types, keeps the types.                 *)
LEMMA HostFrame ==
    ASSUME TInv, NEW from, Access(from),
           off' = off, lastPps' = lastPps,
           armed' \in [Boards -> {None} \cup {Target} \cup StaleArms],
           pc' \in PCs, {tStart', ppsStart', sleepEnd', time0'} \subseteq Int,
           k' \in 0 .. NumMboards, warned' \subseteq Boards \ {0},
           synced' \in {None, TRUE, FALSE}, KInv'
    PROVE  TInv'
  <1>1. gap' \in 0 .. MaxGap
    BY TimeSyncAssumption DEF Access
  <1> QED
    BY <1>1 DEF TInv, TypeOK, Access

(* Board 0 exists and its clock is an integer.                              *)
LEMMA NowZero == TInv => Now(0) \in Int /\ 0 \in Boards
  BY TimeSyncAssumption DEF TInv, TypeOK, Now, Boards

(* Every host access keeps the types; the loop indices stay in range.      *)
LEMMA HostType == TInv /\ Host => TInv'
  <1> SUFFICES ASSUME TInv, Host PROVE TInv'
    OBVIOUS
  <1> USE TimeSyncAssumption
  <1> DEFINE ArmT == [Boards -> {None} \cup {Target} \cup StaleArms]
  <1>0. /\ armed \in ArmT /\ pc \in PCs /\ k \in 0 .. NumMboards
        /\ {tStart, ppsStart, sleepEnd, time0} \subseteq Int
        /\ warned \subseteq Boards \ {0} /\ synced \in {None, TRUE, FALSE}
        /\ t \in Nat
    BY DEF TInv, TypeOK
  <1>1. CASE ReadStart
    <2>1. tStart' \in Int
      BY <1>1, NowZero DEF ReadStart
    <2> QED
      BY <1>0, <1>1, <2>1, HostFrame DEF ReadStart, PCs, KInv
  <1>2. CASE ReadStartPps
    <2>1. ppsStart' \in Int
      BY <1>2 DEF ReadStartPps, TInv, TypeOK
    <2> QED
      BY <1>0, <1>2, <2>1, HostFrame DEF ReadStartPps, PCs, KInv
  <1>3. CASE PollPps
    <2>1. pc' \in PCs /\ KInv' /\ k' \in 0 .. NumMboards
      BY <1>3 DEF PollPps, PCs, KInv, Access
    <2> QED
      BY <1>0, <1>3, <2>1, HostFrame DEF PollPps
  <1>4. CASE PollNow
    <2>1. pc' \in PCs /\ KInv'
      BY <1>4 DEF PollNow, PCs, KInv
    <2> QED
      BY <1>0, <1>4, <2>1, HostFrame DEF PollNow
  <1>5. CASE ArmBoard
    <2>1. k \in Boards
      BY <1>5 DEF ArmBoard, Access, TInv, KInv, Boards
    <2>2. armed' \in ArmT
      BY <1>5, <1>0, <2>1 DEF ArmBoard
    <2>3. pc' \in PCs /\ KInv' /\ k' \in 0 .. NumMboards /\ sleepEnd' \in Int
      BY <1>5, <1>0, <2>1 DEF ArmBoard, PCs, KInv, Boards
    <2> QED
      BY <1>0, <1>5, <2>2, <2>3, HostFrame DEF ArmBoard
  <1>6. CASE Wake
    <2>1. pc' \in PCs /\ KInv' /\ k' \in 0 .. NumMboards
      BY <1>6 DEF Wake, PCs, KInv
    <2> QED
      BY <1>0, <1>6, <2>1, HostFrame DEF Wake
  <1>7. CASE Verify0
    <2>1. time0' \in Int /\ pc' \in PCs /\ KInv'
      BY <1>7, NowZero DEF Verify0, PCs, KInv, TInv, Access
    <2> QED
      BY <1>0, <1>7, <2>1, HostFrame DEF Verify0
  <1>8. CASE VerifyI
    <2>1. k \in 1 .. NumMboards - 1
      BY <1>8 DEF VerifyI, Access, TInv, KInv
    <2>4. k \in Boards \ {0}
      BY <2>1 DEF Boards
    <2>2. warned' \subseteq Boards \ {0}
      BY <1>8, <1>0, <2>4 DEF VerifyI
    <2>3. pc' \in PCs /\ KInv' /\ k' \in 0 .. NumMboards
      BY <1>8, <2>1 DEF VerifyI, PCs, KInv
    <2> QED
      BY <1>0, <1>8, <2>2, <2>3, HostFrame DEF VerifyI
  <1>9. CASE Query0
    <2>1. time0' \in Int /\ synced' \in {None, TRUE, FALSE} /\ pc' \in PCs /\ KInv'
      BY <1>9, <1>0, NowZero DEF Query0, PCs, KInv, TInv, Access
    <2> QED
      BY <1>0, <1>9, <2>1, HostFrame DEF Query0
  <1>10. CASE QueryI
    <2>1. k \in 1 .. NumMboards - 1
      BY <1>10 DEF QueryI, Access, TInv, KInv
    <2>2. synced' \in {None, TRUE, FALSE} /\ pc' \in PCs /\ KInv' /\ k' \in 0 .. NumMboards
      <3>1. CASE Deviates(time0, Now(k))
        <4>1. synced' = FALSE /\ pc' = "returned" /\ k' = k
          BY <1>10, <3>1 DEF QueryI
        <4> QED
          BY <4>1, <1>0 DEF PCs, KInv
      <3>2. CASE ~Deviates(time0, Now(k)) /\ k + 1 < NumMboards
        <4>1. synced' = synced /\ pc' = "query0" /\ k' = k + 1
          BY <1>10, <3>2 DEF QueryI
        <4>2. synced' \in {None, TRUE, FALSE}
          BY <4>1, <1>0, Zenon
        <4>3. pc' \in PCs /\ KInv' /\ k' \in 0 .. NumMboards
          BY <4>1, <2>1, <3>2 DEF PCs, KInv
        <4> QED
          BY <4>2, <4>3
      <3>3. CASE ~Deviates(time0, Now(k)) /\ ~(k + 1 < NumMboards)
        <4>1. synced' = TRUE /\ pc' = "returned" /\ k' = k
          BY <1>10, <3>3 DEF QueryI
        <4> QED
          BY <4>1, <1>0 DEF PCs, KInv
      <3> QED
        BY <3>1, <3>2, <3>3
    <2> QED
      BY <1>0, <1>10, <2>2, HostFrame DEF QueryI
  <1> QED
    BY <1>1, <1>2, <1>3, <1>4, <1>5, <1>6, <1>7, <1>8, <1>9, <1>10 DEF Host

LEMMA TInvStep == TInv /\ [Next]_vars => TInv'
  <1> SUFFICES ASSUME TInv, [Next]_vars PROVE TInv'
    OBVIOUS
  <1>1. CASE Tick
    BY <1>1, TickType
  <1>2. CASE Host
    BY <1>2, HostType
  <1>3. CASE UNCHANGED vars
    BY <1>3 DEF vars, TInv, TypeOK, KInv
  <1> QED
    BY <1>1, <1>2, <1>3 DEF Next

(* Every reachable state of the procedure and the boards is well typed,   *)
(* and the arm, verify and query loops (multi_usrp.cpp 184-230) index a    *)
(* board that exists.                                                      *)
THEOREM TimeSyncTypeCorrect == Spec => []TypeOK
  <1>1. Spec => []TInv
    BY TInvInit, TInvStep, PTL DEF Spec
  <1> QED
    BY <1>1, PTL DEF TInv
-----------------------------------------------------------------------------
(* The remainder is the r of any x = P * q + r with 0 <= r < P.          *)
LEMMA ModUnique ==
    ASSUME NEW P \in Nat \ {0}, NEW x \in Int, NEW q \in Int, NEW r \in 0 .. P - 1,
           x = P * q + r
    PROVE  x % P = r
  BY SMTT(30)

(* Between an edge ph + j * P and the next, a tick u is an edge exactly    *)
(* when it is the next one: IsEdge cannot fire twice in one period.        *)
LEMMA EdgeIff ==
    ASSUME NEW P \in Nat \ {0}, NEW ph \in 1 .. P, NEW j \in Int, NEW u \in Int,
           ph + j * P < u, u <= ph + j * P + P
    PROVE  u % P = ph % P <=> u = ph + j * P + P
  <1> DEFINE r0 == IF ph = P THEN 0 ELSE ph
             e  == IF ph = P THEN 1 ELSE 0
             d  == u - (ph + j * P)
  <1>1. r0 \in 0 .. P - 1 /\ e \in Int /\ ph = P * e + r0
    OBVIOUS
  <1>2. ph % P = r0
    BY <1>1, ModUnique
  <1>3. d \in 1 .. P /\ u = P * (j + e) + (r0 + d)
    BY <1>1
  <1>7. j + e + 1 \in Int /\ P * (j + e + 1) = P * (j + e) + P
    BY <1>1
  <1>4. CASE d = P
    <2>1. u = P * (j + e + 1) + r0
      BY <1>3, <1>4, <1>7
    <2>2. u % P = r0
      <3> DEFINE q == j + e + 1
      <3>1. q \in Int /\ u = P * q + r0
        BY <2>1, <1>7
      <3> HIDE DEF q
      <3> QED
        BY <3>1, <1>1, ModUnique, Zenon
    <2> QED
      BY <2>2, <1>2, <1>4
  <1>5. CASE d < P /\ r0 + d < P
    <2>1. u % P = r0 + d
      <3>1. r0 + d \in 0 .. P - 1 /\ j + e \in Int
        BY <1>1, <1>3, <1>5
      <3> QED
        BY <3>1, <1>3, ModUnique, Zenon
    <2> QED
      BY <2>1, <1>2, <1>3, <1>5
  <1>6. CASE d < P /\ r0 + d >= P
    <2>1. u = P * (j + e + 1) + (r0 + d - P)
      BY <1>3, <1>7
    <2>3. r0 + d - P \in 0 .. P - 1
      BY <1>1, <1>3, <1>6
    <2>2. u % P = r0 + d - P
      <3> DEFINE q == j + e + 1
             rr == r0 + d - P
      <3>1. q \in Int /\ u = P * q + rr /\ rr \in 0 .. P - 1
        BY <2>1, <2>3, <1>7
      <3> HIDE DEF q, rr
      <3>2. u % P = rr
        BY <3>1, ModUnique, Zenon
      <3> QED
        BY <3>2 DEF rr
    <2> QED
      BY <2>2, <1>2, <1>3, <1>6
  <1> QED
    BY <1>3, <1>4, <1>5, <1>6

(* The timing the proof of NoSpuriousTimeout rests on: no value is pending *)
(* from an earlier call, and the 1.1 s timeout covers a PPS period and two *)
(* host gaps (one before the first read of lastPps, one between a poll and *)
(* the timeout check).                                                     *)
NoStaleTiming ==
    /\ StaleArms = {}
    /\ PpsTimeout + 1 >= PpsPeriod + 2 * MaxGap

LEMMA EdgeInit == NoStaleTiming => (Init => EdgeInv)
  <1> SUFFICES ASSUME NoStaleTiming, Init, ppsOn[0] PROVE EdgeInv
    BY DEF EdgeInv
  <1> USE TimeSyncAssumption
  <1>1. 0 \in Boards /\ armed \in [Boards -> {None}]
    BY DEF Init, NoStaleTiming, Boards
  <1>2. armed[0] = None
    BY <1>1
  <1>3. off[0] \in Int /\ phase \in 1 .. PpsPeriod
    BY <1>1 DEF Init
  <1>4. LastEdge = phase + (-1) * PpsPeriod
    BY <1>3 DEF Init, LastEdge
  <1>5. \E j \in -1 .. t : LastEdge = phase + j * PpsPeriod
    BY <1>4 DEF Init
  <1> QED
    BY <1>2, <1>3, <1>4, <1>5 DEF Init, EdgeInv, PreArm
(* A tick keeps EdgeInv: before arming no value is pending on board 0, so  *)
(* its offset stays; an edge moves LastEdge to the new tick, and a tick    *)
(* that is not an edge is still before the next one.                      *)
LEMMA TickEdge == TInv /\ EdgeInv /\ Tick /\ ppsOn[0] => EdgeInv'
  <1> SUFFICES ASSUME TInv, EdgeInv, Tick, ppsOn[0] PROVE EdgeInv'
    OBVIOUS
  <1> USE TimeSyncAssumption
  <1>0. /\ 0 \in Boards /\ off \in [Boards -> Int] /\ t \in Nat
        /\ gap \in 0 .. MaxGap /\ lastPps \in Int /\ phase \in 1 .. PpsPeriod
        /\ armed \in [Boards -> {None} \cup {Target} \cup StaleArms]
        /\ tStart \in Int /\ ppsStart \in Int
    BY DEF TInv, TypeOK, Boards
  <1>1. UNCHANGED <<ppsOn, phase, pc, tStart, ppsStart>> /\ t' = t + 1
    BY DEF Tick
  <1>2. CASE ~PreArm
    BY <1>1, <1>2 DEF EdgeInv, PreArm
  <1>3. CASE PreArm
    <2>1. /\ armed[0] = None /\ pc # "error"
          /\ \E j \in -1 .. t : LastEdge = phase + j * PpsPeriod
          /\ LastEdge <= t /\ t < LastEdge + PpsPeriod
      BY <1>3 DEF EdgeInv
    <2>2. PICK j \in -1 .. t : LastEdge = phase + j * PpsPeriod
      BY <2>1
    <2>3. ~Sleeping /\ gap' = gap + 1
      BY <1>3 DEF PreArm, Sleeping, Tick
    <2>4. off'[0] = off[0] /\ armed'[0] = None
      BY <1>0, <2>1 DEF Tick
    <2>5. (t + 1) % PpsPeriod = phase % PpsPeriod <=> t + 1 = phase + j * PpsPeriod + PpsPeriod
      <3>1. phase + j * PpsPeriod < t + 1 /\ t + 1 <= phase + j * PpsPeriod + PpsPeriod
        BY <2>1, <2>2, <1>0
      <3>2. j \in Int /\ t + 1 \in Int /\ PpsPeriod \in Nat \ {0}
        BY <1>0, <2>2
      <3> QED
        BY <3>1, <3>2, <1>0, EdgeIff, Zenon
    <2>6. /\ \E i \in -1 .. t' : LastEdge' = phase' + i * PpsPeriod
          /\ LastEdge' <= t' /\ t' < LastEdge' + PpsPeriod
      <3>1. CASE IsEdge(t + 1)
        <4>1. lastPps' = t + 1 + off[0]
          BY <1>0, <2>1, <3>1 DEF Tick
        <4>2. LastEdge' = t + 1 /\ t + 1 = phase + (j + 1) * PpsPeriod
          BY <4>1, <2>4, <2>5, <3>1, <1>0 DEF LastEdge, IsEdge
        <4>3. j + 1 \in -1 .. t' /\ LastEdge' = phase' + (j + 1) * PpsPeriod
          BY <4>2, <1>1, <2>2, <1>0
        <4>4. \E i \in -1 .. t' : LastEdge' = phase' + i * PpsPeriod
          BY <4>3, Zenon
        <4>5. LastEdge' <= t' /\ t' < LastEdge' + PpsPeriod
          BY <4>2, <1>1, <1>0
        <4> QED
          BY <4>4, <4>5, Zenon
      <3>2. CASE ~IsEdge(t + 1)
        <4>1. UNCHANGED <<off, lastPps>>
          BY <3>2 DEF Tick
        <4>2. LastEdge' = LastEdge /\ t + 1 # phase + j * PpsPeriod + PpsPeriod
          BY <4>1, <2>5, <3>2, <1>0 DEF LastEdge, IsEdge
        <4> QED
          BY <4>2, <1>1, <2>1, <2>2, <1>0
      <3> QED
        BY <3>1, <3>2
    <2>7. pc = "start" => t = gap
      BY <1>3 DEF EdgeInv
    <2>8. pc = "read_pps" => t + off[0] - tStart = gap
      BY <1>3 DEF EdgeInv
    <2>9. pc \in {"poll_pps", "poll_now"} => ppsStart <= tStart + MaxGap
      BY <1>3 DEF EdgeInv
    <2>10. pc = "poll_now" => t - gap < ppsStart - off[0] + PpsPeriod
      BY <1>3 DEF EdgeInv
    <2>11. /\ pc' = "start" => t' = gap'
           /\ pc' = "read_pps" => t' + off'[0] - tStart' = gap'
           /\ pc' \in {"poll_pps", "poll_now"} => ppsStart' <= tStart' + MaxGap
           /\ pc' = "poll_now" => t' - gap' < ppsStart' - off'[0] + PpsPeriod
      BY <1>0, <1>1, <2>3, <2>4, <2>7, <2>8, <2>9, <2>10
    <2>13. pc' = pc
      BY <1>1
    <2>12. PreArm' /\ pc' # "error" /\ armed'[0] = None
      BY <2>13, <1>3, <2>1, <2>4 DEF PreArm
    <2> QED
      BY <1>1, <2>6, <2>11, <2>12 DEF EdgeInv
  <1> QED
    BY <1>2, <1>3
(* A host access keeps EdgeInv.  The reads of lines 192-193 tie tStart and *)
(* ppsStart to the real time they were taken at; a poll that sees no new  *)
(* edge is less than a period after the edge ppsStart shows; so the check *)
(* of line 196 sees at most a period and two gaps, within the timeout.     *)
LEMMA HostEdge == NoStaleTiming /\ TInv /\ EdgeInv /\ Host /\ ppsOn[0] => EdgeInv'
  <1> SUFFICES ASSUME NoStaleTiming, TInv, EdgeInv, Host, ppsOn[0] PROVE EdgeInv'
    OBVIOUS
  <1> USE TimeSyncAssumption
  <1>0. /\ 0 \in Boards /\ off \in [Boards -> Int] /\ t \in Nat
        /\ gap \in 0 .. MaxGap /\ lastPps \in Int
        /\ tStart \in Int /\ ppsStart \in Int
    BY DEF TInv, TypeOK, Boards
  <1>1. ppsOn' = ppsOn /\ t' = t /\ phase' = phase /\ gap' = 0 /\ pc # "error"
    BY DEF Host, ReadStart, ReadStartPps, PollPps, PollNow, ArmBoard, Wake,
           Verify0, VerifyI, Query0, QueryI, Access, EdgeInv
  <1>2. CASE ReadStart
    <2>1. UNCHANGED <<off, armed, lastPps>> /\ pc = "start" /\ pc' = "read_pps"
          /\ tStart' = t + off[0]
      BY <1>2 DEF ReadStart, Access, Now
    <2> QED
      BY <1>0, <1>1, <2>1 DEF EdgeInv, PreArm, LastEdge
  <1>3. CASE ReadStartPps
    <2>1. UNCHANGED <<off, armed, lastPps, tStart>> /\ pc = "read_pps"
          /\ pc' = "poll_pps" /\ ppsStart' = lastPps
      BY <1>3 DEF ReadStartPps, Access
    <2>2. lastPps - off[0] <= t /\ t + off[0] - tStart = gap
      BY <2>1 DEF EdgeInv, PreArm, LastEdge
    <2>3. ppsStart' <= tStart' + MaxGap
      BY <1>0, <2>1, <2>2
    <2> QED
      BY <1>0, <1>1, <2>1, <2>3 DEF EdgeInv, PreArm, LastEdge
  <1>4. CASE PollPps
    <2>1. UNCHANGED <<off, armed, lastPps, tStart, ppsStart>> /\ pc = "poll_pps"
          /\ pc' = IF lastPps # ppsStart THEN "arm" ELSE "poll_now"
      BY <1>4 DEF PollPps, Access
    <2>2. t < lastPps - off[0] + PpsPeriod /\ ppsStart <= tStart + MaxGap
      BY <2>1 DEF EdgeInv, PreArm, LastEdge
    <2>3. pc' = "poll_now" => t' - gap' < ppsStart' - off'[0] + PpsPeriod
      BY <1>0, <1>1, <2>1, <2>2
    <2> QED
      BY <1>0, <1>1, <2>1, <2>3 DEF EdgeInv, PreArm, LastEdge
  <1>5. CASE PollNow
    <2>1. UNCHANGED <<off, armed, lastPps, tStart, ppsStart>> /\ pc = "poll_now"
          /\ pc' = IF Now(0) - tStart > PpsTimeout THEN "error" ELSE "poll_pps"
      BY <1>5 DEF PollNow, Access
    <2>2. t - gap < ppsStart - off[0] + PpsPeriod /\ ppsStart <= tStart + MaxGap
      BY <2>1 DEF EdgeInv, PreArm
    <2>3. ~(Now(0) - tStart > PpsTimeout)
      BY <1>0, <2>2 DEF NoStaleTiming, Now
    <2>4. pc' = "poll_pps"
      BY <2>1, <2>3
    <2> QED
      BY <1>0, <1>1, <2>1, <2>2, <2>4 DEF EdgeInv, PreArm, LastEdge
  <1>6. CASE ArmBoard \/ Wake \/ Verify0 \/ VerifyI \/ Query0 \/ QueryI
    <2>1. ~PreArm' /\ pc' # "error"
      BY <1>6 DEF ArmBoard, Wake, Verify0, VerifyI, Query0, QueryI, PreArm
    <2> QED
      BY <1>1, <2>1 DEF EdgeInv
  <1> QED
    BY <1>2, <1>3, <1>4, <1>5, <1>6 DEF Host
LEMMA EdgeStep == NoStaleTiming /\ TInv /\ EdgeInv /\ [Next]_vars => EdgeInv'
  <1> SUFFICES ASSUME NoStaleTiming, TInv, EdgeInv, [Next]_vars, ppsOn'[0]
               PROVE  EdgeInv'
    BY DEF EdgeInv
  <1>1. CASE Tick
    <2>1. ppsOn[0]
      BY <1>1 DEF Tick
    <2> QED
      BY <1>1, <2>1, TickEdge
  <1>2. CASE Host
    <2>1. ppsOn[0]
      BY <1>2 DEF Host, ReadStart, ReadStartPps, PollPps, PollNow, ArmBoard, Wake,
                  Verify0, VerifyI, Query0, QueryI, Access
    <2> QED
      BY <1>2, <2>1, HostEdge
  <1>3. CASE UNCHANGED vars
    BY <1>3 DEF vars, EdgeInv, PreArm, LastEdge
  <1> QED
    BY <1>1, <1>2, <1>3 DEF Next

(* set_time_unknown_pps never throws "no PPS" (multi_usrp.cpp 196-202)     *)
(* when board 0 gets the PPS signal, provided no value is left pending    *)
(* from an earlier call (finding 5 shows what goes wrong otherwise) and   *)
(* the 1.1 s timeout covers one period and two host gaps.                 *)
THEOREM PpsNeverTimesOut == NoStaleTiming => (Spec => []NoSpuriousTimeout)
  <1> SUFFICES ASSUME NoStaleTiming PROVE Spec => []NoSpuriousTimeout
    OBVIOUS
  <1>1. Init => TInv /\ EdgeInv
    BY TInvInit, EdgeInit
  <1>2. TInv /\ EdgeInv /\ [Next]_vars => TInv' /\ EdgeInv'
    BY TInvStep, EdgeStep
  <1>3. EdgeInv => NoSpuriousTimeout
    BY DEF EdgeInv, NoSpuriousTimeout
  <1> QED
    BY <1>1, <1>2, <1>3, PTL DEF Spec
-----------------------------------------------------------------------------
LEMMA ClockInit == Init => ClockInv
  <1> SUFFICES ASSUME Init, ppsOn[0] PROVE ClockInv
    BY DEF ClockInv
  <1> USE TimeSyncAssumption
  <1>1. 0 \in Boards /\ off \in [Boards -> InitOffsets]
    BY DEF Init, Boards
  <1>2. off[0] \in Int /\ phase \in 1 .. PpsPeriod
    BY <1>1 DEF Init
  <1>3. LastEdge = phase + (-1) * PpsPeriod
    BY <1>2 DEF Init, LastEdge
  <1>4. \E j \in -1 .. t : LastEdge = phase + j * PpsPeriod
    BY <1>3 DEF Init
  <1> QED
    BY <1>2, <1>3, <1>4 DEF Init, ClockInv

(* A tick keeps ClockInv: at an edge lastPps takes board 0's new clock, so *)
(* LastEdge becomes the tick whether or not board 0 latched.               *)
LEMMA TickClock == TInv /\ ClockInv /\ Tick /\ ppsOn[0] => ClockInv'
  <1> SUFFICES ASSUME TInv, ClockInv, Tick, ppsOn[0] PROVE ClockInv'
    OBVIOUS
  <1> USE TimeSyncAssumption
  <1>0. /\ 0 \in Boards /\ off \in [Boards -> Int] /\ t \in Nat
        /\ lastPps \in Int /\ phase \in 1 .. PpsPeriod
        /\ armed \in [Boards -> {None} \cup {Target} \cup StaleArms]
    BY DEF TInv, TypeOK, Boards
  <1>1. UNCHANGED <<ppsOn, phase>> /\ t' = t + 1
    BY DEF Tick
  <1>2. PICK j \in -1 .. t : LastEdge = phase + j * PpsPeriod
    BY DEF ClockInv
  <1>3. LastEdge <= t /\ t < LastEdge + PpsPeriod
    BY DEF ClockInv
  <1>4. (t + 1) % PpsPeriod = phase % PpsPeriod <=> t + 1 = phase + j * PpsPeriod + PpsPeriod
    <2>1. phase + j * PpsPeriod < t + 1 /\ t + 1 <= phase + j * PpsPeriod + PpsPeriod
      BY <1>2, <1>3, <1>0
    <2>2. j \in Int /\ t + 1 \in Int /\ PpsPeriod \in Nat \ {0}
      BY <1>0, <1>2
    <2> QED
      BY <2>1, <2>2, <1>0, EdgeIff, Zenon
  <1>5. CASE IsEdge(t + 1)
    <2> DEFINE latch(m) == ppsOn[m] /\ armed[m] # None
               newOff   == [m \in Boards |->
                              IF latch(m) THEN armed[m] - (t + 1) ELSE off[m]]
    <2>1. off' = newOff /\ lastPps' = t + 1 + newOff[0]
      BY <1>5 DEF Tick
    <2>6. latch(0) => armed[0] \in Int
      BY <1>0
    <2>2. newOff[0] \in Int
      BY <1>0, <2>6
    <2>3. LastEdge' = t + 1 /\ t + 1 = phase + (j + 1) * PpsPeriod
      BY <2>1, <2>2, <1>4, <1>5, <1>0 DEF LastEdge, IsEdge
    <2>4. j + 1 \in -1 .. t' /\ LastEdge' = phase' + (j + 1) * PpsPeriod
      BY <2>3, <1>1, <1>2, <1>0
    <2>5. \E i \in -1 .. t' : LastEdge' = phase' + i * PpsPeriod
      BY <2>4, Zenon
    <2>7. LastEdge' <= t' /\ t' < LastEdge' + PpsPeriod
      BY <2>3, <1>1, <1>0
    <2> QED
      BY <2>5, <2>7, Zenon DEF ClockInv
  <1>6. CASE ~IsEdge(t + 1)
    <2>1. UNCHANGED <<off, lastPps>>
      BY <1>6 DEF Tick
    <2>2. LastEdge' = LastEdge /\ t + 1 # phase + j * PpsPeriod + PpsPeriod
      BY <2>1, <1>4, <1>6, <1>0 DEF LastEdge, IsEdge
    <2>3. j \in -1 .. t' /\ LastEdge' = phase' + j * PpsPeriod
      BY <2>2, <1>1, <1>2, <1>0
    <2>4. \E i \in -1 .. t' : LastEdge' = phase' + i * PpsPeriod
      BY <2>3, Zenon
    <2>5. LastEdge' <= t' /\ t' < LastEdge' + PpsPeriod
      BY <2>2, <1>1, <1>2, <1>3, <1>0
    <2> QED
      BY <2>4, <2>5, Zenon DEF ClockInv
  <1> QED
    BY <1>5, <1>6

LEMMA ClockStep == TInv /\ ClockInv /\ [Next]_vars => ClockInv'
  <1> SUFFICES ASSUME TInv, ClockInv, [Next]_vars, ppsOn'[0] PROVE ClockInv'
    BY DEF ClockInv
  <1>1. CASE Tick
    BY <1>1, TickClock DEF Tick
  <1>2. CASE Host
    <2>1. UNCHANGED <<t, ppsOn, phase, off, lastPps>>
      BY <1>2 DEF Host, ReadStart, ReadStartPps, PollPps, PollNow, ArmBoard, Wake,
                  Verify0, VerifyI, Query0, QueryI, Access
    <2> QED
      BY <2>1 DEF ClockInv, LastEdge
  <1>3. CASE UNCHANGED vars
    BY <1>3 DEF vars, ClockInv, LastEdge
  <1> QED
    BY <1>1, <1>2, <1>3 DEF Next
-----------------------------------------------------------------------------
(* The timing the proof of SyncedOnReturn rests on: no value is pending    *)
(* from an earlier call; the poll (two gaps) and the arm loop (one gap per *)
(* board) finish within a period of the edge the poll saw; and the 1 s    *)
(* sleep lasts at least a period, so the next edge falls inside it.        *)
SyncTiming ==
    /\ StaleArms = {}
    /\ (NumMboards + 2) * MaxGap <= PpsPeriod
    /\ SettleTime >= PpsPeriod

(* What one tick does to LastEdge with PPS on board 0.                     *)
LEMMA TickLast ==
    ASSUME TInv, ClockInv, Tick, ppsOn[0]
    PROVE  /\ IsEdge(t + 1) <=> t + 1 = LastEdge + PpsPeriod
           /\ IsEdge(t + 1) => LastEdge' = t + 1
           /\ ~IsEdge(t + 1) => UNCHANGED <<off, armed, lastPps>>
  <1> USE TimeSyncAssumption
  <1>0. /\ 0 \in Boards /\ off \in [Boards -> Int] /\ t \in Nat
        /\ lastPps \in Int /\ phase \in 1 .. PpsPeriod
        /\ armed \in [Boards -> {None} \cup {Target} \cup StaleArms]
    BY DEF TInv, TypeOK, Boards
  <1>2. PICK j \in -1 .. t : LastEdge = phase + j * PpsPeriod
    BY DEF ClockInv
  <1>3. LastEdge <= t /\ t < LastEdge + PpsPeriod
    BY DEF ClockInv
  <1>4. (t + 1) % PpsPeriod = phase % PpsPeriod <=> t + 1 = phase + j * PpsPeriod + PpsPeriod
    <2>1. phase + j * PpsPeriod < t + 1 /\ t + 1 <= phase + j * PpsPeriod + PpsPeriod
      BY <1>2, <1>3, <1>0
    <2>2. j \in Int /\ t + 1 \in Int /\ PpsPeriod \in Nat \ {0}
      BY <1>0, <1>2
    <2> QED
      BY <2>1, <2>2, <1>0, EdgeIff, Zenon
  <1>5. IsEdge(t + 1) <=> t + 1 = LastEdge + PpsPeriod
    BY <1>2, <1>4 DEF IsEdge
  <1>6. IsEdge(t + 1) => LastEdge' = t + 1
    <2> SUFFICES ASSUME IsEdge(t + 1) PROVE LastEdge' = t + 1
      OBVIOUS
    <2> DEFINE latch(m) == ppsOn[m] /\ armed[m] # None
               newOff   == [m \in Boards |->
                              IF latch(m) THEN armed[m] - (t + 1) ELSE off[m]]
    <2>1. off' = newOff /\ lastPps' = t + 1 + newOff[0]
      BY DEF Tick
    <2>2. latch(0) => armed[0] \in Int
      BY <1>0
    <2>3. newOff[0] \in Int
      BY <1>0, <2>2
    <2> QED
      BY <2>1, <2>3, <1>0 DEF LastEdge
  <1>7. ~IsEdge(t + 1) => UNCHANGED <<off, armed, lastPps>>
    BY DEF Tick
  <1> QED
    BY <1>5, <1>6, <1>7
(* With nothing pending on a board with PPS, a tick moves no clock.         *)
NoPending == \A m \in Boards : ppsOn[m] => armed[m] = None

LEMMA NoLatch == TInv /\ NoPending /\ Tick => UNCHANGED <<off, armed>>
  <1> SUFFICES ASSUME TInv, NoPending, Tick PROVE UNCHANGED <<off, armed>>
    OBVIOUS
  <1>1. off \in [Boards -> Int] /\ armed \in [Boards -> {None} \cup {Target} \cup StaleArms]
    BY DEF TInv, TypeOK
  <1>2. CASE IsEdge(t + 1)
    <2> DEFINE latch(m) == ppsOn[m] /\ armed[m] # None
    <2>1. \A m \in Boards : ~latch(m)
      BY DEF NoPending
    <2>2. off' = [m \in Boards |-> IF latch(m) THEN armed[m] - (t + 1) ELSE off[m]]
          /\ armed' = [m \in Boards |-> IF latch(m) THEN None ELSE armed[m]]
      BY <1>2 DEF Tick
    <2> QED
      BY <1>1, <2>1, <2>2
  <1>3. CASE ~IsEdge(t + 1)
    BY <1>3 DEF Tick
  <1> QED
    BY <1>2, <1>3

(* A tick keeps SyncInv.  The poll bounds grow with the gap; in the arm    *)
(* loop no edge can fall (the loop is within a period of the edge the poll *)
(* saw); in the sleep the next edge latches Target on every board at once, *)
(* so all clocks agree from then on.                                       *)
LEMMA TickSync == SyncTiming /\ TInv /\ ClockInv /\ SyncInv /\ Tick => SyncInv'
  <1> SUFFICES ASSUME SyncTiming, TInv, ClockInv, SyncInv, Tick, ppsOn[0] PROVE SyncInv'
    BY DEF SyncInv, Tick
  <1> USE TimeSyncAssumption
  <1>0. /\ 0 \in Boards /\ off \in [Boards -> Int] /\ t \in Nat
        /\ gap \in 0 .. MaxGap /\ lastPps \in Int /\ ppsStart \in Int
        /\ sleepEnd \in Int /\ k \in 0 .. NumMboards
        /\ armed \in [Boards -> {None} \cup {Target} \cup StaleArms]
        /\ LastEdge \in Int /\ ppsOn[0]
    BY DEF TInv, TypeOK, Boards, LastEdge
  <1>1. UNCHANGED <<ppsOn, phase, pc, tStart, ppsStart, k, sleepEnd>> /\ t' = t + 1
    BY DEF Tick
  <1>2. /\ IsEdge(t + 1) <=> t + 1 = LastEdge + PpsPeriod
        /\ IsEdge(t + 1) => LastEdge' = t + 1
        /\ ~IsEdge(t + 1) => UNCHANGED <<off, armed, lastPps>>
    BY <1>0, TickLast
  <1>3. LastEdge <= t /\ t < LastEdge + PpsPeriod
    BY <1>0 DEF ClockInv
  <1>4. ppsOn'[0]
    BY <1>1
  <1>5. CASE pc \in {"start", "read_pps"}
    <2>1. NoneArmed
      BY <1>5 DEF SyncInv, PreArm
    <2>2. UNCHANGED <<off, armed>>
      BY <2>1, NoLatch DEF NoneArmed, NoPending
    <2> QED
      BY <1>1, <1>4, <1>5, <2>1, <2>2 DEF SyncInv, PreArm, NoneArmed, PostWake
  <1>6. CASE pc \in {"poll_pps", "poll_now"}
    <2>1. NoneArmed /\ ~Sleeping
      BY <1>6 DEF SyncInv, PreArm, Sleeping
    <2>2. UNCHANGED <<off, armed>> /\ gap' = gap + 1
      BY <2>1, NoLatch DEF Tick, NoneArmed, NoPending
    <2>3. CASE IsEdge(t + 1)
      BY <1>0, <1>1, <1>2, <1>4, <1>6, <2>1, <2>2, <2>3 DEF SyncInv, PreArm, NoneArmed, PostWake
    <2>4. CASE ~IsEdge(t + 1)
      <3>1. LastEdge' = LastEdge /\ lastPps' = lastPps
        BY <1>2, <2>4 DEF LastEdge
      <3>2. pc = "poll_now" => lastPps = ppsStart \/ t - LastEdge < gap
        BY DEF SyncInv
      <3>3. pc = "poll_pps" => lastPps = ppsStart \/ t - LastEdge < gap + MaxGap
        BY DEF SyncInv
      <3> QED
        BY <1>0, <1>1, <1>4, <1>6, <2>1, <2>2, <3>1, <3>2, <3>3 DEF SyncInv, PreArm, NoneArmed, PostWake
    <2> QED
      BY <2>3, <2>4
  <1>7. CASE pc = "arm"
    <2>1. ~Sleeping /\ gap < MaxGap /\ gap' = gap + 1
      BY <1>7 DEF Sleeping, Tick
    <2>2. t - LastEdge < gap + (k + 2) * MaxGap
          /\ \A m \in Boards : armed[m] = IF m < k THEN Target ELSE None
      BY <1>7 DEF SyncInv
    <2>3. k \in 0 .. NumMboards - 1
      BY <1>7 DEF TInv, KInv
    <2>4. (k + 2) * MaxGap + MaxGap <= (NumMboards + 2) * MaxGap
      <3>1. (NumMboards + 2) * MaxGap - ((k + 2) * MaxGap + MaxGap)
              = (NumMboards - k - 1) * MaxGap
        BY <2>3
      <3>2. (NumMboards - k - 1) * MaxGap \in Nat
        BY <2>3
      <3> QED
        BY <3>1, <3>2, <2>3
    <2>5. t + 1 < LastEdge + PpsPeriod
      BY <1>0, <2>1, <2>2, <2>4, <2>3 DEF SyncTiming
    <2>9. ~IsEdge(t + 1)
      BY <1>0, <1>2, <2>5
    <2>7. UNCHANGED <<off, armed, lastPps>>
      BY <1>2, <2>9
    <2>6. LastEdge' = LastEdge
      BY <2>7 DEF LastEdge
    <2>8. t' - LastEdge' < gap' + (k' + 2) * MaxGap
      BY <1>0, <1>1, <2>1, <2>2, <2>6
    <2> QED
      BY <1>1, <1>4, <1>7, <2>2, <2>7, <2>8 DEF SyncInv, PreArm, PostWake
  <1>8. CASE pc = "sleep"
    <2>1. CASE /\ \A m \in Boards : armed[m] = Target
               /\ t < LastEdge + PpsPeriod
               /\ LastEdge + PpsPeriod <= sleepEnd
      <3>1. Sleeping /\ gap' = 0
        BY <1>8, <2>1, <1>0 DEF Sleeping, Tick
      <3>2. CASE IsEdge(t + 1)
        <4> DEFINE latch(m) == ppsOn[m] /\ armed[m] # None
        <4>1. \A m \in Boards : latch(m) <=> ppsOn[m]
          BY <2>1
        <4>2. off' = [m \in Boards |-> IF latch(m) THEN armed[m] - (t + 1) ELSE off[m]]
              /\ armed' = [m \in Boards |-> IF latch(m) THEN None ELSE armed[m]]
          BY <3>2 DEF Tick
        <4>3. \A m \in Boards : ppsOn[m] => off'[m] = Target - (t + 1) /\ armed'[m] = None
          BY <2>1, <4>1, <4>2
        <4>4. PpsDone'
          BY <4>3, <1>0, <1>1 DEF PpsDone
        <4> QED
          BY <1>1, <1>4, <1>8, <4>4 DEF SyncInv, PreArm, PostWake
      <3>3. CASE ~IsEdge(t + 1)
        <4>1. UNCHANGED <<off, armed, lastPps>> /\ t + 1 # LastEdge + PpsPeriod
          BY <1>2, <3>3
        <4>3. LastEdge' = LastEdge
          BY <4>1 DEF LastEdge
        <4>2. LastEdge' = LastEdge /\ t' < LastEdge' + PpsPeriod
          BY <4>1, <4>3, <1>1, <2>1, <1>0
        <4>4. /\ \A m \in Boards : armed'[m] = Target
              /\ t' < LastEdge' + PpsPeriod
              /\ LastEdge' + PpsPeriod <= sleepEnd'
          BY <1>1, <2>1, <4>1, <4>2, <4>3
        <4> QED
          BY <1>1, <1>4, <1>8, <4>4 DEF SyncInv, PreArm, PostWake
      <3> QED
        BY <3>2, <3>3
    <2>2. CASE PpsDone
      <3>1. UNCHANGED <<off, armed>>
        BY <2>2, NoLatch DEF PpsDone, NoPending
      <3> QED
        BY <1>1, <1>4, <1>8, <2>2, <3>1 DEF SyncInv, PreArm, PpsDone, PostWake
    <2> QED
      BY <1>8, <2>1, <2>2 DEF SyncInv
  <1>9. CASE pc \in {"verify0", "verifyi", "query0", "queryi", "returned"}
    <2>1. PpsDone
      BY <1>9 DEF SyncInv, PostWake
    <2>2. UNCHANGED <<off, armed>>
      BY <2>1, NoLatch DEF PpsDone, NoPending
    <2> QED
      BY <1>1, <1>4, <1>9, <2>1, <2>2 DEF SyncInv, PreArm, PpsDone, PostWake
  <1>10. CASE pc = "error"
    BY <1>1, <1>10 DEF SyncInv, PreArm, PostWake
  <1> QED
    BY <1>5, <1>6, <1>7, <1>8, <1>9, <1>10 DEF TInv, TypeOK, PCs
(* A host access keeps SyncInv.  The poll that sees the edge starts the    *)
(* arm loop within two gaps of it; each arm takes one more gap; the last   *)
(* arm starts a sleep that outlasts the next edge; the thread wakes only   *)
(* after it, when every board has latched.                                 *)
LEMMA HostSync == SyncTiming /\ TInv /\ ClockInv /\ SyncInv /\ Host => SyncInv'
  <1> SUFFICES ASSUME SyncTiming, TInv, ClockInv, SyncInv, Host, ppsOn[0] PROVE SyncInv'
    BY DEF SyncInv, Host, ReadStart, ReadStartPps, PollPps, PollNow, ArmBoard,
           Wake, Verify0, VerifyI, Query0, QueryI, Access
  <1> USE TimeSyncAssumption
  <1>0. /\ 0 \in Boards /\ off \in [Boards -> Int] /\ t \in Nat
        /\ gap \in 0 .. MaxGap /\ lastPps \in Int /\ ppsStart \in Int
        /\ sleepEnd \in Int /\ k \in 0 .. NumMboards
        /\ armed \in [Boards -> {None} \cup {Target} \cup StaleArms]
        /\ LastEdge \in Int /\ ppsOn[0]
    BY DEF TInv, TypeOK, Boards, LastEdge
  <1>1. UNCHANGED <<t, ppsOn, phase, off, lastPps>> /\ gap' = 0
    BY DEF Host, ReadStart, ReadStartPps, PollPps, PollNow, ArmBoard, Wake,
           Verify0, VerifyI, Query0, QueryI, Access
  <1>2. ppsOn'[0] /\ LastEdge' = LastEdge
    BY <1>0, <1>1 DEF LastEdge
  <1>3. LastEdge <= t /\ t < LastEdge + PpsPeriod
    BY <1>0 DEF ClockInv
  <1>4. CASE ReadStart
    BY <1>2, <1>4 DEF ReadStart, Access, SyncInv, PreArm, NoneArmed, PostWake
  <1>5. CASE ReadStartPps
    BY <1>2, <1>4, <1>5 DEF ReadStartPps, Access, SyncInv, PreArm, NoneArmed, PostWake
  <1>6. CASE PollPps
    <2>1. UNCHANGED <<armed, ppsStart>> /\ pc = "poll_pps" /\ k' = 0
          /\ pc' = IF lastPps # ppsStart THEN "arm" ELSE "poll_now"
      BY <1>6 DEF PollPps, Access
    <2>2. NoneArmed /\ (lastPps = ppsStart \/ t - LastEdge < gap + MaxGap)
      BY <2>1 DEF SyncInv, PreArm
    <2>3. CASE lastPps # ppsStart
      <3>1. t' - LastEdge' < gap' + (k' + 2) * MaxGap
        BY <1>0, <1>1, <1>2, <2>1, <2>2, <2>3
      <3>2. \A m \in Boards : armed'[m] = IF m < k' THEN Target ELSE None
        BY <2>1, <2>2 DEF NoneArmed, Boards
      <3> QED
        BY <1>2, <2>1, <2>3, <3>1, <3>2 DEF SyncInv, PreArm, PostWake
    <2>4. CASE lastPps = ppsStart
      BY <1>1, <1>2, <2>1, <2>2, <2>4 DEF SyncInv, PreArm, NoneArmed, PostWake
    <2> QED
      BY <2>3, <2>4
  <1>7. CASE PollNow
    <2>1. UNCHANGED <<armed, ppsStart>> /\ pc = "poll_now"
          /\ pc' \in {"error", "poll_pps"}
      BY <1>7 DEF PollNow, Access
    <2>2. NoneArmed /\ (lastPps = ppsStart \/ t - LastEdge < gap)
      BY <2>1 DEF SyncInv, PreArm
    <2>3. lastPps' = ppsStart' \/ t' - LastEdge' < gap' + MaxGap
      BY <1>0, <1>1, <1>2, <2>1, <2>2
    <2> QED
      BY <1>2, <2>1, <2>2, <2>3 DEF SyncInv, PreArm, NoneArmed, PostWake
  <1>8. CASE ArmBoard
    <2>1. /\ pc = "arm" /\ k \in 0 .. NumMboards - 1
          /\ armed' = [armed EXCEPT ![k] = Target] /\ k' = k + 1
          /\ IF k + 1 < NumMboards
             THEN pc' = "arm" /\ UNCHANGED sleepEnd
             ELSE pc' = "sleep" /\ sleepEnd' = t + SettleTime
      BY <1>8 DEF ArmBoard, Access, TInv, KInv
    <2>2. /\ t - LastEdge < gap + (k + 2) * MaxGap
          /\ \A m \in Boards : armed[m] = IF m < k THEN Target ELSE None
      BY <2>1 DEF SyncInv
    <2>3. \A m \in Boards : armed'[m] = IF m < k + 1 THEN Target ELSE None
      BY <1>0, <2>1, <2>2 DEF Boards
    <2>4. t - LastEdge < (k + 3) * MaxGap
      BY <1>0, <2>1, <2>2
    <2>5. CASE k + 1 < NumMboards
      <3>1. t' - LastEdge' < gap' + (k' + 2) * MaxGap
        BY <1>0, <1>1, <1>2, <2>1, <2>4
      <3> QED
        BY <1>2, <2>1, <2>3, <2>5, <3>1 DEF SyncInv, PreArm, PostWake
    <2>6. CASE ~(k + 1 < NumMboards)
      <3>1. k + 3 = NumMboards + 2
        BY <2>1, <2>6
      <3>2. t < LastEdge + PpsPeriod
        BY <1>0, <2>4, <3>1 DEF SyncTiming
      <3>3. LastEdge + PpsPeriod <= sleepEnd'
        BY <1>0, <1>3, <2>1, <2>6 DEF SyncTiming
      <3>4. \A m \in Boards : armed'[m] = Target
        BY <2>1, <2>3, <2>6 DEF Boards
      <3> QED
        BY <1>1, <1>2, <2>1, <2>6, <3>2, <3>3, <3>4 DEF SyncInv, PreArm, PostWake
    <2> QED
      BY <2>5, <2>6
  <1>9. CASE Wake
    <2>1. pc = "sleep" /\ ~Sleeping /\ pc' \in {"verify0", "query0"}
          /\ UNCHANGED <<armed, sleepEnd>>
      BY <1>9 DEF Wake, Access
    <2>2. t >= sleepEnd
      BY <2>1, <1>0 DEF Sleeping
    <2>3. PpsDone
      BY <1>0, <2>1, <2>2 DEF SyncInv
    <2> QED
      BY <1>1, <1>2, <2>1, <2>3 DEF SyncInv, PreArm, PpsDone, PostWake
  <1>10. CASE Verify0 \/ VerifyI \/ Query0 \/ QueryI
    <2>1. /\ pc \in {"verify0", "verifyi", "query0", "queryi"}
          /\ pc' \in {"verify0", "verifyi", "query0", "queryi", "returned"}
          /\ UNCHANGED armed
      <3>1. CASE QueryI
        <4>1. pc = "queryi" /\ UNCHANGED armed
          BY <3>1 DEF QueryI, Access
        <4>2. pc' \in {"query0", "returned"}
          BY <3>1 DEF QueryI
        <4> QED
          BY <4>1, <4>2
      <3> QED
        BY <1>10, <3>1 DEF Verify0, VerifyI, Query0, Access
    <2>2. PpsDone
      BY <2>1 DEF SyncInv, PostWake
    <2> QED
      BY <1>1, <1>2, <2>1, <2>2 DEF SyncInv, PreArm, PpsDone, PostWake
  <1> QED
    BY <1>4, <1>5, <1>6, <1>7, <1>8, <1>9, <1>10 DEF Host
LEMMA SyncInit == SyncTiming => (Init => SyncInv)
  <1> SUFFICES ASSUME SyncTiming, Init, ppsOn[0] PROVE SyncInv
    BY DEF SyncInv
  <1>1. armed \in [Boards -> {None}]
    BY DEF Init, SyncTiming
  <1> QED
    BY <1>1 DEF Init, SyncInv, PreArm, NoneArmed, PostWake

LEMMA SyncStep == SyncTiming /\ TInv /\ ClockInv /\ SyncInv /\ [Next]_vars => SyncInv'
  <1> SUFFICES ASSUME SyncTiming, TInv, ClockInv, SyncInv, [Next]_vars PROVE SyncInv'
    OBVIOUS
  <1>1. CASE Tick
    BY <1>1, TickSync
  <1>2. CASE Host
    BY <1>2, HostSync
  <1>3. CASE UNCHANGED vars
    BY <1>3 DEF vars, SyncInv, PreArm, NoneArmed, PpsDone, PostWake, LastEdge
  <1> QED
    BY <1>1, <1>2, <1>3 DEF Next

(* When every board gets the PPS, set_time_unknown_pps (multi_usrp.cpp     *)
(* 184-220) leaves every clock equal and nothing pending once it returns,  *)
(* provided the arm loop runs within a period of the edge the poll saw and *)
(* the 1 s sleep lasts at least a period: SyncedOnReturn for every number  *)
(* of boards, offsets, phases and timings that satisfy SyncTiming.         *)
THEOREM AlignedOnReturn == SyncTiming => (Spec => []SyncedOnReturn)
  <1> SUFFICES ASSUME SyncTiming PROVE Spec => []SyncedOnReturn
    OBVIOUS
  <1>1. Init => TInv /\ ClockInv /\ SyncInv
    BY TInvInit, ClockInit, SyncInit
  <1>2. TInv /\ ClockInv /\ SyncInv /\ [Next]_vars => (TInv /\ ClockInv /\ SyncInv)'
    BY TInvStep, ClockStep, SyncStep
  <1>3. SyncInv => SyncedOnReturn
    <2> SUFFICES ASSUME SyncInv, AllPps, pc \in {"query0", "queryi", "returned"} PROVE NoneArmed /\ Aligned
      BY DEF SyncedOnReturn, NoneArmed, Aligned, AllPps
    <2>1. ppsOn[0]
      BY TimeSyncAssumption DEF AllPps, Boards
    <2>2. PpsDone
      BY <2>1 DEF SyncInv, PostWake
    <2> QED
      BY <2>2 DEF PpsDone, AllPps, NoneArmed, Aligned
  <1> QED
    BY <1>1, <1>2, <1>3, PTL DEF Spec
-----------------------------------------------------------------------------
(* Without PPS on board 0 nothing moves lastPps, so the poll loop sees no *)
(* edge and the procedure never arms.                                      *)
LEMMA NoPpsInit == Init => NoPpsInv
  BY DEF Init, NoPpsInv

LEMMA NoPpsStep == TInv /\ NoPpsInv /\ [Next]_vars => NoPpsInv'
  <1> SUFFICES ASSUME TInv, NoPpsInv, [Next]_vars, ~ppsOn'[0] PROVE NoPpsInv'
    BY DEF NoPpsInv
  <1>0. ~ppsOn[0] /\ ppsOn' = ppsOn
    BY DEF Next, Tick, Host, ReadStart, ReadStartPps, PollPps, PollNow, ArmBoard,
           Wake, Verify0, VerifyI, Query0, QueryI, Access, vars
  <1>1. pc \in {"start", "read_pps", "poll_pps", "poll_now", "error"}
        /\ (pc \in {"poll_pps", "poll_now"} => lastPps = ppsStart)
    BY <1>0 DEF NoPpsInv
  <1>2. CASE Tick
    <2>1. UNCHANGED <<pc, ppsStart, lastPps>>
      BY <1>0, <1>2 DEF Tick
    <2> QED
      BY <1>0, <1>1, <2>1 DEF NoPpsInv
  <1>3. CASE ReadStart \/ ReadStartPps \/ PollPps \/ PollNow
    BY <1>0, <1>1, <1>3 DEF NoPpsInv, ReadStart, ReadStartPps, PollPps, PollNow, Access
  <1>4. CASE ArmBoard \/ Wake \/ Verify0 \/ VerifyI \/ Query0 \/ QueryI
    BY <1>1, <1>4 DEF ArmBoard, Wake, Verify0, VerifyI, Query0, QueryI, Access
  <1>5. CASE UNCHANGED vars
    BY <1>0, <1>1, <1>5 DEF vars, NoPpsInv
  <1> QED
    BY <1>2, <1>3, <1>4, <1>5 DEF Next, Host

(* After the thread wakes no clock moves: board 0 has the PPS, boards     *)
(* with it have nothing pending, and boards without it never latch.        *)
LEMMA StableAfterWake ==
    SyncTiming /\ TInv /\ SyncInv /\ NoPpsInv /\ PostWake /\ Tick => UNCHANGED <<off, armed>>
  <1> SUFFICES ASSUME SyncTiming, TInv, SyncInv, NoPpsInv, PostWake, Tick
               PROVE  UNCHANGED <<off, armed>>
    OBVIOUS
  <1>1. ppsOn[0]
    BY DEF NoPpsInv, PostWake
  <1>2. PpsDone
    BY <1>1 DEF SyncInv
  <1> QED
    BY <1>2, NoLatch DEF PpsDone, NoPending

VerifyTiming == SyncTiming /\ MaxGap <= SyncTol

(* The deviation test of lines 213 and 227, with board 0 read g ticks      *)
(* before board k, never fires for equal clocks and always fires for a     *)
(* misaligned one, once a host gap is within the 10 ms tolerance.          *)
LEMMA DeviatesExact ==
    ASSUME NEW o0 \in Int, NEW ok \in Int, NEW tt \in Int, NEW g \in 0 .. MaxGap,
           MaxGap <= SyncTol
    PROVE  /\ ok = o0 => ~Deviates(tt - g + o0, tt + ok)
           /\ (ok < o0 - MaxGap \/ ok > o0 + SyncTol) => Deviates(tt - g + o0, tt + ok)
  BY TimeSyncAssumption DEF Deviates

LEMMA VerifyInit == Init => VerifyInv
  BY DEF Init, VerifyInv, PostWake

(* A tick changes no verdict: before the wake nothing is judged, and after *)
(* it the clocks stand still while t and the gap since the read of board 0 *)
(* grow together.                                                          *)
LEMMA TickVerify ==
    SyncTiming /\ TInv /\ SyncInv /\ NoPpsInv /\ VerifyInv /\ Tick => VerifyInv'
  <1> SUFFICES ASSUME SyncTiming, TInv, SyncInv, NoPpsInv, VerifyInv, Tick
               PROVE  VerifyInv'
    OBVIOUS
  <1>1. UNCHANGED <<pc, k, time0, warned, synced>>
    BY DEF Tick
  <1>2. CASE PostWake
    <2>1. UNCHANGED <<off, armed>>
      BY <1>2, StableAfterWake
    <2>2. \A m : Judged(m)' = Judged(m) /\ Misaligned(m)' = Misaligned(m)
      BY <1>1, <2>1 DEF Judged, Misaligned
    <2>3. pc \in {"verifyi", "queryi"} => t' - gap' = t - gap
      <3>1. pc \in {"verifyi", "queryi"} => ~Sleeping
        BY DEF Sleeping
      <3>2. t \in Nat /\ gap \in Nat
        BY TimeSyncAssumption DEF TInv, TypeOK
      <3> QED
        BY <3>1, <3>2 DEF Tick
    <2>4. (pc \in {"verifyi", "queryi"} => time0 = t - gap + off[0])'
      BY <1>1, <2>1, <2>3 DEF VerifyInv
    <2>5. (\E b \in Boards \ {0} : off[b] # off[0])' = \E b \in Boards \ {0} : off[b] # off[0]
      BY <2>1
    <2> QED
      BY <1>1, <1>2, <2>2, <2>4, <2>5, Zenon DEF VerifyInv, PostWake
  <1>3. CASE ~PostWake
    BY <1>1, <1>3 DEF VerifyInv, PostWake
  <1> QED
    BY <1>2, <1>3

(* At the read of board k, the test judges it exactly.                     *)
LEMMA ReadK ==
    ASSUME VerifyTiming, TInv, VerifyInv, pc \in {"verifyi", "queryi"}
    PROVE  /\ k \in 1 .. NumMboards - 1
           /\ off[k] = off[0] => ~Deviates(time0, Now(k))
           /\ Misaligned(k) => Deviates(time0, Now(k))
  <1>1. k \in 1 .. NumMboards - 1
    BY DEF TInv, KInv
  <1>2. /\ off[k] \in Int /\ off[0] \in Int /\ t \in Int /\ gap \in 0 .. MaxGap
        /\ MaxGap <= SyncTol
    BY <1>1, TimeSyncAssumption DEF TInv, TypeOK, Boards, VerifyTiming
  <1>3. time0 = t - gap + off[0] /\ Now(k) = t + off[k]
    BY DEF VerifyInv, Now
  <1>4. /\ off[k] = off[0] => ~Deviates(t - gap + off[0], t + off[k])
        /\ (off[k] < off[0] - MaxGap \/ off[k] > off[0] + SyncTol)
               => Deviates(t - gap + off[0], t + off[k])
    BY <1>2, DeviatesExact, Zenon
  <1> QED
    BY <1>1, <1>3, <1>4 DEF Misaligned

(* A host access keeps VerifyInv: the verify loop judges board k at its    *)
(* read and moves on; the query loop stops at the first deviation, which  *)
(* only a board with a different clock can show.                           *)
LEMMA HostVerify == VerifyTiming /\ TInv /\ VerifyInv /\ Host => VerifyInv'
  <1> SUFFICES ASSUME VerifyTiming, TInv, VerifyInv, Host PROVE VerifyInv'
    OBVIOUS
  <1>0. /\ off \in [Boards -> Int] /\ t \in Nat /\ k \in 0 .. NumMboards
        /\ 0 \in Boards /\ None # TRUE /\ None # FALSE
    <2>1. None # TRUE /\ None # FALSE
      BY TimeSyncAssumption, Zenon
    <2>2. 0 \in Boards
      BY TimeSyncAssumption DEF Boards
    <2>3. off \in [Boards -> Int] /\ t \in Nat /\ k \in 0 .. NumMboards
      BY DEF TInv, TypeOK
    <2> QED
      BY <2>1, <2>2, <2>3
  <1>1. UNCHANGED <<t, off>> /\ gap' = 0
    BY DEF Host, ReadStart, ReadStartPps, PollPps, PollNow, ArmBoard, Wake,
           Verify0, VerifyI, Query0, QueryI, Access
  <1>2. \A m : Misaligned(m)' = Misaligned(m)
    BY <1>1, Zenon DEF Misaligned
  <1>3. CASE ReadStart \/ ReadStartPps \/ PollPps \/ PollNow \/ ArmBoard
    <2>1. ~PostWake /\ ~PostWake' /\ UNCHANGED <<warned, synced>>
      BY <1>3 DEF ReadStart, ReadStartPps, PollPps, PollNow, ArmBoard, Access, PostWake
    <2> QED
      BY <2>1 DEF VerifyInv, PostWake
  <1>4. CASE Wake
    <2>1. pc = "sleep" /\ k' = 1 /\ UNCHANGED <<warned, synced>>
          /\ pc' = IF NumMboards > 1 THEN "verify0" ELSE "query0"
      BY <1>4 DEF Wake, Access
    <2>2. warned = {} /\ synced = None
      BY <2>1 DEF VerifyInv, PostWake
    <2>3. CASE NumMboards > 1
      BY <2>1, <2>2, <2>3 DEF VerifyInv, PostWake
    <2>4. CASE ~(NumMboards > 1)
      <3>1. Boards \ {0} = {}
        BY <2>4, TimeSyncAssumption DEF Boards
      <3> QED
        BY <2>1, <2>2, <2>4, <3>1, <1>0 DEF VerifyInv, PostWake
    <2> QED
      BY <2>3, <2>4
  <1>5. CASE Verify0
    <2>1. pc = "verify0" /\ pc' = "verifyi" /\ time0' = t + off[0]
          /\ UNCHANGED <<k, warned, synced>>
      BY <1>5 DEF Verify0, Access, Now
    <2>2. \A m : Judged(m)' = Judged(m)
      BY <1>1, <2>1 DEF Judged, Misaligned
    <2>3. time0' = t' - gap' + off'[0]
      BY <1>0, <1>1, <2>1
    <2>4. /\ \A m \in 1 .. k' - 1 : Judged(m)'
          /\ \A m \in k' .. NumMboards - 1 : m \notin warned'
          /\ synced' = None
      BY <2>1, <2>2 DEF VerifyInv
    <2> QED
      BY <2>1, <2>3, <2>4, <1>0 DEF VerifyInv, PostWake
  <1>6. CASE VerifyI
    <2> DEFINE dev == Deviates(time0, Now(k))
    <2>1. /\ pc = "verifyi" /\ UNCHANGED <<time0, synced>>
          /\ warned' = IF dev THEN warned \cup {k} ELSE warned
          /\ k' = IF k + 1 < NumMboards THEN k + 1 ELSE 1
          /\ pc' = IF k + 1 < NumMboards THEN "verify0" ELSE "query0"
      BY <1>6 DEF VerifyI, Access
    <2>2. /\ k \in 1 .. NumMboards - 1
          /\ off[k] = off[0] => ~dev
          /\ Misaligned(k) => dev
      BY <2>1, ReadK
    <2>3. /\ \A m \in 1 .. k - 1 : Judged(m)
          /\ \A m \in k .. NumMboards - 1 : m \notin warned
          /\ synced = None
      BY <2>1 DEF VerifyInv
    <2>4. \A m \in 1 .. k : Judged(m)'
      <3> SUFFICES ASSUME NEW m \in 1 .. k PROVE Judged(m)'
        OBVIOUS
      <3>1. off'[m] = off[m] /\ off'[0] = off[0]
        BY <1>1
      <3>2. CASE m = k
        <4>1. off[m] = off[0] => m \notin warned'
          BY <2>1, <2>2, <2>3, <3>2
        <4>2. Misaligned(m) => m \in warned'
          BY <2>1, <2>2, <3>2
        <4> QED
          BY <4>1, <4>2, <3>1 DEF Judged, Misaligned
      <3>3. CASE m # k
        <4>1. (m \in warned') = (m \in warned) /\ Judged(m)
          BY <2>1, <2>2, <2>3, <3>3
        <4> QED
          BY <4>1, <3>1 DEF Judged, Misaligned
      <3> QED
        BY <3>2, <3>3
    <2>5. \A m \in k + 1 .. NumMboards - 1 : m \notin warned'
      BY <2>1, <2>2, <2>3
    <2>6. CASE k + 1 < NumMboards
      <3>1. pc' = "verify0" /\ k' = k + 1
        BY <2>1, <2>6
      <3>2. 1 .. k' - 1 = 1 .. k /\ k' .. NumMboards - 1 = k + 1 .. NumMboards - 1
        BY <3>1, <2>2
      <3>3. /\ \A m \in 1 .. k' - 1 : Judged(m)'
            /\ \A m \in k' .. NumMboards - 1 : m \notin warned'
        BY <3>2, <2>4, <2>5
      <3> QED
        BY <2>1, <2>3, <3>1, <3>3 DEF VerifyInv, PostWake
    <2>7. CASE ~(k + 1 < NumMboards)
      <3>1. pc' = "query0" /\ k' = 1
        BY <2>1, <2>7
      <3>2. Boards \ {0} = 1 .. k
        <4>1. k = NumMboards - 1
          BY <2>2, <2>7, TimeSyncAssumption
        <4> QED
          BY <4>1, TimeSyncAssumption DEF Boards
      <3>3. \A m \in Boards \ {0} : Judged(m)'
        BY <3>2, <2>4
      <3>4. 1 .. k' - 1 = {}
        BY <3>1
      <3> QED
        BY <2>1, <2>3, <3>1, <3>3, <3>4 DEF VerifyInv, PostWake
    <2> QED
      BY <2>6, <2>7
  <1>7. CASE Query0
    <2>1. pc = "query0" /\ UNCHANGED <<k, warned>>
      BY <1>7 DEF Query0, Access
    <2>2. /\ \A m \in Boards \ {0} : Judged(m)
          /\ \A m \in 1 .. k - 1 : ~Misaligned(m)
          /\ synced = None
      BY <2>1 DEF VerifyInv
    <2>3. /\ \A m \in Boards \ {0} : Judged(m)'
          /\ \A m \in 1 .. k' - 1 : ~Misaligned(m)'
      BY <1>1, <1>2, <2>1, <2>2 DEF Judged
    <2>4. CASE NumMboards > 1
      <3>1. pc' = "queryi" /\ time0' = t + off[0] /\ synced' = None
        BY <1>7, <2>2, <2>4 DEF Query0, Now
      <3>2. time0' = t' - gap' + off'[0]
        BY <1>0, <1>1, <3>1
      <3> QED
        BY <2>1, <2>3, <3>1, <3>2 DEF VerifyInv, PostWake
    <2>5. CASE ~(NumMboards > 1)
      <3>1. pc' = "returned" /\ synced' = TRUE
        BY <1>7, <2>5 DEF Query0
      <3>2. Boards \ {0} = {}
        BY <2>5, TimeSyncAssumption DEF Boards
      <3> QED
        BY <1>0, <3>1, <3>2 DEF VerifyInv, PostWake
    <2> QED
      BY <2>4, <2>5
  <1>8. CASE QueryI
    <2> DEFINE dev == Deviates(time0, Now(k))
    <2>1. /\ pc = "queryi" /\ UNCHANGED warned
          /\ IF dev
             THEN synced' = FALSE /\ pc' = "returned" /\ k' = k
             ELSE IF k + 1 < NumMboards
                  THEN pc' = "query0" /\ k' = k + 1 /\ UNCHANGED synced
                  ELSE synced' = TRUE /\ pc' = "returned" /\ k' = k
      BY <1>8 DEF QueryI, Access
    <2>2. /\ k \in 1 .. NumMboards - 1
          /\ off[k] = off[0] => ~dev
          /\ Misaligned(k) => dev
      BY <2>1, ReadK
    <2>3. /\ \A m \in Boards \ {0} : Judged(m)
          /\ \A m \in 1 .. k - 1 : ~Misaligned(m)
          /\ synced = None
      BY <2>1 DEF VerifyInv
    <2>4. \A m \in Boards \ {0} : Judged(m)'
      BY <1>1, <2>1, <2>3 DEF Judged, Misaligned
    <2>5. k \in Boards \ {0}
      BY <2>2 DEF Boards
    <2>6. CASE dev
      <3>1. synced' = FALSE /\ pc' = "returned"
        BY <2>1, <2>6
      <3>2. \E b \in Boards \ {0} : off'[b] # off'[0]
        BY <1>1, <2>2, <2>5, <2>6
      <3> QED
        BY <1>0, <2>4, <3>1, <3>2 DEF VerifyInv, PostWake
    <2>7. CASE ~dev /\ k + 1 < NumMboards
      <3>1. pc' = "query0" /\ k' = k + 1 /\ synced' = None
        BY <2>1, <2>3, <2>7
      <3>2. 1 .. k' - 1 = 1 .. k
        BY <3>1, <2>2
      <3>3. \A m \in 1 .. k : ~Misaligned(m)
        BY <2>2, <2>3, <2>7
      <3>4. \A m \in 1 .. k' - 1 : ~Misaligned(m)'
        BY <1>2, <3>2, <3>3, Zenon
      <3> QED
        BY <2>4, <3>1, <3>4 DEF VerifyInv, PostWake
    <2>8. CASE ~dev /\ ~(k + 1 < NumMboards)
      <3>1. synced' = TRUE /\ pc' = "returned"
        BY <2>1, <2>8
      <3>2. Boards \ {0} = 1 .. k
        <4>1. k = NumMboards - 1
          BY <2>2, <2>8, TimeSyncAssumption
        <4> QED
          BY <4>1, TimeSyncAssumption DEF Boards
      <3>3. \A m \in Boards \ {0} : ~Misaligned(m)'
        BY <1>2, <2>2, <2>3, <2>8, <3>2
      <3> QED
        BY <1>0, <2>4, <3>1, <3>3 DEF VerifyInv, PostWake
    <2> QED
      BY <2>6, <2>7, <2>8
  <1> QED
    BY <1>3, <1>4, <1>5, <1>6, <1>7, <1>8 DEF Host

LEMMA VerifyStep ==
    VerifyTiming /\ TInv /\ SyncInv /\ NoPpsInv /\ VerifyInv /\ [Next]_vars => VerifyInv'
  <1> SUFFICES ASSUME VerifyTiming, TInv, SyncInv, NoPpsInv, VerifyInv, [Next]_vars
               PROVE  VerifyInv'
    OBVIOUS
  <1>1. CASE Tick
    BY <1>1, TickVerify DEF VerifyTiming
  <1>2. CASE Host
    BY <1>2, HostVerify
  <1>3. CASE UNCHANGED vars
    BY <1>3 DEF vars, VerifyInv, PostWake, Judged, Misaligned
  <1> QED
    BY <1>1, <1>2, <1>3 DEF Next

(* The verify loop of set_time_unknown_pps (multi_usrp.cpp 210-220) warns  *)
(* about a board exactly when its clock is off, and get_time_synchronized  *)
(* (223-230) answers true only when no clock is off and false only when   *)
(* some clock differs: VerifyExact for every number of boards, offsets,    *)
(* phases and timings with SyncTiming and a host gap within the 10 ms     *)
(* tolerance.                                                              *)
THEOREM VerifyJudgesExactly == VerifyTiming => (Spec => []VerifyExact)
  <1> SUFFICES ASSUME VerifyTiming PROVE Spec => []VerifyExact
    OBVIOUS
  <1> DEFINE IInv == TInv /\ ClockInv /\ SyncInv /\ NoPpsInv /\ VerifyInv
  <1>0. SyncTiming
    BY DEF VerifyTiming
  <1>1. Init => IInv
    BY <1>0, TInvInit, ClockInit, SyncInit, NoPpsInit, VerifyInit
  <1>2. IInv /\ [Next]_vars => IInv'
    BY <1>0, TInvStep, ClockStep, SyncStep, NoPpsStep, VerifyStep
  <1>3. IInv => VerifyExact
    <2> SUFFICES ASSUME IInv, pc \in {"query0", "queryi", "returned"},
                        NEW m \in Boards \ {0}
                 PROVE  /\ off[m] = off[0] => m \notin warned
                        /\ Misaligned(m) => m \in warned
                        /\ synced = TRUE => ~Misaligned(m)
                        /\ synced = FALSE => \E b \in Boards \ {0} : off[b] # off[0]
      BY DEF VerifyExact
    <2>1. Judged(m)
      BY DEF VerifyInv
    <2>2. pc # "returned" => synced # TRUE /\ synced # FALSE
      BY TimeSyncAssumption, Zenon DEF VerifyInv
    <2> QED
      BY <2>1, <2>2 DEF Judged, VerifyInv
  <1> QED
    BY <1>1, <1>2, <1>3, PTL DEF Spec

(* From the wake after the settle sleep (multi_usrp.cpp line 207) on, no  *)
(* board's clock moves and nothing pending is latched, whichever boards    *)
(* get the PPS: boards with it latched before the wake, boards without it  *)
(* never latch.  The verify and query loops read settled clocks.           *)
ClocksSettled == [][PostWake => UNCHANGED <<off, armed>>]_vars

(* Under SyncTiming the clocks are settled at the wake, for every number   *)
(* of boards and every set of boards with the PPS.                         *)
THEOREM SettledAfterWake == SyncTiming => (Spec => ClocksSettled)
  <1> SUFFICES ASSUME SyncTiming PROVE Spec => ClocksSettled
    OBVIOUS
  <1> DEFINE IInv == TInv /\ ClockInv /\ SyncInv /\ NoPpsInv
  <1>1. Init => IInv
    BY TInvInit, ClockInit, SyncInit, NoPpsInit
  <1>2. IInv /\ [Next]_vars => IInv'
    BY TInvStep, ClockStep, SyncStep, NoPpsStep
  <1>3. IInv /\ [Next]_vars => [PostWake => UNCHANGED <<off, armed>>]_vars
    <2> SUFFICES ASSUME IInv, [Next]_vars, PostWake PROVE UNCHANGED <<off, armed>>
      OBVIOUS
    <2>1. CASE Tick
      BY <2>1, StableAfterWake
    <2>2. CASE Host
      BY <2>2 DEF Host, ReadStart, ReadStartPps, PollPps, PollNow, ArmBoard, Wake,
                  Verify0, VerifyI, Query0, QueryI, Access, PostWake
    <2>3. CASE UNCHANGED vars
      BY <2>3 DEF vars
    <2> QED
      BY <2>1, <2>2, <2>3 DEF Next
  <1> QED
    BY <1>1, <1>2, <1>3, PTL DEF Spec, ClocksSettled

=============================================================================
