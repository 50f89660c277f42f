------------------------ MODULE DboardContractProofs ------------------------
(***************************************************************************)
(* Proofs about the proxies a manager files: the transceiver and separate  *)
(* aliasing invariants, and that the manager implements its client         *)
(* contract (DboardManagerContract), for any sets of ids, constructors,    *)
(* names, registrations and motherboards.                                  *)
(*                                                                         *)
(* The argument rests on the shape of what a constructor files: the proxy  *)
(* under (m, d, n) names the instance <<m, kind, n>>, where the kind is    *)
(* "xcvr" for both directions when the two constructors are equal and     *)
(* "rx" / "tx" by direction otherwise.  Two proxies therefore share an    *)
(* instance exactly when they are the two sides of one name of one shared *)
(* manager.                                                                *)
(***************************************************************************)
EXTENDS DboardManagerProofs

Shared(m) == mgrIds[m].rxCtor = mgrIds[m].txCtor

KindOf(m, d) == IF Shared(m) THEN "xcvr" ELSE IF d = "RX" THEN "rx" ELSE "tx"

InstOf(m, d, n) == <<m, KindOf(m, d), n>>

(* Every filed proxy names the instance of its shape, with its direction.  *)
ProxyShape ==
    \A m \in Mboards, d \in Dirs, n \in Names :
        Filed(m, d, n) => db[m][d][n] = [inst |-> InstOf(m, d, n), dir |-> d]

(* A shared manager files every name on both sides or on neither.         *)
SharedBothSides ==
    \A m \in Mboards, n \in Names :
        Shared(m) => (Filed(m, "RX", n) <=> Filed(m, "TX", n))

(* In a split manager each filed instance holds what was last set through  *)
(* its proxy.                                                              *)
SplitTracks ==
    \A m \in Mboards, d \in Dirs, n \in Names :
        (~Shared(m) /\ Filed(m, d, n)) => drv[InstOf(m, d, n)] = lastWrite[m][d][n]

MInv == IInv /\ ProxyShape /\ SharedBothSides /\ SplitTracks

(* Two shapes name the same instance exactly when they are the same        *)
(* proxy, or the two sides of one name of a shared manager.                *)
LEMMA InstOfEq ==
    ASSUME NEW m1 \in Mboards, NEW d1 \in Dirs, NEW n1 \in Names,
           NEW m2 \in Mboards, NEW d2 \in Dirs, NEW n2 \in Names
    PROVE  InstOf(m1, d1, n1) = InstOf(m2, d2, n2)
               <=> (m1 = m2 /\ n1 = n2 /\ (d1 = d2 \/ Shared(m1)))
  BY DEF InstOf, KindOf, Dirs

LEMMA InitMInv == Init => MInv
  <1> SUFFICES ASSUME Init PROVE MInv
    OBVIOUS
  <1>1. \A m \in Mboards, d \in Dirs, n \in Names : ~Filed(m, d, n)
    BY DEF Init, Filed, EmptyDb
  <1>2. IInv
    BY InitIInv
  <1>3. ProxyShape /\ SharedBothSides /\ SplitTracks
    BY <1>1 DEF ProxyShape, SharedBothSides, SplitTracks, Dirs
  <1> QED
    BY <1>2, <1>3 DEF MInv

(* A step that leaves the manager variables alone keeps the three shape    *)
(* facts.                                                                  *)
LEMMA MgrUnchangedShape ==
    ASSUME ProxyShape, SharedBothSides, SplitTracks, UNCHANGED mgrVars
    PROVE  ProxyShape' /\ SharedBothSides' /\ SplitTracks'
  BY DEF mgrVars, ProxyShape, SharedBothSides, SplitTracks, Filed, InstOf, KindOf, Shared

(* What a constructor files under a filed (d, n): the proxy of the shape's *)
(* instance.                                                               *)
LEMMA BuildDbShape ==
    ASSUME NEW m \in Mboards, NEW rc, NEW tc, NEW cn, NEW d \in Dirs, NEW n \in Names
    PROVE  /\ (rc = tc /\ BuildDb(m, rc, tc, cn)[d][n] # NoProxy) =>
                     BuildDb(m, rc, tc, cn)[d][n] = [inst |-> <<m, "xcvr", n>>, dir |-> d]
           /\ (rc # tc /\ BuildDb(m, rc, tc, cn)[d][n] # NoProxy) =>
                     BuildDb(m, rc, tc, cn)[d][n] =
                         [inst |-> <<m, IF d = "RX" THEN "rx" ELSE "tx", n>>, dir |-> d]
  <1>1. ASSUME rc = tc
        PROVE  BuildDb(m, rc, tc, cn)[d][n] # NoProxy =>
                   BuildDb(m, rc, tc, cn)[d][n] = [inst |-> <<m, "xcvr", n>>, dir |-> d]
    <2>1. BuildDb(m, rc, tc, cn) =
              [d1 \in Dirs |-> [n1 \in Names |->
                  IF n1 \in NamesIn(cn, rc)
                  THEN [inst |-> <<m, "xcvr", n1>>, dir |-> d1] ELSE NoProxy]]
      BY <1>1 DEF BuildDb
    <2>2. BuildDb(m, rc, tc, cn)[d][n] =
              IF n \in NamesIn(cn, rc) THEN [inst |-> <<m, "xcvr", n>>, dir |-> d] ELSE NoProxy
      BY <2>1
    <2> QED
      BY <2>2
  <1>2. ASSUME rc # tc
        PROVE  BuildDb(m, rc, tc, cn)[d][n] # NoProxy =>
                   BuildDb(m, rc, tc, cn)[d][n] =
                       [inst |-> <<m, IF d = "RX" THEN "rx" ELSE "tx", n>>, dir |-> d]
    <2>1. BuildDb(m, rc, tc, cn) =
              [RX |-> [n1 \in Names |->
                         IF n1 \in NamesIn(cn, rc)
                         THEN [inst |-> <<m, "rx", n1>>, dir |-> "RX"] ELSE NoProxy],
               TX |-> [n1 \in Names |->
                         IF n1 \in NamesIn(cn, tc)
                         THEN [inst |-> <<m, "tx", n1>>, dir |-> "TX"] ELSE NoProxy]]
      BY <1>2 DEF BuildDb
    <2>2. CASE d = "RX"
      <3>1. BuildDb(m, rc, tc, cn)[d][n] =
                IF n \in NamesIn(cn, rc) THEN [inst |-> <<m, "rx", n>>, dir |-> "RX"] ELSE NoProxy
        BY <2>1, <2>2
      <3> QED
        BY <3>1, <2>2
    <2>3. CASE d = "TX"
      <3>1. BuildDb(m, rc, tc, cn)[d][n] =
                IF n \in NamesIn(cn, tc) THEN [inst |-> <<m, "tx", n>>, dir |-> "TX"] ELSE NoProxy
        BY <2>1, <2>3
      <3> QED
        BY <3>1, <2>3
    <2> QED
      BY <2>2, <2>3 DEF Dirs
  <1> QED
    BY <1>1, <1>2

(* With equal constructors a name is filed on both sides or on neither.   *)
LEMMA BuildDbSharedSides ==
    ASSUME NEW m \in Mboards, NEW rc, NEW tc, NEW cn, NEW n \in Names
    PROVE  rc = tc => (BuildDb(m, rc, tc, cn)["RX"][n] # NoProxy
                          <=> BuildDb(m, rc, tc, cn)["TX"][n] # NoProxy)
  <1> SUFFICES ASSUME rc = tc
               PROVE  BuildDb(m, rc, tc, cn)["RX"][n] # NoProxy
                          <=> BuildDb(m, rc, tc, cn)["TX"][n] # NoProxy
    OBVIOUS
  <1>1. BuildDb(m, rc, tc, cn) =
            [d1 \in Dirs |-> [n1 \in Names |->
                IF n1 \in NamesIn(cn, rc)
                THEN [inst |-> <<m, "xcvr", n1>>, dir |-> d1] ELSE NoProxy]]
    BY DEF BuildDb
  <1>2. /\ BuildDb(m, rc, tc, cn)["RX"][n] =
               IF n \in NamesIn(cn, rc) THEN [inst |-> <<m, "xcvr", n>>, dir |-> "RX"] ELSE NoProxy
        /\ BuildDb(m, rc, tc, cn)["TX"][n] =
               IF n \in NamesIn(cn, rc) THEN [inst |-> <<m, "xcvr", n>>, dir |-> "TX"] ELSE NoProxy
    BY <1>1 DEF Dirs
  <1> QED
    BY <1>2, ManagerAssumption DEF Proxy, Inst, Kinds, Dirs

(* A manager construction keeps the shape facts: the rebuilt manager's     *)
(* proxies are BuildDb's, its instances all start at V0 as its lastWrite   *)
(* does, and no other manager's proxies or instances are touched.          *)
LEMMA ConstructShape ==
    ASSUME MInv, NEW m \in Mboards, NEW rxId \in Ids, NEW txId \in Ids,
           Construct(m, rxId, txId)
    PROVE  ProxyShape' /\ SharedBothSides' /\ SplitTracks'
  <1> DEFINE r  == RegisterInternal(called, Current)
             rc == r.ic[rxId]
             tc == r.ic[txId]
             B  == BuildDb(m, rc, tc, r.cn)
  <1> HIDE DEF r
  <1>1. CASE rc # NoCtor /\ tc # NoCtor
    <2>0. /\ mgrIds' = [mgrIds EXCEPT ![m] = [rx |-> rxId, tx |-> txId, rxCtor |-> rc, txCtor |-> tc]]
          /\ db' = [db EXCEPT ![m] = B]
          /\ drv' = [i \in Inst |-> IF i[1] = m THEN V0 ELSE drv[i]]
          /\ lastWrite' = [lastWrite EXCEPT ![m] = [d \in Dirs |-> [n \in Names |-> V0]]]
      BY <1>1 DEF Construct, r
    <2>t. /\ mgrIds \in [Mboards -> [rx : Ids, tx : Ids,
                                   rxCtor : Ctors \cup {NoCtor}, txCtor : Ctors \cup {NoCtor}]]
          /\ db \in [Mboards -> [Dirs -> [Names -> Proxy \cup {NoProxy}]]]
          /\ lastWrite \in [Mboards -> [Dirs -> [Names -> Vals]]]
      BY DEF MInv, IInv, TypeOK
    <2>1. \A m2 \in Mboards : Shared(m2)' = IF m2 = m THEN rc = tc ELSE Shared(m2)
      BY <2>0, <2>t DEF Shared
    <2>2. \A m2 \in Mboards, d \in Dirs, n \in Names :
              Filed(m2, d, n)' = IF m2 = m THEN B[d][n] # NoProxy ELSE Filed(m2, d, n)
      BY <2>0, <2>t DEF Filed
    <2>3. \A m2 \in Mboards, d \in Dirs, n \in Names :
              InstOf(m2, d, n)' =
                  IF m2 = m THEN <<m, IF rc = tc THEN "xcvr" ELSE IF d = "RX" THEN "rx" ELSE "tx", n>>
                  ELSE InstOf(m2, d, n)
      BY <2>1 DEF InstOf, KindOf
    <2>4. ProxyShape'
      <3> SUFFICES ASSUME NEW m2 \in Mboards, NEW d \in Dirs, NEW n \in Names, Filed(m2, d, n)'
                   PROVE  db'[m2][d][n] = [inst |-> InstOf(m2, d, n)', dir |-> d]
        BY DEF ProxyShape
      <3>1. CASE m2 = m
        <4>1. B[d][n] # NoProxy
          BY <2>2, <3>1
        <4>2. db'[m2][d][n] = B[d][n]
          BY <2>0, <2>t, <3>1
        <4>0. /\ rc = tc => (B[d][n] # NoProxy => B[d][n] = [inst |-> <<m, "xcvr", n>>, dir |-> d])
              /\ rc # tc => (B[d][n] # NoProxy =>
                     B[d][n] = [inst |-> <<m, IF d = "RX" THEN "rx" ELSE "tx", n>>, dir |-> d])
          BY BuildDbShape
        <4>3. rc = tc => B[d][n] = [inst |-> <<m, "xcvr", n>>, dir |-> d]
          BY <4>0, <4>1
        <4>4. rc # tc => B[d][n] = [inst |-> <<m, IF d = "RX" THEN "rx" ELSE "tx", n>>, dir |-> d]
          BY <4>0, <4>1
        <4>5. InstOf(m2, d, n)' =
                  IF rc = tc THEN <<m, "xcvr", n>> ELSE <<m, IF d = "RX" THEN "rx" ELSE "tx", n>>
          BY <2>3, <3>1
        <4> QED
          BY <4>2, <4>3, <4>4, <4>5
      <3>2. CASE m2 # m
        BY <2>0, <2>t, <2>2, <2>3, <3>2 DEF MInv, ProxyShape
      <3> QED
        BY <3>1, <3>2
    <2>5. SharedBothSides'
      <3> SUFFICES ASSUME NEW m2 \in Mboards, NEW n \in Names, Shared(m2)'
                   PROVE  Filed(m2, "RX", n)' <=> Filed(m2, "TX", n)'
        BY DEF SharedBothSides
      <3>1. CASE m2 = m
        <4>1. rc = tc
          BY <2>1, <3>1
        <4>0. rc = tc => (B["RX"][n] # NoProxy <=> B["TX"][n] # NoProxy)
          BY BuildDbSharedSides
        <4>2. B["RX"][n] # NoProxy <=> B["TX"][n] # NoProxy
          BY <4>0, <4>1
        <4>3. /\ Filed(m2, "RX", n)' = (B["RX"][n] # NoProxy)
              /\ Filed(m2, "TX", n)' = (B["TX"][n] # NoProxy)
          BY <2>2, <3>1 DEF Dirs
        <4> QED
          BY <4>2, <4>3
      <3>2. CASE m2 # m
        BY <2>1, <2>2, <3>2 DEF MInv, SharedBothSides, Dirs
      <3> QED
        BY <3>1, <3>2
    <2>6. SplitTracks'
      <3> SUFFICES ASSUME NEW m2 \in Mboards, NEW d \in Dirs, NEW n \in Names,
                          ~Shared(m2)', Filed(m2, d, n)'
                   PROVE  drv'[InstOf(m2, d, n)'] = lastWrite'[m2][d][n]
        BY DEF SplitTracks
      <3>1. CASE m2 = m
        <4>1. InstOf(m2, d, n)' \in Inst /\ InstOf(m2, d, n)'[1] = m
          BY <2>3, <3>1 DEF Inst, Kinds
        <4> QED
          BY <4>1, <2>0, <2>t, <3>1
      <3>2. CASE m2 # m
        <4>1. InstOf(m2, d, n)' = InstOf(m2, d, n) /\ InstOf(m2, d, n) \in Inst
              /\ InstOf(m2, d, n)[1] = m2
          BY <2>3, <3>2 DEF InstOf, KindOf, Inst, Kinds
        <4>2. drv[InstOf(m2, d, n)] = lastWrite[m2][d][n]
          BY <2>1, <2>2, <3>2 DEF MInv, SplitTracks
        <4> QED
          BY <4>1, <4>2, <2>0, <2>t, <3>2
      <3> QED
        BY <3>1, <3>2
    <2> QED
      BY <2>4, <2>5, <2>6
  <1>2. CASE ~(rc # NoCtor /\ tc # NoCtor)
    <2>1. UNCHANGED mgrVars
      BY <1>2 DEF Construct, r
    <2> QED
      BY <2>1, MgrUnchangedShape DEF MInv
  <1> QED
    BY <1>1, <1>2
(* A proxy set keeps the shape facts: it files nothing, and the instance   *)
(* it writes is, for a split manager, the one of no other proxy.          *)
LEMMA ProxySetShape ==
    ASSUME MInv, NEW m \in Mboards, NEW d \in Dirs, NEW n \in Names, NEW v \in Vals,
           ProxySet(m, d, n, v)
    PROVE  ProxyShape' /\ SharedBothSides' /\ SplitTracks'
  <1>1. UNCHANGED <<mgrIds, db>>
    BY DEF ProxySet
  <1>2. ProxyShape' /\ SharedBothSides'
    BY <1>1 DEF MInv, ProxyShape, SharedBothSides, Filed, InstOf, KindOf, Shared
  <1>3. /\ drv' = [drv EXCEPT ![InstOf(m, d, n)] = v]
        /\ lastWrite' = [lastWrite EXCEPT ![m][d][n] = v]
    <2>0. db[m][d][n] = [inst |-> InstOf(m, d, n), dir |-> d]
      BY DEF ProxySet, MInv, ProxyShape, Filed
    <2>1. db[m][d][n].inst = InstOf(m, d, n)
      BY <2>0
    <2> QED
      BY <2>1 DEF ProxySet
  <1>t. drv \in [Inst -> Vals] /\ lastWrite \in [Mboards -> [Dirs -> [Names -> Vals]]]
    BY DEF MInv, IInv, TypeOK
  <1>4. SplitTracks'
    <2> SUFFICES ASSUME NEW m2 \in Mboards, NEW d2 \in Dirs, NEW n2 \in Names,
                        ~Shared(m2)', Filed(m2, d2, n2)'
                 PROVE  drv'[InstOf(m2, d2, n2)'] = lastWrite'[m2][d2][n2]
      BY DEF SplitTracks
    <2>1. ~Shared(m2) /\ Filed(m2, d2, n2) /\ InstOf(m2, d2, n2)' = InstOf(m2, d2, n2)
      BY <1>1 DEF Shared, Filed, InstOf, KindOf
    <2>2. InstOf(m2, d2, n2) \in Inst /\ InstOf(m, d, n) \in Inst
      BY DEF InstOf, KindOf, Inst, Kinds
    <2>3. CASE m2 = m /\ d2 = d /\ n2 = n
      BY <1>3, <1>t, <2>1, <2>2, <2>3
    <2>4. CASE ~(m2 = m /\ d2 = d /\ n2 = n)
      <3>1. InstOf(m2, d2, n2) # InstOf(m, d, n)
        BY <2>1, <2>4, InstOfEq
      <3>2. drv[InstOf(m2, d2, n2)] = lastWrite[m2][d2][n2]
        BY <2>1 DEF MInv, SplitTracks
      <3> QED
        BY <1>3, <1>t, <2>1, <2>2, <2>4, <3>1, <3>2
    <2> QED
      BY <2>3, <2>4
  <1> QED
    BY <1>2, <1>4

LEMMA NextMInv == MInv /\ [Next]_vars => MInv'
  <1> SUFFICES ASSUME MInv, [Next]_vars PROVE MInv'
    OBVIOUS
  <1>0. IInv'
    BY NextIInv DEF MInv
  <1>1. CASE \E e \in ExtRegs : ExtRegister(e.id, e.ctor, e.names)
    BY <1>0, <1>1, MgrUnchangedShape DEF ExtRegister, MInv
  <1>2. CASE \E m \in Mboards, rxId, txId \in Ids : Construct(m, rxId, txId)
    BY <1>0, <1>2, ConstructShape DEF MInv
  <1>3. CASE \E m \in Mboards, d \in Dirs, n \in Names, v \in Vals : ProxySet(m, d, n, v)
    BY <1>0, <1>3, ProxySetShape DEF MInv
  <1>4. CASE UNCHANGED vars
    BY <1>0, <1>4, MgrUnchangedShape DEF vars, MInv
  <1> QED
    BY <1>1, <1>2, <1>3, <1>4 DEF Next

-----------------------------------------------------------------------------
(* Transceiver aliasing (manager.cpp lines 150-166): in a manager whose    *)
(* ids resolved to one constructor, every name is filed on both sides and *)
(* both proxies of a name observe the same board state, after any          *)
(* interleaving of registrations, constructions and sets.                  *)
THEOREM XcvrAliasing == Spec => []TransceiverCoherent
  <1>1. MInv => TransceiverCoherent
    <2> SUFFICES ASSUME MInv, NEW m \in Mboards, mgr[m] = "built", Shared(m), NEW n \in Names
                 PROVE  /\ Filed(m, "RX", n) <=> Filed(m, "TX", n)
                        /\ Filed(m, "RX", n) => Seen(m, "RX", n) = Seen(m, "TX", n)
      BY DEF TransceiverCoherent, Shared
    <2>1. Filed(m, "RX", n) <=> Filed(m, "TX", n)
      BY DEF MInv, SharedBothSides
    <2>2. "RX" \in Dirs /\ "TX" \in Dirs
      BY DEF Dirs
    <2>3. InstOf(m, "RX", n) = InstOf(m, "TX", n)
      BY DEF InstOf, KindOf
    <2>4. Filed(m, "RX", n) => /\ db[m]["RX"][n] = [inst |-> InstOf(m, "RX", n), dir |-> "RX"]
                               /\ db[m]["TX"][n] = [inst |-> InstOf(m, "TX", n), dir |-> "TX"]
      BY <2>1, <2>2 DEF MInv, ProxyShape
    <2> QED
      BY <2>1, <2>3, <2>4 DEF Seen
  <1> QED
    BY InitMInv, NextMInv, <1>1, PTL DEF Spec

(* Separate halves (manager.cpp lines 167-188): in a manager whose ids     *)
(* resolved to different constructors, each filed proxy observes what was *)
(* last set through it, whatever was set through the other side, another  *)
(* name or another manager.                                                *)
THEOREM SplitIsolation == Spec => []SeparateCtorsIsolated
  <1>1. MInv => SeparateCtorsIsolated
    <2> SUFFICES ASSUME MInv, NEW m \in Mboards, ~Shared(m),
                        NEW d \in Dirs, NEW n \in Names, Filed(m, d, n)
                 PROVE  Seen(m, d, n) = lastWrite[m][d][n]
      BY DEF SeparateCtorsIsolated, Shared
    <2>0. db[m][d][n] = [inst |-> InstOf(m, d, n), dir |-> d]
      BY DEF MInv, ProxyShape
    <2>1. db[m][d][n].inst = InstOf(m, d, n)
      BY <2>0
    <2> QED
      BY <2>1 DEF MInv, SplitTracks, Seen
  <1> QED
    BY InitMInv, NextMInv, <1>1, PTL DEF Spec
-----------------------------------------------------------------------------
(* Refinement of the client contract.                                      *)

LEMMA InitRefines == Init => Contract!CInit
  <1> SUFFICES ASSUME Init PROVE Contract!CInit
    OBVIOUS
  <1>1. \A m \in Mboards, d \in Dirs, n \in Names : ~Filed(m, d, n)
    BY DEF Init, Filed, EmptyDb
  <1>2. BuiltView = [m \in Mboards |-> FALSE]
    BY DEF Init, BuiltView
  <1>3. SharedView \in [Mboards -> BOOLEAN]
    BY DEF SharedView
  <1>4. SubdevView = [m \in Mboards |-> [d \in Dirs |-> {}]]
    BY <1>1 DEF SubdevView
  <1>5. BoardView = [m \in Mboards |-> Contract!FreshBoards]
    BY <1>1 DEF BoardView, Contract!FreshBoards, Contract!CDirs, Dirs
  <1> QED
    BY <1>2, <1>3, <1>4, <1>5 DEF Contract!CInit, Contract!CDirs, Dirs

(* A step that leaves the manager variables alone is a contract stutter.   *)
LEMMA MgrUnchangedStutters ==
    ASSUME UNCHANGED mgrVars
    PROVE  UNCHANGED Contract!cvars
  BY DEF mgrVars, Contract!cvars, BuiltView, SharedView, SubdevView, BoardView, Filed, Seen
(* A construction that succeeds is a contract rebuild of its manager: the  *)
(* new proxies name instances of that manager only, all at V0; a failed   *)
(* one is a stutter.                                                       *)
LEMMA ConstructRefines ==
    ASSUME MInv, MInv', NEW m \in Mboards, NEW rxId \in Ids, NEW txId \in Ids,
           Construct(m, rxId, txId)
    PROVE  [Contract!CNext]_Contract!cvars
  <1> DEFINE r  == RegisterInternal(called, Current)
             rc == r.ic[rxId]
             tc == r.ic[txId]
             B  == BuildDb(m, rc, tc, r.cn)
  <1> HIDE DEF r
  <1>1. CASE rc # NoCtor /\ tc # NoCtor
    <2>0. /\ mgrIds' = [mgrIds EXCEPT ![m] = [rx |-> rxId, tx |-> txId, rxCtor |-> rc, txCtor |-> tc]]
          /\ mgr' = [mgr EXCEPT ![m] = "built"]
          /\ db' = [db EXCEPT ![m] = B]
          /\ drv' = [i \in Inst |-> IF i[1] = m THEN V0 ELSE drv[i]]
      BY <1>1 DEF Construct, r
    <2>t. /\ mgr \in [Mboards -> {"none", "built"}]
          /\ mgrIds \in [Mboards -> [rx : Ids, tx : Ids,
                                   rxCtor : Ctors \cup {NoCtor}, txCtor : Ctors \cup {NoCtor}]]
          /\ db \in [Mboards -> [Dirs -> [Names -> Proxy \cup {NoProxy}]]]
          /\ drv \in [Inst -> Vals]
      BY DEF MInv, IInv, TypeOK
    <2> DEFINE sh == rc = tc
               sd == [d \in Dirs |-> {n \in Names : B[d][n] # NoProxy}]
    <2>1. sh => sd["RX"] = sd["TX"]
      BY BuildDbSharedSides DEF Dirs
    <2>2. BuiltView' = [BuiltView EXCEPT ![m] = TRUE]
      BY <2>0, <2>t DEF BuiltView
    <2>3. SharedView' = [SharedView EXCEPT ![m] = sh]
      BY <2>0, <2>t DEF SharedView
    <2>4. SubdevView' = [SubdevView EXCEPT ![m] = sd]
      BY <2>0, <2>t DEF SubdevView, Filed
    <2>5. BoardView' = [BoardView EXCEPT ![m] = Contract!FreshBoards]
      <3>1. ASSUME NEW m2 \in Mboards, NEW d \in Dirs, NEW n \in Names
            PROVE  BoardView'[m2][d][n] = IF m2 = m THEN V0 ELSE BoardView[m2][d][n]
        <4>1. CASE m2 = m
          <5>1. Filed(m2, d, n)' => db'[m2][d][n] = [inst |-> InstOf(m2, d, n)', dir |-> d]
            BY DEF MInv, ProxyShape
          <5>2. InstOf(m2, d, n)' \in Inst /\ InstOf(m2, d, n)'[1] = m
            BY <4>1 DEF InstOf, KindOf, Inst, Kinds
          <5>3. Filed(m2, d, n)' => drv'[db'[m2][d][n].inst] = V0
            BY <5>1, <5>2, <2>0
          <5> QED
            BY <5>3, <4>1 DEF BoardView, Seen
        <4>2. CASE m2 # m
          <5>1. Filed(m2, d, n)' = Filed(m2, d, n) /\ db'[m2][d][n] = db[m2][d][n]
            BY <2>0, <2>t, <4>2 DEF Filed
          <5>2. Filed(m2, d, n) => db[m2][d][n] = [inst |-> InstOf(m2, d, n), dir |-> d]
            BY DEF MInv, ProxyShape
          <5>3. InstOf(m2, d, n) \in Inst /\ InstOf(m2, d, n)[1] = m2
            BY DEF InstOf, KindOf, Inst, Kinds
          <5>4. Filed(m2, d, n) => drv'[db[m2][d][n].inst] = drv[db[m2][d][n].inst]
            BY <5>2, <5>3, <2>0, <4>2
          <5> QED
            BY <5>1, <5>4, <4>2 DEF BoardView, Seen
        <4> QED
          BY <4>1, <4>2
      <3> QED
        BY <3>1 DEF BoardView, Contract!FreshBoards, Contract!CDirs, Dirs
    <2>6. Contract!CBuild(m)
      <3>1. sh \in BOOLEAN /\ sd \in [Contract!CDirs -> SUBSET Names]
        BY DEF Contract!CDirs, Dirs
      <3> QED
        BY <3>1, <2>1, <2>2, <2>3, <2>4, <2>5 DEF Contract!CBuild, Contract!CDirs, Dirs
    <2> QED
      BY <2>6 DEF Contract!CNext
  <1>2. CASE ~(rc # NoCtor /\ tc # NoCtor)
    <2>1. UNCHANGED mgrVars
      BY <1>2 DEF Construct, r
    <2> QED
      BY <2>1, MgrUnchangedStutters
  <1> QED
    BY <1>1, <1>2
(* A proxy set is a contract set: the instance it writes is seen through   *)
(* its own proxy, through the opposite side of the same name when the     *)
(* manager is shared, and through no other proxy.                          *)
LEMMA ProxySetRefines ==
    ASSUME MInv, NEW m \in Mboards, NEW d \in Dirs, NEW n \in Names, NEW v \in Vals,
           ProxySet(m, d, n, v)
    PROVE  [Contract!CNext]_Contract!cvars
  <1>1. UNCHANGED <<mgr, mgrIds, db>>
    BY DEF ProxySet
  <1>2. db[m][d][n] = [inst |-> InstOf(m, d, n), dir |-> d]
    BY DEF ProxySet, MInv, ProxyShape, Filed
  <1>3. drv' = [drv EXCEPT ![InstOf(m, d, n)] = v]
    BY <1>2 DEF ProxySet
  <1>t. drv \in [Inst -> Vals]
    BY DEF MInv, IInv, TypeOK
  <1>4. BuiltView[m] /\ n \in SubdevView[m][d]
    BY DEF ProxySet, BuiltView, SubdevView, Filed
  <1>5. UNCHANGED <<BuiltView, SharedView, SubdevView>>
    BY <1>1 DEF BuiltView, SharedView, SubdevView, Filed
  <1> DEFINE Hit(m2, d2, n2) == m2 = m /\ n2 = n /\ (d2 = d \/ Shared(m))
  <1>6. ASSUME NEW m2 \in Mboards, NEW d2 \in Dirs, NEW n2 \in Names
        PROVE  BoardView'[m2][d2][n2] = IF Hit(m2, d2, n2) THEN v ELSE BoardView[m2][d2][n2]
    <2>1. Filed(m2, d2, n2)' = Filed(m2, d2, n2) /\ db'[m2][d2][n2] = db[m2][d2][n2]
      BY <1>1 DEF Filed
    <2>2. CASE Filed(m2, d2, n2)
      <3>1. db[m2][d2][n2] = [inst |-> InstOf(m2, d2, n2), dir |-> d2]
        BY <2>2 DEF MInv, ProxyShape
      <3>2. InstOf(m2, d2, n2) = InstOf(m, d, n) <=> Hit(m2, d2, n2)
        BY InstOfEq
      <3>3. InstOf(m2, d2, n2) \in Inst
        BY DEF InstOf, KindOf, Inst, Kinds
      <3> QED
        BY <1>3, <1>t, <2>1, <2>2, <3>1, <3>2, <3>3 DEF BoardView, Seen
    <2>3. CASE ~Filed(m2, d2, n2)
      <3>1. ~Hit(m2, d2, n2)
        <4>1. Filed(m, d, n)
          BY DEF ProxySet, Filed
        <4>2. Shared(m) => (Filed(m, "RX", n) <=> Filed(m, "TX", n))
          BY DEF MInv, SharedBothSides
        <4> QED
          BY <2>3, <4>1, <4>2 DEF Dirs
      <3> QED
        BY <2>1, <2>3, <3>1 DEF BoardView
    <2> QED
      BY <2>2, <2>3
  <1>7. BoardView' = [BoardView EXCEPT ![m][d][n] = v,
                                      ![m][Contract!Opposite(d)][n] =
                                          IF SharedView[m] THEN v ELSE @]
    <2>1. Contract!Opposite(d) \in Dirs /\ Contract!Opposite(d) # d
      BY DEF Contract!Opposite, Dirs
    <2>2. SharedView[m] = Shared(m)
      BY DEF SharedView, Shared
    <2> DEFINE G == [m2 \in Mboards |-> [d2 \in Dirs |-> [n2 \in Names |->
                        IF Hit(m2, d2, n2) THEN v ELSE BoardView[m2][d2][n2]]]]
    <2>3. BoardView' = G
      BY <1>6 DEF BoardView
    <2>4. BoardView \in [Mboards -> [Dirs -> [Names -> Vals \cup {V0}]]]
      <3>1. ASSUME NEW m2 \in Mboards, NEW d2 \in Dirs, NEW n2 \in Names, Filed(m2, d2, n2)
            PROVE  Seen(m2, d2, n2) \in Vals
        <4>1. db[m2][d2][n2] = [inst |-> InstOf(m2, d2, n2), dir |-> d2]
          BY <3>1 DEF MInv, ProxyShape
        <4>2. InstOf(m2, d2, n2) \in Inst
          BY DEF InstOf, KindOf, Inst, Kinds
        <4> QED
          BY <1>t, <4>1, <4>2 DEF Seen
      <3> QED
        BY <3>1 DEF BoardView
    <2> HIDE DEF BoardView
    <2> DEFINE E == [BoardView EXCEPT ![m][d][n] = v,
                                      ![m][Contract!Opposite(d)][n] = IF SharedView[m] THEN v ELSE @]
    <2>5. ASSUME NEW m2 \in Mboards, NEW d2 \in Dirs, NEW n2 \in Names
          PROVE  E[m2][d2][n2] = G[m2][d2][n2]
      <3>1. CASE m2 = m /\ n2 = n /\ d2 = d
        BY <2>1, <2>4, <3>1
      <3>2. CASE m2 = m /\ n2 = n /\ d2 # d
        <4>1. d2 = Contract!Opposite(d)
          BY <3>2 DEF Contract!Opposite, Dirs
        <4> QED
          BY <2>1, <2>2, <2>4, <3>2, <4>1
      <3>3. CASE ~(m2 = m /\ n2 = n)
        BY <2>1, <2>4, <3>3
      <3> QED
        BY <3>1, <3>2, <3>3
    <2>6. /\ E \in [Mboards -> [Dirs -> [Names -> Vals \cup {V0}]]]
          /\ G \in [Mboards -> [Dirs -> [Names -> Vals \cup {V0}]]]
      <3>1. BoardView[m][d][n] \in Vals \cup {V0}
               /\ BoardView[m][Contract!Opposite(d)][n] \in Vals \cup {V0}
        BY <2>1, <2>4
      <3>2. [BoardView EXCEPT ![m][d][n] = v] \in [Mboards -> [Dirs -> [Names -> Vals \cup {V0}]]]
        BY <2>4
      <3>3. E \in [Mboards -> [Dirs -> [Names -> Vals \cup {V0}]]]
        BY <2>1, <2>4, <3>1, <3>2
      <3>4. G \in [Mboards -> [Dirs -> [Names -> Vals \cup {V0}]]]
        <4>1. ASSUME NEW m2 \in Mboards, NEW d2 \in Dirs, NEW n2 \in Names
              PROVE  (IF Hit(m2, d2, n2) THEN v ELSE BoardView[m2][d2][n2]) \in Vals \cup {V0}
          BY <2>4
        <4> QED
          BY <4>1
      <3> QED
        BY <3>3, <3>4
    <2> HIDE DEF E, G
    <2>7. ASSUME NEW m2 \in Mboards, NEW d2 \in Dirs
          PROVE  E[m2][d2] = G[m2][d2]
      BY <2>5, <2>6
    <2>8. ASSUME NEW m2 \in Mboards
          PROVE  E[m2] = G[m2]
      BY <2>7, <2>6
    <2>9. E = G
      BY <2>8, <2>6
    <2> QED
      BY <2>3, <2>9 DEF E
  <1>8. Contract!CSet(m, d, n, v)
    BY <1>4, <1>5, <1>7 DEF Contract!CSet
  <1> QED
    BY <1>8 DEF Contract!CNext, Contract!CDirs, Dirs
LEMMA NextRefines == MInv /\ MInv' /\ [Next]_vars => [Contract!CNext]_Contract!cvars
  <1> SUFFICES ASSUME MInv, MInv', [Next]_vars PROVE [Contract!CNext]_Contract!cvars
    OBVIOUS
  <1>1. CASE \E e \in ExtRegs : ExtRegister(e.id, e.ctor, e.names)
    BY <1>1, MgrUnchangedStutters DEF ExtRegister
  <1>2. CASE \E m \in Mboards, rxId, txId \in Ids : Construct(m, rxId, txId)
    BY <1>2, ConstructRefines
  <1>3. CASE \E m \in Mboards, d \in Dirs, n \in Names, v \in Vals : ProxySet(m, d, n, v)
    BY <1>3, ProxySetRefines
  <1>4. CASE UNCHANGED vars
    BY <1>4, MgrUnchangedStutters DEF vars
  <1> QED
    BY <1>1, <1>2, <1>3, <1>4 DEF Next

(* The manager implements its client contract (ImplementsContract): every  *)
(* behaviour of registrations, constructions (manager.cpp 130-189) and     *)
(* proxy sets (203-217), mapped through what a client observes, is a       *)
(* behaviour of DboardManagerContract: rebuilds with fresh boards, and     *)
(* sets that show exactly on the proxy and, for a shared manager, on the   *)
(* opposite side of the same name.                                         *)
THEOREM Refinement == Spec => ImplementsContract
  <1>1. Spec => []MInv
    BY InitMInv, NextMInv, PTL DEF Spec
  <1>2. Init => Contract!CInit
    BY InitRefines
  <1>3. [][Next]_vars /\ []MInv => [][Contract!CNext]_Contract!cvars
    BY NextRefines, PTL
  <1> QED
    BY <1>1, <1>2, <1>3, PTL DEF Spec, ImplementsContract, Contract!CSpec
=============================================================================
