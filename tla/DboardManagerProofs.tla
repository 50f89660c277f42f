------------------------ MODULE DboardManagerProofs -------------------------
(***************************************************************************)
(* Proofs about the registry and the manager: the type invariant, and that *)
(* every resolvable id has a name list and every external registration     *)
(* keeps winning, for any sets of ids, constructors, names, registrations  *)
(* and motherboards.                                                        *)
(***************************************************************************)
EXTENDS DboardManager, TLAPS

(* The registry record Put and RegisterInternal compute on.                *)
RegT == [ic : [Ids -> Ctors \cup {NoCtor}],
         cn : [Ctors -> NameLists \cup {NoNames}],
         gn : [Ids -> NameLists \cup {NoNames}]]

(* Every id with a constructor finds a name list for it, in record r.      *)
ResolvableR(r) == \A id \in Ids : r.ic[id] # NoCtor => r.cn[r.ic[id]] # NoNames

(* The built-in name lists are name lists, and none is the sentinel.       *)
LEMMA BuiltinLists ==
    /\ <<NmEmpty>> \in NameLists
    /\ <<NmAB>> \in NameLists
    /\ <<NmA, NmB, NmAB>> \in NameLists
  BY DEF NameLists

(* One register_subdevs insert keeps the record well typed.                *)
LEMMA PutType ==
    ASSUME NEW r \in RegT, NEW id \in Ids, NEW ctor \in Ctors, NEW names \in NameLists
    PROVE  Put(r, id, ctor, names) \in RegT
  BY DEF Put, RegT

(* One insert keeps every constructor of an id backed by a name list: the  *)
(* insert's own constructor gets a list, and no list is removed.           *)
LEMMA PutResolvable ==
    ASSUME NEW r \in RegT, NEW id \in Ids, NEW ctor \in Ctors, NEW names \in NameLists,
           ResolvableR(r)
    PROVE  ResolvableR(Put(r, id, ctor, names))
  BY RegistryAssumption DEF Put, RegT, ResolvableR

(* The seeding keeps both facts.                                           *)
LEMMA InternalType ==
    ASSUME NEW b \in BOOLEAN, NEW r \in RegT, ResolvableR(r)
    PROVE  /\ RegisterInternal(b, r) \in RegT
           /\ ResolvableR(RegisterInternal(b, r))
  <1>1. CASE b
    BY <1>1 DEF RegisterInternal
  <1>2. CASE ~b
    <2> DEFINE r1 == Put(r, IdNone, BasicTxMake, <<NmEmpty>>)
               r2 == Put(r1, IdNone, BasicRxMake, <<NmAB>>)
               r3 == Put(r2, IdBasicTx, BasicTxMake, <<NmEmpty>>)
               r4 == Put(r3, IdBasicRx, BasicRxMake, <<NmA, NmB, NmAB>>)
    <2>a. {IdNone, IdBasicTx, IdBasicRx} \subseteq Ids /\ {BasicTxMake, BasicRxMake} \subseteq Ctors
      BY DEF Ids, BuiltinIds, Ctors
    <2>b. r1 \in RegT /\ ResolvableR(r1)
      BY <2>a, BuiltinLists, PutType, PutResolvable
    <2>c. r2 \in RegT /\ ResolvableR(r2)
      BY <2>a, <2>b, BuiltinLists, PutType, PutResolvable
    <2>d. r3 \in RegT /\ ResolvableR(r3)
      BY <2>a, <2>c, BuiltinLists, PutType, PutResolvable
    <2>e. r4 \in RegT /\ ResolvableR(r4)
      BY <2>a, <2>d, BuiltinLists, PutType, PutResolvable
    <2> QED
      BY <1>2, <2>e DEF RegisterInternal
  <1> QED
    BY <1>1, <1>2

-----------------------------------------------------------------------------
(* The inductive invariant: the type invariant, Resolvable,                *)
(* ExternalOverrideWins, and the fact that makes the last one inductive:   *)
(* no external registration precedes the seeding, since register_subdevs   *)
(* sets the latch before it inserts.                                       *)
IInv ==
    /\ TypeOK
    /\ Resolvable
    /\ ExternalOverrideWins
    /\ ~called => \A id \in Ids : extCtor[id] = NoCtor

LEMMA CurrentFacts ==
    ASSUME TypeOK, Resolvable
    PROVE  Current \in RegT /\ ResolvableR(Current)
  BY DEF TypeOK, RegTypeOK, Current, RegT, Resolvable, ResolvableR, HasCtor, NamesOf

LEMMA InitIInv == Init => IInv
  <1> SUFFICES ASSUME Init PROVE IInv
    OBVIOUS
  <1>1. TypeOK
    <2>1. RegTypeOK
      BY DEF Init, RegInit, RegTypeOK
    <2>2. mgr \in [Mboards -> {"none", "built"}]
          /\ gpio \in [Mboards -> {"power_on", "software"}]
      BY DEF Init
    <2>3. mgrIds \in [Mboards -> [rx : Ids, tx : Ids,
                                  rxCtor : Ctors \cup {NoCtor}, txCtor : Ctors \cup {NoCtor}]]
      BY DEF Init, Ids, BuiltinIds
    <2>4. db \in [Mboards -> [Dirs -> [Names -> Proxy \cup {NoProxy}]]]
      BY DEF Init, EmptyDb
    <2>5. drv \in [Inst -> Vals] /\ lastWrite \in [Mboards -> [Dirs -> [Names -> Vals]]]
      BY ManagerAssumption DEF Init
    <2>6. entered \in [Inst -> SUBSET Dirs]
      BY DEF Init
    <2> QED
      BY <2>1, <2>2, <2>3, <2>4, <2>5, <2>6 DEF TypeOK
  <1>2. Resolvable /\ ExternalOverrideWins /\ (~called => \A id \in Ids : extCtor[id] = NoCtor)
    BY DEF Init, RegInit, Resolvable, HasCtor, ExternalOverrideWins
  <1> QED
    BY <1>1, <1>2 DEF IInv

(* Installing a well-typed, resolvable record gives a well-typed,          *)
(* resolvable registry.                                                    *)
LEMMA SetRegistryFacts ==
    ASSUME NEW r \in RegT, ResolvableR(r), SetRegistry(r),
           called' \in BOOLEAN, extCtor' \in [Ids -> Ctors \cup {NoCtor}]
    PROVE  RegTypeOK' /\ Resolvable'
  BY DEF SetRegistry, RegT, ResolvableR, RegTypeOK, Resolvable, HasCtor, NamesOf

(* Once the latch is set the seeding is the identity.                      *)
LEMMA SeededIdentity ==
    ASSUME NEW r, called
    PROVE  RegisterInternal(called, r) = r
  BY DEF RegisterInternal

(* An external registration keeps the invariant: the latch is set before   *)
(* the insert, so an id registered earlier keeps its constructor unless    *)
(* this call names it.                                                     *)
LEMMA ExtRegisterIInv ==
    ASSUME IInv, NEW e \in ExtRegs, ExtRegister(e.id, e.ctor, e.names)
    PROVE  IInv'
  <1> DEFINE r0 == RegisterInternal(called, Current)
             r  == Put(r0, e.id, e.ctor, e.names)
  <1>1. e.id \in Ids /\ e.ctor \in Ctors /\ e.names \in NameLists
    BY RegistryAssumption DEF NameLists
  <1>2. r0 \in RegT /\ ResolvableR(r0)
    BY CurrentFacts, InternalType DEF IInv, TypeOK, RegTypeOK
  <1>3. r \in RegT /\ ResolvableR(r)
    BY <1>1, <1>2, PutType, PutResolvable
  <1>4. SetRegistry(r) /\ called' = TRUE /\ extCtor' = [extCtor EXCEPT ![e.id] = e.ctor]
          /\ UNCHANGED mgrVars
    BY DEF ExtRegister, RegisterSubdevs, RegisterSubdevsResult
  <1>5. extCtor' \in [Ids -> Ctors \cup {NoCtor}]
    BY <1>1, <1>4 DEF IInv, TypeOK, RegTypeOK
  <1>6. RegTypeOK' /\ Resolvable'
    BY <1>3, <1>4, <1>5, SetRegistryFacts
  <1>7. TypeOK'
    BY <1>4, <1>6 DEF IInv, TypeOK, mgrVars
  <1>8. ExternalOverrideWins'
    <2> SUFFICES ASSUME NEW i \in Ids, extCtor'[i] # NoCtor PROVE idToCtor'[i] = extCtor'[i]
      BY DEF ExternalOverrideWins
    <2>1. CASE i = e.id
      BY <1>1, <1>2, <1>4, <2>1 DEF Put, RegT, SetRegistry, IInv, TypeOK, RegTypeOK
    <2>2. CASE i # e.id
      <3>1. extCtor[i] # NoCtor /\ extCtor'[i] = extCtor[i]
        BY <1>4, <2>2 DEF IInv, TypeOK, RegTypeOK
      <3>2. called
        BY <3>1 DEF IInv
      <3>3. r0 = Current
        BY <3>2, SeededIdentity
      <3>4. idToCtor'[i] = idToCtor[i]
        BY <1>4, <2>2, <3>3 DEF Put, Current, SetRegistry, IInv, TypeOK, RegTypeOK
      <3> QED
        BY <3>1, <3>4 DEF IInv, ExternalOverrideWins
    <2> QED
      BY <2>1, <2>2
  <1> QED
    BY <1>4, <1>6, <1>7, <1>8 DEF IInv

(* The proxy maps a constructor builds are well typed.                     *)
LEMMA BuildDbType ==
    ASSUME NEW m \in Mboards, NEW rc, NEW tc, NEW cn
    PROVE  BuildDb(m, rc, tc, cn) \in [Dirs -> [Names -> Proxy \cup {NoProxy}]]
  BY DEF BuildDb, Proxy, Inst, Kinds, Dirs

(* A manager construction keeps the invariant: it only seeds the registry, *)
(* which leaves an externally registered id alone since the latch is set.  *)
LEMMA ConstructIInv ==
    ASSUME IInv, NEW m \in Mboards, NEW rxId \in Ids, NEW txId \in Ids,
           Construct(m, rxId, txId)
    PROVE  IInv'
  <1> DEFINE r == RegisterInternal(called, Current)
  <1>1. r \in RegT /\ ResolvableR(r)
    BY CurrentFacts, InternalType DEF IInv, TypeOK, RegTypeOK
  <1>2. SetRegistry(r) /\ called' = TRUE /\ extCtor' = extCtor
    BY DEF Construct
  <1>3. RegTypeOK' /\ Resolvable'
    BY <1>1, <1>2, SetRegistryFacts DEF IInv, TypeOK, RegTypeOK
  <1>4. r.ic[rxId] \in Ctors \cup {NoCtor} /\ r.ic[txId] \in Ctors \cup {NoCtor}
    BY <1>1 DEF RegT
  <1>5. ASSUME r.ic[rxId] # NoCtor /\ r.ic[txId] # NoCtor
        PROVE  /\ mgr' \in [Mboards -> {"none", "built"}]
                 /\ gpio' \in [Mboards -> {"power_on", "software"}]
                 /\ lastWrite' \in [Mboards -> [Dirs -> [Names -> Vals]]]
                 /\ mgrIds' \in [Mboards -> [rx : Ids, tx : Ids,
                                    rxCtor : Ctors \cup {NoCtor}, txCtor : Ctors \cup {NoCtor}]]
                 /\ db' \in [Mboards -> [Dirs -> [Names -> Proxy \cup {NoProxy}]]]
                 /\ drv' \in [Inst -> Vals]
                 /\ entered' \in [Inst -> SUBSET Dirs]
    <2>0. /\ mgrIds' = [mgrIds EXCEPT ![m] = [rx |-> rxId, tx |-> txId,
                                              rxCtor |-> r.ic[rxId], txCtor |-> r.ic[txId]]]
          /\ mgr' = [mgr EXCEPT ![m] = "built"]
          /\ db' = [db EXCEPT ![m] = BuildDb(m, r.ic[rxId], r.ic[txId], r.cn)]
          /\ gpio' = [gpio EXCEPT ![m] = "software"]
          /\ drv' = [i \in Inst |-> IF i[1] = m THEN V0 ELSE drv[i]]
          /\ entered' = [i \in Inst |-> IF i[1] = m THEN {} ELSE entered[i]]
          /\ lastWrite' = [lastWrite EXCEPT ![m] = [d \in Dirs |-> [n \in Names |-> V0]]]
      BY <1>5 DEF Construct
    <2>1. /\ mgr' \in [Mboards -> {"none", "built"}]
          /\ gpio' \in [Mboards -> {"power_on", "software"}]
          /\ lastWrite' \in [Mboards -> [Dirs -> [Names -> Vals]]]
      BY <2>0, ManagerAssumption DEF IInv, TypeOK
    <2>2. mgrIds' \in [Mboards -> [rx : Ids, tx : Ids,
                                  rxCtor : Ctors \cup {NoCtor}, txCtor : Ctors \cup {NoCtor}]]
      BY <1>4, <2>0 DEF IInv, TypeOK
    <2>3. db' \in [Mboards -> [Dirs -> [Names -> Proxy \cup {NoProxy}]]]
      BY <2>0, BuildDbType DEF IInv, TypeOK
    <2>4. drv' \in [Inst -> Vals]
      BY <2>0, ManagerAssumption DEF IInv, TypeOK
    <2>5. entered' \in [Inst -> SUBSET Dirs]
      BY <2>0 DEF IInv, TypeOK
    <2> QED
      BY <2>1, <2>2, <2>3, <2>4, <2>5
  <1>6. ASSUME ~(r.ic[rxId] # NoCtor /\ r.ic[txId] # NoCtor)
        PROVE  UNCHANGED mgrVars
    BY <1>6 DEF Construct
  <1>7. TypeOK'
    BY <1>3, <1>5, <1>6 DEF TypeOK, mgrVars, IInv
  <1>9. ExternalOverrideWins'
    <2> SUFFICES ASSUME NEW i \in Ids, extCtor'[i] # NoCtor PROVE idToCtor'[i] = extCtor'[i]
      BY DEF ExternalOverrideWins
    <2>1. called
      BY <1>2 DEF IInv
    <2>2. r = Current
      BY <2>1, SeededIdentity
    <2> QED
      BY <1>2, <2>2 DEF SetRegistry, Current, IInv, ExternalOverrideWins
  <1> QED
    BY <1>2, <1>3, <1>7, <1>9 DEF IInv

(* A set through a proxy keeps the invariant: it writes one instance.      *)
LEMMA ProxySetIInv ==
    ASSUME IInv, NEW m \in Mboards, NEW d \in Dirs, NEW n \in Names, NEW v \in Vals,
           ProxySet(m, d, n, v)
    PROVE  IInv'
  <1>1. db[m][d][n] \in Proxy
    BY DEF ProxySet, IInv, TypeOK
  <1>2. drv' \in [Inst -> Vals] /\ lastWrite' \in [Mboards -> [Dirs -> [Names -> Vals]]]
    BY <1>1 DEF ProxySet, IInv, TypeOK, Proxy
  <1>3. entered' \in [Inst -> SUBSET Dirs]
    BY <1>1 DEF ProxySet, IInv, TypeOK, Proxy
  <1> QED
    BY <1>2, <1>3 DEF ProxySet, IInv, TypeOK, RegTypeOK, Resolvable, HasCtor, NamesOf,
                ExternalOverrideWins, regVars

LEMMA NextIInv == IInv /\ [Next]_vars => IInv'
  <1> SUFFICES ASSUME IInv, [Next]_vars PROVE IInv'
    OBVIOUS
  <1>1. CASE \E e \in ExtRegs : ExtRegister(e.id, e.ctor, e.names)
    BY <1>1, ExtRegisterIInv
  <1>2. CASE \E m \in Mboards, rxId, txId \in Ids : Construct(m, rxId, txId)
    BY <1>2, ConstructIInv
  <1>3. CASE \E m \in Mboards, d \in Dirs, n \in Names, v \in Vals : ProxySet(m, d, n, v)
    BY <1>3, ProxySetIInv
  <1>4. CASE UNCHANGED vars
    BY <1>4 DEF vars, regVars, mgrVars, IInv, TypeOK, RegTypeOK, Resolvable, HasCtor,
                NamesOf, ExternalOverrideWins
  <1> QED
    BY <1>1, <1>2, <1>3, <1>4 DEF Next

(* Every reachable state is well typed: the registry holds only the       *)
(* built-in and registered name lists, every filed proxy names a driver    *)
(* instance of its own motherboard's kinds, and proxy sets write values.  *)
THEOREM TypeCorrect == Spec => []TypeOK
  <1>1. IInv => TypeOK
    BY DEF IInv
  <1> QED
    BY InitIInv, NextIInv, <1>1, PTL DEF Spec

(* Every id with a constructor resolves to a name list (the manager's      *)
(* ctor_to_names_map[ctor] reads of lines 151, 169, 179).                  *)
THEOREM AlwaysResolvable == Spec => []Resolvable
  <1>1. IInv => Resolvable
    BY DEF IInv
  <1> QED
    BY InitIInv, NextIInv, <1>1, PTL DEF Spec

(* An id registered by an external driver always resolves to the           *)
(* constructor of its latest external registration (override after seed,   *)
(* register_subdevs lines 64-67).                                          *)
THEOREM OverrideAfterSeed == Spec => []ExternalOverrideWins
  <1>1. IInv => ExternalOverrideWins
    BY DEF IInv
  <1> QED
    BY InitIInv, NextIInv, <1>1, PTL DEF Spec
-----------------------------------------------------------------------------
(* Every filed proxy carries a type its instance's role admits: RX for a   *)
(* board built for the RX half, TX for one built for the TX half.          *)
ProxyRole ==
    \A m \in Mboards, d \in Dirs, n \in Names :
        db[m][d][n] # NoProxy => db[m][d][n].dir \in RoleEntries[db[m][d][n].inst[2]]

RoleInv == IInv /\ ProxyRole /\ EntryMatchesRole

(* Both branches of the constructor tag each proxy with a type its         *)
(* instance's role admits (lines 155-161, 172-174, 181-183).               *)
LEMMA BuildDbRoles ==
    ASSUME NEW m \in Mboards, NEW rc, NEW tc, NEW cn, NEW d \in Dirs, NEW n \in Names,
           BuildDb(m, rc, tc, cn)[d][n] # NoProxy
    PROVE  BuildDb(m, rc, tc, cn)[d][n].dir \in RoleEntries[BuildDb(m, rc, tc, cn)[d][n].inst[2]]
  <1>1. CASE rc = tc
    BY <1>1 DEF BuildDb, RoleEntries, Kinds
  <1>2. CASE rc # tc /\ d = "RX"
    BY <1>2 DEF BuildDb, RoleEntries, Kinds
  <1>3. CASE rc # tc /\ d = "TX"
    BY <1>3 DEF BuildDb, RoleEntries, Kinds
  <1> QED
    BY <1>1, <1>2, <1>3 DEF Dirs

LEMMA InitRoleInv == Init => RoleInv
  BY InitIInv DEF Init, EmptyDb, RoleInv, ProxyRole, EntryMatchesRole

(* A successful construction files proxies of the right types and gives    *)
(* its fresh instances no entry history; a failed one changes nothing.     *)
LEMMA ConstructRoles ==
    ASSUME RoleInv, NEW m \in Mboards, NEW rxId \in Ids, NEW txId \in Ids,
           Construct(m, rxId, txId)
    PROVE  ProxyRole' /\ EntryMatchesRole'
  <1> DEFINE r == RegisterInternal(called, Current)
  <1>0. db \in [Mboards -> [Dirs -> [Names -> Proxy \cup {NoProxy}]]]
        /\ entered \in [Inst -> SUBSET Dirs]
    BY DEF RoleInv, IInv, TypeOK
  <1>1. CASE r.ic[rxId] # NoCtor /\ r.ic[txId] # NoCtor
    <2>0. /\ db' = [db EXCEPT ![m] = BuildDb(m, r.ic[rxId], r.ic[txId], r.cn)]
          /\ entered' = [i \in Inst |-> IF i[1] = m THEN {} ELSE entered[i]]
      BY <1>1 DEF Construct
    <2>1. ProxyRole'
      <3> SUFFICES ASSUME NEW m2 \in Mboards, NEW d \in Dirs, NEW n \in Names,
                          db'[m2][d][n] # NoProxy
                   PROVE  db'[m2][d][n].dir \in RoleEntries[db'[m2][d][n].inst[2]]
        BY DEF ProxyRole
      <3>1. CASE m2 = m
        BY <1>0, <2>0, <3>1, BuildDbRoles
      <3>2. CASE m2 # m
        BY <1>0, <2>0, <3>2 DEF RoleInv, ProxyRole
      <3> QED
        BY <3>1, <3>2
    <2>2. EntryMatchesRole'
      BY <2>0 DEF RoleInv, EntryMatchesRole
    <2> QED
      BY <2>1, <2>2
  <1>2. CASE ~(r.ic[rxId] # NoCtor /\ r.ic[txId] # NoCtor)
    <2>1. UNCHANGED mgrVars
      BY <1>2 DEF Construct
    <2> QED
      BY <2>1 DEF mgrVars, RoleInv, ProxyRole, EntryMatchesRole
  <1> QED
    BY <1>1, <1>2

(* A proxy set enters its instance through the proxy's own type (lines     *)
(* 105-110), which the instance's role admits.                             *)
LEMMA ProxySetRoles ==
    ASSUME RoleInv, NEW m \in Mboards, NEW d \in Dirs, NEW n \in Names, NEW v \in Vals,
           ProxySet(m, d, n, v)
    PROVE  ProxyRole' /\ EntryMatchesRole'
  <1> DEFINE p == db[m][d][n]
  <1>1. p \in Proxy /\ entered \in [Inst -> SUBSET Dirs]
    BY DEF ProxySet, RoleInv, IInv, TypeOK
  <1>2. p.dir \in RoleEntries[p.inst[2]]
    BY DEF ProxySet, RoleInv, ProxyRole
  <1>3. entered' = [entered EXCEPT ![p.inst] = @ \cup {p.dir}] /\ db' = db
    BY DEF ProxySet
  <1>4. EntryMatchesRole'
    <2> SUFFICES ASSUME NEW i \in Inst PROVE entered'[i] \subseteq RoleEntries[i[2]]
      BY DEF EntryMatchesRole
    <2>1. CASE i = p.inst
      BY <1>1, <1>2, <1>3, <2>1 DEF RoleInv, EntryMatchesRole, Proxy
    <2>2. CASE i # p.inst
      BY <1>1, <1>3, <2>2 DEF RoleInv, EntryMatchesRole
    <2> QED
      BY <2>1, <2>2
  <1> QED
    BY <1>3, <1>4 DEF RoleInv, ProxyRole

LEMMA NextRoleInv == RoleInv /\ [Next]_vars => RoleInv'
  <1> SUFFICES ASSUME RoleInv, [Next]_vars PROVE RoleInv'
    OBVIOUS
  <1>0. IInv'
    BY NextIInv DEF RoleInv
  <1>1. CASE \E e \in ExtRegs : ExtRegister(e.id, e.ctor, e.names)
    BY <1>0, <1>1 DEF ExtRegister, mgrVars, RoleInv, ProxyRole, EntryMatchesRole
  <1>2. CASE \E m \in Mboards, rxId, txId \in Ids : Construct(m, rxId, txId)
    BY <1>0, <1>2, ConstructRoles DEF RoleInv
  <1>3. CASE \E m \in Mboards, d \in Dirs, n \in Names, v \in Vals : ProxySet(m, d, n, v)
    BY <1>0, <1>3, ProxySetRoles DEF RoleInv
  <1>4. CASE UNCHANGED vars
    BY <1>0, <1>4 DEF vars, mgrVars, RoleInv, ProxyRole, EntryMatchesRole
  <1> QED
    BY <1>1, <1>2, <1>3, <1>4 DEF Next

(* A board the constructor built for one half is only ever driven through *)
(* that half's entry point, rx_set or tx_set, over any registrations,     *)
(* rebuilds and proxy sets: the constructor's type tags and               *)
(* subdev_proxy::set's dispatch agree.                                    *)
THEOREM DispatchByRole == Spec => []EntryMatchesRole
  <1>1. RoleInv => EntryMatchesRole
    BY DEF RoleInv
  <1> QED
    BY InitRoleInv, NextRoleInv, <1>1, PTL DEF Spec

=============================================================================
