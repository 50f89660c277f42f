--------------------------- MODULE DboardManager ----------------------------
(***************************************************************************)
(* The daughterboard manager of dboard/manager.cpp, composed with the      *)
(* registry it reads.  One manager per motherboard slot in Mboards.        *)
(*                                                                         *)
(* The constructor seeds the registry, resolves the RX and TX ids, puts    *)
(* both GPIO banks into a software-controlled all-input state, and builds  *)
(* the subdevice proxies: one driver instance shared by an RX and a TX     *)
(* proxy per name when both ids resolve to the same constructor, separate  *)
(* instances otherwise.  A proxy forwards set() to the instance's rx_set   *)
(* or tx_set by its direction tag.                                         *)
(*                                                                         *)
(* A driver instance is named by <<mboard, kind, subdevice name>>; its     *)
(* board state is one value of Vals that both of its halves read and      *)
(* write (the concrete drivers are outside the model).                     *)
(***************************************************************************)
EXTENDS DboardRegistry

CONSTANTS
    Mboards,     \* motherboard slots, each holding one manager
    Vals,        \* values a proxy set() may write
    V0,          \* the board state of a freshly constructed driver
    NoProxy      \* "no entry" in _rx_dboards / _tx_dboards

Dirs  == {"RX", "TX"}
Kinds == {"xcvr", "rx", "tx"}
Inst  == Mboards \X Kinds \X Names
Proxy == [inst : Inst, dir : Dirs]

ASSUME ManagerAssumption ==
    /\ V0 \in Vals
    /\ Mboards # {}
    /\ NoProxy \notin Proxy

VARIABLES
    mgr,        \* mgr[m]: "none", or "built" once a constructor succeeded
    mgrIds,     \* mgrIds[m]: the ids the constructor was given and the
                \* constructors it resolved them to
    db,         \* db[m][d][n]: the proxy filed under n in _rx_dboards / _tx_dboards
    gpio,       \* gpio[m]: "power_on", or "software" once lines 140-147 ran
    drv,        \* drv[i]: board state of driver instance i
    entered,    \* entered[i]: the entry points, "RX" (rx_set) and "TX" (tx_set),
                \* through which instance i was driven since it was constructed
    lastWrite   \* history: lastWrite[m][d][n], the value last set through that proxy

mgrVars == <<mgr, mgrIds, db, gpio, drv, entered, lastWrite>>
vars == <<regVars, mgrVars>>

NameSet(seq) == {seq[k] : k \in 1 .. Len(seq)}

(* ctor_to_names_map[ctor]: uhd::dict's operator[] yields an empty list    *)
(* for a missing key.                                                      *)
NamesIn(cn, ctor) == IF cn[ctor] = NoNames THEN {} ELSE NameSet(cn[ctor])

EmptyDb == [d \in Dirs |-> [n \in Names |-> NoProxy]]

(* Variant: the transceiver branch constructs one instance per direction. *)
BuildDbSplitXcvr(m, rxCtor, txCtor, cn) ==
    [d \in Dirs |-> [n \in Names |->
        IF n \in NamesIn(cn, IF d = "RX" THEN rxCtor ELSE txCtor)
        THEN [inst |-> <<m, IF d = "RX" THEN "rx" ELSE "tx", n>>, dir |-> d]
        ELSE NoProxy]]

(* Variant: the separate branch reuses one instance per subdevice name.   *)
BuildDbSharedNames(m, rxCtor, txCtor, cn) ==
    [d \in Dirs |-> [n \in Names |->
        IF n \in NamesIn(cn, IF d = "RX" THEN rxCtor ELSE txCtor)
        THEN [inst |-> <<m, "xcvr", n>>, dir |-> d]
        ELSE NoProxy]]

(* The proxy maps the constructor files (lines 150-188).                   *)
BuildDb(m, rxCtor, txCtor, cn) ==
    IF rxCtor = txCtor
    THEN [d \in Dirs |-> [n \in Names |->
            IF n \in NamesIn(cn, rxCtor)
            THEN [inst |-> <<m, "xcvr", n>>, dir |-> d] ELSE NoProxy]]
    ELSE [RX |-> [n \in Names |->
            IF n \in NamesIn(cn, rxCtor)
            THEN [inst |-> <<m, "rx", n>>, dir |-> "RX"] ELSE NoProxy],
          TX |-> [n \in Names |->
            IF n \in NamesIn(cn, txCtor)
            THEN [inst |-> <<m, "tx", n>>, dir |-> "TX"] ELSE NoProxy]]

Init ==
    /\ RegInit
    /\ mgr = [m \in Mboards |-> "none"]
    /\ mgrIds = [m \in Mboards |->
                    [rx |-> IdNone, tx |-> IdNone, rxCtor |-> NoCtor, txCtor |-> NoCtor]]
    /\ db = [m \in Mboards |-> EmptyDb]
    /\ gpio = [m \in Mboards |-> "power_on"]
    /\ drv = [i \in Inst |-> V0]
    /\ entered = [i \in Inst |-> {}]
    /\ lastWrite = [m \in Mboards |-> [d \in Dirs |-> [n \in Names |-> V0]]]

(* An external driver registers an entry; the managers are untouched.      *)
ExtRegister(id, ctor, names) ==
    /\ RegisterSubdevs(id, ctor, names)
    /\ UNCHANGED mgrVars

(* Variant: the new driver instances keep the board state of the ones     *)
(* they replace.                                                          *)
ConstructKeepDrv(m, rxId, txId) ==
    LET r      == RegisterInternal(called, Current)
        rxCtor == r.ic[rxId]
        txCtor == r.ic[txId]
    IN
    /\ called' = TRUE
    /\ SetRegistry(r)
    /\ UNCHANGED extCtor
    /\ IF rxCtor # NoCtor /\ txCtor # NoCtor
       THEN /\ mgrIds' = [mgrIds EXCEPT ![m] =
                    [rx |-> rxId, tx |-> txId, rxCtor |-> rxCtor, txCtor |-> txCtor]]
            /\ mgr' = [mgr EXCEPT ![m] = "built"]
            /\ db' = [db EXCEPT ![m] = BuildDb(m, rxCtor, txCtor, r.cn)]
            /\ gpio' = [gpio EXCEPT ![m] = "software"]
            /\ UNCHANGED drv
            /\ entered' = [i \in Inst |-> IF i[1] = m THEN {} ELSE entered[i]]
            /\ lastWrite' = [lastWrite EXCEPT ![m] = [d \in Dirs |-> [n \in Names |-> V0]]]
       ELSE UNCHANGED mgrVars

(* manager::manager(rx_id, tx_id, iface) for motherboard m, replacing the  *)
(* manager it held before (lines 130-189).  The seeding of line 135 runs   *)
(* first; get_dboard_ctor (lines 116-128) then throws for an unknown id    *)
(* before any GPIO write, and the motherboard keeps the manager it had.   *)
(* On success the GPIO banks are set up (lines 140-147) and the proxies    *)
(* filed; each new driver instance starts from V0.                        *)
Construct(m, rxId, txId) ==
    LET r      == RegisterInternal(called, Current)
        rxCtor == r.ic[rxId]
        txCtor == r.ic[txId]
    IN
    /\ called' = TRUE
    /\ SetRegistry(r)
    /\ UNCHANGED extCtor
    /\ IF rxCtor # NoCtor /\ txCtor # NoCtor
       THEN /\ mgrIds' = [mgrIds EXCEPT ![m] =
                    [rx |-> rxId, tx |-> txId, rxCtor |-> rxCtor, txCtor |-> txCtor]]
            /\ mgr' = [mgr EXCEPT ![m] = "built"]
            /\ db' = [db EXCEPT ![m] = BuildDb(m, rxCtor, txCtor, r.cn)]
            /\ gpio' = [gpio EXCEPT ![m] = "software"]
            /\ drv' = [i \in Inst |-> IF i[1] = m THEN V0 ELSE drv[i]]
            /\ entered' = [i \in Inst |-> IF i[1] = m THEN {} ELSE entered[i]]
            /\ lastWrite' = [lastWrite EXCEPT ![m] = [d \in Dirs |-> [n \in Names |-> V0]]]
       ELSE UNCHANGED mgrVars

OtherDir(d) == IF d = "RX" THEN "TX" ELSE "RX"

(* Variant: subdev_proxy::set calls tx_set for an RX_TYPE proxy and rx_set *)
(* for a TX_TYPE one.                                                      *)
ProxySetSwapped(m, d, n, v) ==
    /\ mgr[m] = "built"
    /\ db[m][d][n] # NoProxy
    /\ drv' = [drv EXCEPT ![db[m][d][n].inst] = v]
    /\ entered' = [entered EXCEPT ![db[m][d][n].inst] = @ \cup {OtherDir(db[m][d][n].dir)}]
    /\ lastWrite' = [lastWrite EXCEPT ![m][d][n] = v]
    /\ UNCHANGED <<regVars, mgr, mgrIds, db, gpio>>

(* set() through the proxy returned by get_rx_subdev / get_tx_subdev(n):   *)
(* an unknown name throws invalid_argument and changes nothing.  The proxy *)
(* forwards to rx_set or tx_set by its type (lines 105-110); either entry  *)
(* point writes the instance's one board state.                            *)
ProxySet(m, d, n, v) ==
    /\ mgr[m] = "built"
    /\ db[m][d][n] # NoProxy
    /\ drv' = [drv EXCEPT ![db[m][d][n].inst] = v]
    /\ entered' = [entered EXCEPT ![db[m][d][n].inst] = @ \cup {db[m][d][n].dir}]
    /\ lastWrite' = [lastWrite EXCEPT ![m][d][n] = v]
    /\ UNCHANGED <<regVars, mgr, mgrIds, db, gpio>>

Next ==
    \/ \E e \in ExtRegs : ExtRegister(e.id, e.ctor, e.names)
    \/ \E m \in Mboards, rxId, txId \in Ids : Construct(m, rxId, txId)
    \/ \E m \in Mboards, d \in Dirs, n \in Names, v \in Vals : ProxySet(m, d, n, v)

Spec == Init /\ [][Next]_vars

-----------------------------------------------------------------------------
TypeOK ==
    /\ RegTypeOK
    /\ mgr \in [Mboards -> {"none", "built"}]
    /\ mgrIds \in [Mboards -> [rx : Ids, tx : Ids,
                                rxCtor : Ctors \cup {NoCtor}, txCtor : Ctors \cup {NoCtor}]]
    /\ db \in [Mboards -> [Dirs -> [Names -> Proxy \cup {NoProxy}]]]
    /\ gpio \in [Mboards -> {"power_on", "software"}]
    /\ drv \in [Inst -> Vals]
    /\ entered \in [Inst -> SUBSET Dirs]
    /\ lastWrite \in [Mboards -> [Dirs -> [Names -> Vals]]]

(* The board state a proxy (m, d, n) observes.                             *)
Seen(m, d, n) == drv[db[m][d][n].inst]

Filed(m, d, n) == db[m][d][n] # NoProxy

(* Transceiver aliasing: a manager whose RX and TX ids resolved to one     *)
(* constructor files every name on both sides, and both proxies of a name  *)
(* see the same board state after any sequence of sets through either.     *)
TransceiverCoherent ==
    \A m \in Mboards : (mgr[m] = "built" /\ mgrIds[m].rxCtor = mgrIds[m].txCtor) =>
        \A n \in Names :
            /\ Filed(m, "RX", n) <=> Filed(m, "TX", n)
            /\ Filed(m, "RX", n) => Seen(m, "RX", n) = Seen(m, "TX", n)

(* Separate halves: when the two ids resolved to different constructors,   *)
(* what a proxy sees is what was last set through that proxy; writes       *)
(* through one half, or through another name, never show through it.      *)
SeparateCtorsIsolated ==
    \A m \in Mboards : (mgr[m] = "built" /\ mgrIds[m].rxCtor # mgrIds[m].txCtor) =>
        \A d \in Dirs, n \in Names :
            Filed(m, d, n) => Seen(m, d, n) = lastWrite[m][d][n]

(* The entry points a driver built for each role may be driven through.    *)
RoleEntries == [k \in Kinds |-> IF k = "rx" THEN {"RX"} ELSE IF k = "tx" THEN {"TX"} ELSE Dirs]

(* Dispatch by role: a board the constructor made for the RX half (line   *)
(* 169) is only ever driven through rx_set, one made for the TX half       *)
(* (line 178) only through tx_set, and a transceiver board (line 152)      *)
(* through either.  It takes the constructor filing each proxy with the    *)
(* type of its side and subdev_proxy::set dispatching on that type, over  *)
(* rebuilds that replace the proxies.                                      *)
EntryMatchesRole == \A i \in Inst : entered[i] \subseteq RoleEntries[i[2]]

(* The manager as its clients see it: built, shared when both ids resolved *)
(* to one constructor, the names filed per direction, and the board state  *)
(* each filed proxy observes.                                              *)
BuiltView  == [m \in Mboards |-> mgr[m] = "built"]
SharedView == [m \in Mboards |-> mgrIds[m].rxCtor = mgrIds[m].txCtor]
SubdevView == [m \in Mboards |-> [d \in Dirs |-> {n \in Names : Filed(m, d, n)}]]
BoardView  == [m \in Mboards |-> [d \in Dirs |-> [n \in Names |->
                  IF Filed(m, d, n) THEN Seen(m, d, n) ELSE V0]]]

Contract == INSTANCE DboardManagerContract WITH
    built <- BuiltView, shared <- SharedView, subdevs <- SubdevView, board <- BoardView

(* The manager implements the contract: a construction that succeeds is a  *)
(* rebuild with fresh boards, shared exactly when the constructors are     *)
(* equal; a failed one, an external registration and a seeding change     *)
(* nothing a client sees; a proxy set writes its own board, and the        *)
(* opposite side's of the same name exactly when shared, on no other       *)
(* manager and under no other name.                                        *)
ImplementsContract == Contract!CSpec

(* Separate halves (spec 8): with different RX and TX ids, what a proxy    *)
(* sees is what was last set through that proxy; a TX write is never       *)
(* visible through the RX proxy of the same name.  The code shares one     *)
(* instance whenever the two ids resolve to the same constructor (line     *)
(* 150), and the seeding maps ID_NONE and ID_BASIC_RX to basic_rx::make.   *)
DifferentIdsIsolated ==
    \A m \in Mboards : (mgr[m] = "built" /\ mgrIds[m].rx # mgrIds[m].tx) =>
        \A d \in Dirs, n \in Names :
            Filed(m, d, n) => Seen(m, d, n) = lastWrite[m][d][n]
=============================================================================
