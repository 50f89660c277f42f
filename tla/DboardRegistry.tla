--------------------------- MODULE DboardRegistry ---------------------------
(***************************************************************************)
(* The process-wide daughterboard registry of dboard/manager.cpp.          *)
(*                                                                         *)
(* Two static dictionaries: id_to_ctor_map maps a dboard id to a           *)
(* constructor, ctor_to_names_map maps a constructor to the subdevice      *)
(* names it builds.  register_subdevs writes both after triggering the     *)
(* one-time seeding of the built-in boards, guarded by the latch `called`. *)
(*                                                                         *)
(* Ids, constructors and names are model values.  A dictionary is a total  *)
(* function with a sentinel (NoCtor, NoNames) standing for "no key".       *)
(***************************************************************************)
EXTENDS Naturals, Sequences, FiniteSets

CONSTANTS
    IdNone, IdBasicTx, IdBasicRx,   \* ID_NONE, ID_BASIC_TX, ID_BASIC_RX
    ExtIds,                         \* further ids an external driver may register
    BasicTxMake, BasicRxMake,       \* &basic_tx::make, &basic_rx::make
    ExtCtors,                       \* constructors of external drivers
    NmEmpty, NmA, NmB, NmAB,        \* the subdevice names "", "a", "b", "ab"
    ExtNames,                       \* further subdevice names
    ExtRegs,                        \* the (id, ctor, names) calls external drivers make
    NoCtor, NoNames                 \* "key absent" in the two dictionaries

BuiltinIds   == {IdNone, IdBasicTx, IdBasicRx}
Ids          == BuiltinIds \cup ExtIds
Ctors        == {BasicTxMake, BasicRxMake} \cup ExtCtors
Names        == {NmEmpty, NmA, NmB, NmAB} \cup ExtNames
NameLists    == {<<NmEmpty>>, <<NmAB>>, <<NmA, NmB, NmAB>>} \cup {e.names : e \in ExtRegs}

ASSUME RegistryAssumption ==
    /\ Cardinality(BuiltinIds) = 3
    /\ BasicTxMake # BasicRxMake
    /\ NoCtor \notin Ctors
    /\ NoNames \notin NameLists
    /\ ExtRegs \subseteq [id : Ids, ctor : Ctors, names : Seq(Names)]

VARIABLES
    called,        \* the static latch of register_internal_dboards
    idToCtor,      \* id_to_ctor_map
    ctorToNames,   \* ctor_to_names_map
    givenNames,    \* history: names last passed with each id, by anyone
    extCtor        \* history: constructor last passed with each id by an
                   \* external register_subdevs call

regVars == <<called, idToCtor, ctorToNames, givenNames, extCtor>>

(* Variant: register_subdevs without line 67, so no id ever gets names.   *)
PutIdOnly(r, id, ctor, names) ==
    [ic |-> [r.ic EXCEPT ![id] = ctor],
     cn |-> r.cn,
     gn |-> [r.gn EXCEPT ![id] = names]]

(* One assignment pair of register_subdevs (lines 66-67), as a step on a   *)
(* record of the two dictionaries and the names history.                   *)
Put(r, id, ctor, names) ==
    [ic |-> [r.ic EXCEPT ![id] = ctor],
     cn |-> [r.cn EXCEPT ![ctor] = names],
     gn |-> [r.gn EXCEPT ![id] = names]]

(* Variant: ID_BASIC_RX seeded with list_of("a")("b") only.              *)
RegisterInternalShortRx(isCalled, r) ==
    IF isCalled THEN r
    ELSE Put(Put(Put(Put(r,
            IdNone,    BasicTxMake, <<NmEmpty>>),
            IdNone,    BasicRxMake, <<NmAB>>),
            IdBasicTx, BasicTxMake, <<NmEmpty>>),
            IdBasicRx, BasicRxMake, <<NmA, NmB>>)

(* register_internal_dboards: return if the latch is set, else set it and  *)
(* register the four built-in entries in source order.  The nested         *)
(* register_subdevs calls re-enter it and return at once, since the latch  *)
(* is already set; so each of them is a plain Put.                         *)
RegisterInternal(isCalled, r) ==
    IF isCalled THEN r
    ELSE Put(Put(Put(Put(r,
            IdNone,    BasicTxMake, <<NmEmpty>>),
            IdNone,    BasicRxMake, <<NmAB>>),
            IdBasicTx, BasicTxMake, <<NmEmpty>>),
            IdBasicRx, BasicRxMake, <<NmA, NmB, NmAB>>)

Current == [ic |-> idToCtor, cn |-> ctorToNames, gn |-> givenNames]

SetRegistry(r) ==
    /\ idToCtor'    = r.ic
    /\ ctorToNames' = r.cn
    /\ givenNames'  = r.gn

(* Variant: the insert before the seeding call.                           *)
RegisterSubdevsSeedLast(id, ctor, names) ==
    RegisterInternal(called, Put(Current, id, ctor, names))

(* register_subdevs's body: seed first, then insert the caller's entry.    *)
RegisterSubdevsResult(id, ctor, names) ==
    Put(RegisterInternal(called, Current), id, ctor, names)

RegInit ==
    /\ called = FALSE
    /\ idToCtor = [i \in Ids |-> NoCtor]
    /\ ctorToNames = [c \in Ctors |-> NoNames]
    /\ givenNames = [i \in Ids |-> NoNames]
    /\ extCtor = [i \in Ids |-> NoCtor]

(* manager::register_subdevs called by an external driver.                 *)
RegisterSubdevs(id, ctor, names) ==
    /\ called' = TRUE
    /\ SetRegistry(RegisterSubdevsResult(id, ctor, names))
    /\ extCtor' = [extCtor EXCEPT ![id] = ctor]

(* get_dboard_ctor: the id has a constructor.                              *)
HasCtor(id) == idToCtor[id] # NoCtor

(* The names a manager builds for an id: ctor_to_names_map[ctor(id)].      *)
NamesOf(id) == ctorToNames[idToCtor[id]]

RegNext == \E e \in ExtRegs : RegisterSubdevs(e.id, e.ctor, e.names)

RegSpec == RegInit /\ [][RegNext]_regVars

-----------------------------------------------------------------------------
RegTypeOK ==
    /\ called \in BOOLEAN
    /\ idToCtor \in [Ids -> Ctors \cup {NoCtor}]
    /\ ctorToNames \in [Ctors -> NameLists \cup {NoNames}]
    /\ givenNames \in [Ids -> NameLists \cup {NoNames}]
    /\ extCtor \in [Ids -> Ctors \cup {NoCtor}]

(* Every id that resolves to a constructor also resolves to a name list:   *)
(* the manager constructor's ctor_to_names_map[ctor] (lines 151, 169, 179) *)
(* never reads a default-inserted entry.                                   *)
Resolvable ==
    \A id \in Ids : HasCtor(id) => NamesOf(id) # NoNames

(* Override after seed: an id registered by an external driver resolves to *)
(* the constructor of its latest external registration, whatever was       *)
(* registered before or after, seeding included: line 65 runs the seeding  *)
(* before the insert, and the latch keeps it from running again.           *)
ExternalOverrideWins ==
    \A id \in Ids : extCtor[id] # NoCtor => idToCtor[id] = extCtor[id]

(* The spec's data model: each registered id has its own constructor entry *)
(* (constructor and names); re-registering one id changes only that id.    *)
(* The code keys the names by constructor (line 58), so a registration of  *)
(* one id rewrites the names of every id sharing its constructor.          *)
EntryPerId ==
    \A id \in Ids : givenNames[id] # NoNames => NamesOf(id) = givenNames[id]
=============================================================================
