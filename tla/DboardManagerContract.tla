----------------------- MODULE DboardManagerContract ------------------------
(***************************************************************************)
(* What a daughterboard manager promises its clients, with the registry,  *)
(* the constructors and the proxies abstracted away.                       *)
(*                                                                         *)
(* A built manager offers a set of subdevice names per direction.  It is   *)
(* either shared (one board behind both directions, so a name is offered   *)
(* on both sides and a set through either side shows on both) or split     *)
(* (every offered (direction, name) is a board of its own).  A manager     *)
(* that is built again offers fresh boards in state V0; a set on one       *)
(* manager never shows on another.                                         *)
(***************************************************************************)
CONSTANTS
    Mboards,   \* motherboard slots
    Names,     \* subdevice names
    Vals,      \* board states a set may write
    V0         \* the state of a fresh board

VARIABLES
    built,     \* built[m]: a construction of manager m succeeded
    shared,    \* shared[m]: manager m has one board behind both directions
    subdevs,   \* subdevs[m][d]: the names manager m offers in direction d
    board      \* board[m][d][n]: the state the client sees through (m, d, n)

cvars == <<built, shared, subdevs, board>>

CDirs == {"RX", "TX"}

Opposite(d) == IF d = "RX" THEN "TX" ELSE "RX"

FreshBoards == [d \in CDirs |-> [n \in Names |-> V0]]

CInit ==
    /\ built = [m \in Mboards |-> FALSE]
    /\ shared \in [Mboards -> BOOLEAN]
    /\ subdevs = [m \in Mboards |-> [d \in CDirs |-> {}]]
    /\ board = [m \in Mboards |-> FreshBoards]

(* Manager m is (re)built: shared or split, with some names per side (the  *)
(* same on both sides when shared), every board fresh.                     *)
CBuild(m) ==
    \E sh \in BOOLEAN, sd \in [CDirs -> SUBSET Names] :
        /\ sh => sd["RX"] = sd["TX"]
        /\ built' = [built EXCEPT ![m] = TRUE]
        /\ shared' = [shared EXCEPT ![m] = sh]
        /\ subdevs' = [subdevs EXCEPT ![m] = sd]
        /\ board' = [board EXCEPT ![m] = FreshBoards]

(* A set through an offered (m, d, n) writes v there, and on the other     *)
(* side of the same name when the manager is shared; nothing else changes. *)
CSet(m, d, n, v) ==
    /\ built[m]
    /\ n \in subdevs[m][d]
    /\ board' = [board EXCEPT ![m][d][n] = v,
                              ![m][Opposite(d)][n] = IF shared[m] THEN v ELSE @]
    /\ UNCHANGED <<built, shared, subdevs>>

CNext ==
    \/ \E m \in Mboards : CBuild(m)
    \/ \E m \in Mboards, d \in CDirs, n \in Names, v \in Vals : CSet(m, d, n, v)

CSpec == CInit /\ [][CNext]_cvars
=============================================================================
