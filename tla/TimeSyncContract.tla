-------------------------- MODULE TimeSyncContract --------------------------
(***************************************************************************)
(* What set_time_unknown_pps and get_time_synchronized promise, with the   *)
(* edges, the polls and the host accesses abstracted away.                 *)
(*                                                                         *)
(* While the call runs, the clocks of boards with the PPS may move (they   *)
(* latch the new time at an edge); the clocks of the others never do.     *)
(* The call fails only when board 0 has no PPS.  Otherwise it settles      *)
(* with every board that gets the PPS agreeing with board 0, and from then *)
(* on no clock moves.  The verify loop then names exactly the boards that  *)
(* are off, within the band a read skew of Skew allows, and the query      *)
(* answers true only if none is off and false only if some clock differs.  *)
(***************************************************************************)
EXTENDS Integers

CONSTANTS
    NumMboards,   \* get_num_mboards()
    Skew,         \* the longest time between reading board 0 and board m
    SyncTol,      \* time_spec_t(0.01)
    None          \* no verdict or answer yet

VARIABLES
    pps,       \* pps[m]: board m gets the PPS signal
    clk,       \* clk[m]: board m's clock minus real time
    stage,     \* "running", "failed", "settled", "verified" or "answered"
    verdict,   \* the boards the verify loop warned about, or None
    answer     \* get_time_synchronized's answer, or None

cvars == <<pps, clk, stage, verdict, answer>>

CBoards == 0 .. NumMboards - 1

(* A clock the verify test must flag: behind by more than the skew, or     *)
(* ahead by more than the tolerance.                                       *)
Off(m) == clk[m] < clk[0] - Skew \/ clk[m] > clk[0] + SyncTol

CInit ==
    /\ pps \in [CBoards -> BOOLEAN]
    /\ clk \in [CBoards -> Int]
    /\ stage = "running"
    /\ verdict = None
    /\ answer = None

(* A latch while the call runs: only boards with the PPS move.             *)
CDrift ==
    /\ stage = "running"
    /\ clk' \in [CBoards -> Int]
    /\ \A m \in CBoards : ~pps[m] => clk'[m] = clk[m]
    /\ UNCHANGED <<pps, stage, verdict, answer>>

(* The "no PPS" timeout, only without PPS on board 0.                      *)
CFail ==
    /\ stage = "running"
    /\ ~pps[0]
    /\ stage' = "failed"
    /\ UNCHANGED <<pps, clk, verdict, answer>>

(* The sleep ends with every board that gets the PPS aligned to board 0;   *)
(* with one board the verify loop is empty and has warned about nothing.   *)
CSettle ==
    /\ stage = "running"
    /\ \A m \in CBoards : pps[m] => clk[m] = clk[0]
    /\ IF NumMboards > 1
       THEN stage' = "settled" /\ verdict' = None
       ELSE stage' = "verified" /\ verdict' = {}
    /\ UNCHANGED <<pps, clk, answer>>

(* The verify loop ends: it warned about every board that is off and about *)
(* none that agrees with board 0.                                          *)
CVerdict ==
    /\ stage = "settled"
    /\ \E w \in SUBSET (CBoards \ {0}) :
          /\ \A m \in CBoards \ {0} : (clk[m] = clk[0] => m \notin w) /\ (Off(m) => m \in w)
          /\ verdict' = w
    /\ stage' = "verified"
    /\ UNCHANGED <<pps, clk, answer>>

(* get_time_synchronized returns.                                          *)
CAnswer ==
    /\ stage = "verified"
    /\ \E b \in BOOLEAN :
          /\ b => \A m \in CBoards \ {0} : ~Off(m)
          /\ ~b => \E m \in CBoards \ {0} : clk[m] # clk[0]
          /\ answer' = b
    /\ stage' = "answered"
    /\ UNCHANGED <<pps, clk, verdict>>

CNext == CDrift \/ CFail \/ CSettle \/ CVerdict \/ CAnswer

CSpec == CInit /\ [][CNext]_cvars
=============================================================================
