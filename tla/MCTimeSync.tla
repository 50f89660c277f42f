----------------------------- MODULE MCTimeSync -----------------------------
(* Model-checking instance of TimeSync: ticks of 10 ms, so a PPS period is *)
(* 100 ticks, the timeout 110, the settle sleep 100 and the tolerance 1;   *)
(* host accesses at most one tick apart; real time stops at 4 s, past the *)
(* longest run of the procedure (about 3.2 s).  Two boards whose clocks    *)
(* start 5 s behind or ahead of real time; the first edge falls 1, 2, 50  *)
(* or 100 ticks after the call starts.                                     *)
EXTENDS TimeSync

MCPhases      == {1, 2, 50, 100}
MCInitOffsets == {-500, 500}
=============================================================================
