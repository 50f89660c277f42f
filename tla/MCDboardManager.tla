-------------------------- MODULE MCDboardManager ---------------------------
(* Model-checking instance of DboardManager: the three built-in ids and    *)
(* two external registrations, one installing a transceiver driver over    *)
(* ID_BASIC_RX, one moving ID_BASIC_TX onto basic_rx::make with other      *)
(* names; one motherboard and two board-state values.                      *)
EXTENDS DboardManager

CONSTANTS xcvrMake, nmX

MCExtCtors == {xcvrMake}
MCExtNames == {nmX}
MCExtRegs  ==
    { [id |-> IdBasicRx, ctor |-> xcvrMake,    names |-> <<nmX, NmA>>],
      [id |-> IdBasicTx, ctor |-> BasicRxMake, names |-> <<NmA>>] }
MCVals     == {"v0", "v1"}

(* entered, drv and lastWrite are history: no action's guard reads them,   *)
(* and each is updated from itself and the other state only.  A run whose *)
(* properties do not read one of them may leave it out of the view.       *)
MCClientView   == <<regVars, mgr, mgrIds, db, gpio, drv, lastWrite>>
MCDispatchView == <<regVars, mgr, mgrIds, db, gpio, entered>>
=============================================================================
