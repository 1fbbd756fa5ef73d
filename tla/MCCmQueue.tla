----------------------------- MODULE MCCmQueue -----------------------------
(***************************************************************************)
(* Instances of CmQueue: the background loop, one interrupt handler and    *)
(* one software queue (the transmit queue of the serial link).             *)
(***************************************************************************)
EXTENDS CmQueue

CONSTANTS bg, isr, txq

MCContexts == {bg, isr}
MCHolders  == {bg, isr, txq}
============================================================================
