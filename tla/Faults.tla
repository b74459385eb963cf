-------------------------------- MODULE Faults --------------------------------
(* What may go wrong in one behaviour of the handset: a bounded number of
   failures, shared by every bus, store and network, so that each is met alone
   and, where the bound allows two, any two of them together. *)
EXTENDS Naturals

VARIABLE
    trouble \* failures still to come, and whether there has been one; a stroke
            \* lost; the modem given up while it booted

TroubleInit(max) ==
    trouble = [left |-> max, met |-> FALSE, lost |-> FALSE, gaveUp |-> FALSE]

(* Something fails now; `what`, if it is one of the marks, stays on record. *)
Mishap(what) ==
    /\ trouble.left > 0
    /\ trouble' = [f \in DOMAIN trouble |->
                      CASE f = "left" -> trouble.left - 1
                        [] f \in {"met", what} -> TRUE
                        [] OTHER -> trouble[f]]

Lucky == ~trouble.met
=============================================================================
