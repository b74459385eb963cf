-------------------------------- MODULE Bus --------------------------------
(***************************************************************************)
(* The shared SPI bus (core/src/spi/bus.rs): one transaction at a time     *)
(* between a chip select and a release byte, and the bring-up that keeps   *)
(* the devices off each other. The wire may fail at any transfer, of which *)
(* an unknown prefix then went out.                                        *)
(*                                                                         *)
(* Kept of the wire: whether a byte went out with every chip select high   *)
(* since the last one went high (B2), whether the idle clocks and CMD0     *)
(* went out since power-on (B4), and every rule of the bus broken so far.  *)
(***************************************************************************)
EXTENDS Naturals

CONSTANT MaxFaults
ASSUME FaultsAssumption == MaxFaults \in Nat

VARIABLES
    up, releaseOwed,            \* struct Bus
    released, inSpiMode,        \* the wire
    broken,                     \* rules broken, those of the devices included
    faults

busVars == <<up, releaseOwed, released, inSpiMode>>

BusInit ==
    /\ up = FALSE /\ releaseOwed = FALSE
    /\ released = FALSE /\ inSpiMode = FALSE
    /\ broken = {} /\ faults = 0

\* `bad`: some transfer of this call fails.
Counted(bad) ==
    /\ bad => faults < MaxFaults
    /\ faults' = IF bad THEN faults + 1 ELSE faults

\* What a chip select going low breaks
Lowered(clean, first) ==
    (IF clean THEN {} ELSE {"not released"}) \cup (IF first THEN {} ELSE {"before CMD0"})

\* run: `arrived` says how much of the parts the device received, `ok` what
\* the caller is told, `misuse` what the parts break at the device.
Run(arrived, ok, misuse) ==
    \/ /\ ~up
       /\ arrived = "nothing" /\ ~ok
       /\ UNCHANGED <<busVars, broken, faults>>
    \/ /\ up /\ releaseOwed /\ Counted(TRUE)
       /\ arrived = "nothing" /\ ~ok
       /\ UNCHANGED <<busVars, broken>>
    \/ \E cut, unreleased \in BOOLEAN :
          /\ Counted(cut \/ unreleased)
          /\ up /\ arrived = (IF cut THEN "prefix" ELSE "all") /\ ok = ~(cut \/ unreleased)
          /\ releaseOwed' = unreleased /\ released' = ~unreleased
          /\ broken' = broken \cup Lowered(released \/ releaseOwed, inSpiMode) \cup misuse
          /\ UNCHANGED <<up, inSpiMode>>

\* bring_up. The idle bytes release the bus; CMD0 and the sleep command of
\* the LoRa radio are transactions, each of which may fail; a radio that stays
\* busy is left alone.
BroughtUp ==
    /\ up' = TRUE /\ inSpiMode' = TRUE
    /\ releaseOwed' = FALSE /\ released' = TRUE
    /\ UNCHANGED <<broken, faults>>

BringUpFails ==
    /\ Counted(TRUE) /\ UNCHANGED broken
    /\ \/ UNCHANGED <<up, releaseOwed, released, inSpiMode>>        \* the idle bytes
       \/ /\ up' = FALSE                                            \* CMD0, or sleep
          /\ inSpiMode' \in {inSpiMode, TRUE}
          /\ releaseOwed' \in BOOLEAN /\ released' = ~releaseOwed'
=============================================================================
