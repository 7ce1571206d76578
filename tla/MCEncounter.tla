---------------------------- MODULE MCEncounter ----------------------------
(***************************************************************************)
(* Two phones meet, for TLC: the Bluetooth radio that shows and finds      *)
(* them, the side that dials, the side that answers, and the ceremony that *)
(* pairs them.  The four share no state, so a behaviour follows one of     *)
(* them, drawn in the initial state, and leaves the others alone.          *)
(***************************************************************************)
EXTENDS BleCentral, BlePeripheral, BleRadio, SasPairing

VARIABLE stage       \* which of the four this behaviour follows

stageVars == <<centralVars, peripheralVars, radioVars, vars, stage>>

\* What is not followed waits in an initial state in which no fair action is enabled.
EncounterInit ==
  /\ stage \in {"radio", "dial", "answer", "pairing"}
  /\ CentralInit /\ PeripheralInit /\ RadioInit /\ Init
  /\ stage # "radio" => ~power
  /\ stage # "answer" => ~psm
  /\ stage # "pairing" => recognised = {}

RadioStep ==
  /\ stage = "radio" /\ RadioNext
  /\ UNCHANGED <<centralVars, peripheralVars, vars, stage>>

CentralStep ==
  /\ stage = "dial" /\ CentralNext
  /\ UNCHANGED <<peripheralVars, radioVars, vars, stage>>

PeripheralStep ==
  /\ stage = "answer" /\ PeripheralNext
  /\ UNCHANGED <<centralVars, radioVars, vars, stage>>

PairingStep ==
  /\ stage = "pairing" /\ Next
  /\ UNCHANGED <<centralVars, peripheralVars, radioVars, stage>>

EncounterNext == RadioStep \/ CentralStep \/ PeripheralStep \/ PairingStep

EncounterSpec ==
  /\ EncounterInit /\ [][EncounterNext]_stageVars
  /\ CentralFairness /\ PeripheralFairness /\ RadioFairness /\ Fairness

-----------------------------------------------------------------------------
(***************************************************************************)
(* "Loss is signalled, never silent": send() reports a datagram as sent,   *)
(* dialling or answering, only when the radio took that very datagram,     *)
(* never on the strength of another one's late callback, drops only best   *)
(* effort in silence, and answers nobody twice.                            *)
(***************************************************************************)
SendsAreHonest == DialledSentIsTaken /\ ServedSentIsTaken

(***************************************************************************)
(* Nothing is dropped on the way in or out: a datagram that waits to be    *)
(* sent on a dialled link is somewhere that will settle it, and what the   *)
(* central wrote before our link opened is delivered or still held.        *)
(***************************************************************************)
NothingHeldIsLost == DialledSendsAreHeld /\ HeldNotDropped

(***************************************************************************)
(* Every connect() is answered, every send() settled, every client         *)
(* interface released and every guest opened or dropped, whatever the      *)
(* stack is silent about; and with the radio on "the discovery and         *)
(* advertising we were asked for" come back, whatever the order of         *)
(* Bluetooth going off and on, the service's registration, fallbacks and   *)
(* restarts.                                                               *)
(***************************************************************************)
RadiosSettle == []<>(DialSettled /\ GuestSettled /\ AskedIsRestored)

=============================================================================
