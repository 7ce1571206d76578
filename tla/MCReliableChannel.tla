------------------------- MODULE MCReliableChannel -------------------------
(***************************************************************************)
(* ReliableChannel instantiated for TLC.                                   *)
(***************************************************************************)
EXTENDS ReliableChannel, TLC

Payloads == Permutations(Items)

(***************************************************************************)
(* The state constraint of channel_safety: neighbouring messages differ.   *)
(* No action looks inside a payload, so a run that mixes up two messages   *)
(* is told apart by payloads that alternate as well as by any others.      *)
(***************************************************************************)
Alternating == \A i \in 2..Len(submitted) : submitted[i - 1] # submitted[i]

=============================================================================
