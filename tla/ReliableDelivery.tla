-------------------------- MODULE ReliableDelivery --------------------------
(***************************************************************************)
(* What one direction of a reliable channel promises the two applications  *)
(* at its ends, with nothing said about packets, timers or windows.        *)
(*                                                                         *)
(* The n-th item handed to send() has sequence number n.  The far end takes*)
(* items in (in any order), hands its application the longest run it holds *)
(* from the start, and the near end is told of each item at most one of    *)
(* `delivered` (here: confirmed) and `deliveryFailed` (here: abandoned).   *)
(* ReliableChannel.tla is shown to implement this specification.           *)
(***************************************************************************)
EXTENDS Naturals, Sequences

CONSTANT Items

VARIABLES
  submitted,   \* items in the order send() was called
  received,    \* sequence numbers the far end has taken in
  delivered,   \* items the far application was handed, in order
  confirmed,   \* sequence numbers reported through onAcknowledged
  abandoned    \* sequence numbers reported through onDeliveryFailed

vars == <<submitted, received, delivered, confirmed, abandoned>>

Init ==
  /\ submitted = <<>>
  /\ received  = {}
  /\ delivered = <<>>
  /\ confirmed = {}
  /\ abandoned = {}

\* The near application hands over one more item.
Submit ==
  /\ \E item \in Items : submitted' = Append(submitted, item)
  /\ UNCHANGED <<received, delivered, confirmed, abandoned>>

\* The far end takes in an item it did not hold; whatever run of items is now
\* complete from the start reaches its application, in submission order.
TakeIn ==
  /\ \E s \in 1..Len(submitted) :
       /\ s \notin received
       /\ received' = received \union {s}
  /\ \E n \in Len(delivered)..Len(submitted) :
       /\ 1..n \subseteq received'
       /\ n + 1 \notin received'
       /\ delivered' = SubSeq(submitted, 1, n)
  /\ UNCHANGED <<submitted, confirmed, abandoned>>

\* The near application is told of items that the far end really holds.
Confirm ==
  /\ \E S \in SUBSET received :
       /\ S \intersect (confirmed \union abandoned) = {}
       /\ confirmed' = confirmed \union S
  /\ UNCHANGED <<submitted, received, delivered, abandoned>>

\* The near end gives up on items it was never told about.
Abandon ==
  /\ \E S \in SUBSET (1..Len(submitted)) :
       /\ S \intersect (confirmed \union abandoned) = {}
       /\ abandoned' = abandoned \union S
  /\ UNCHANGED <<submitted, received, delivered, confirmed>>

Next == Submit \/ TakeIn \/ Confirm \/ Abandon

Spec == Init /\ [][Next]_vars

=============================================================================
