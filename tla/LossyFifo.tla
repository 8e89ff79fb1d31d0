------------------------------ MODULE LossyFifo ------------------------------
(***************************************************************************)
(* What the UDP relay promises: between two peers, a channel that may lose *)
(* datagrams but neither repeats, reorders nor invents any.                *)
(***************************************************************************)
EXTENDS Integers

CONSTANT Flows    \* pairs of a sender and a receiver

VARIABLES received,    \* number of datagrams taken from the sender
          channel,     \* the numbers of those on their way
          delivered    \* the numbers of those sent on to the receiver

flowVars == <<received, channel, delivered>>

FlowInit ==
  /\ received  = [f \in Flows |-> 0]
  /\ channel   = [f \in Flows |-> {}]
  /\ delivered = [f \in Flows |-> {}]

Receive(f) ==
  /\ received' = [received EXCEPT ![f] = @ + 1]
  /\ channel' = [channel EXCEPT ![f] = @ \cup {received[f] + 1}]
  /\ UNCHANGED delivered

\* Any datagrams of any flows are lost.
Lose ==
  /\ channel' \in [Flows -> SUBSET UNION {channel[f] : f \in Flows}]
  /\ \A f \in Flows : channel'[f] \subseteq channel[f]
  /\ UNCHANGED <<received, delivered>>

\* The oldest one on its way goes out.
Deliver(f) ==
  \E n \in channel[f] :
    /\ \A k \in channel[f] : n <= k
    /\ \A k \in delivered[f] : k < n
    /\ channel' = [channel EXCEPT ![f] = @ \ {n}]
    /\ delivered' = [delivered EXCEPT ![f] = @ \cup {n}]
    /\ UNCHANGED received

FlowNext == Lose \/ \E f \in Flows : Receive(f) \/ Deliver(f)

FlowSpec == FlowInit /\ [][FlowNext]_flowVars
=============================================================================
