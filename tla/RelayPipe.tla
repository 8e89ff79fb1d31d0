------------------------------ MODULE RelayPipe ------------------------------
(***************************************************************************)
(* What one relayed TCP connection promises its two peers: two bounded     *)
(* FIFO pipes.  A chunk read from socket 1-p is written to socket p once,  *)
(* in the order of reading, and nothing else is written.  Chunks may be    *)
(* taken from a peer after the connection was closed (a read that had      *)
(* completed already), but nothing is delivered any more.                  *)
(***************************************************************************)
EXTENDS Integers, Sequences

CONSTANTS Capacity,    \* chunks a pipe holds at most
          MaxChunks    \* chunks a peer sends at most

VARIABLES accepted,    \* accepted[p]: chunks read from socket p
          buffer,      \* buffer[p]: numbers of the chunks on their way to socket p
          delivered,   \* delivered[p]: numbers of the chunks written to socket p
          open

pipeVars == <<accepted, buffer, delivered, open>>

Sides == {0, 1}

PipeInit ==
  /\ accepted  = [p \in Sides |-> 0]
  /\ buffer    = [p \in Sides |-> <<>>]
  /\ delivered = [p \in Sides |-> <<>>]
  /\ open = TRUE

Accept(p) ==
  /\ accepted[p] < MaxChunks
  /\ Len(buffer[1-p]) < Capacity
  /\ accepted' = [accepted EXCEPT ![p] = @ + 1]
  /\ buffer' = [buffer EXCEPT ![1-p] = Append(@, accepted[p] + 1)]
  /\ UNCHANGED <<delivered, open>>

Deliver(p) ==
  /\ open
  /\ buffer[p] # <<>>
  /\ delivered' = [delivered EXCEPT ![p] = Append(@, Head(buffer[p]))]
  /\ buffer' = [buffer EXCEPT ![p] = Tail(@)]
  /\ UNCHANGED <<accepted, open>>

Close ==
  /\ open
  /\ open' = FALSE
  /\ UNCHANGED <<accepted, buffer, delivered>>

PipeNext == Close \/ \E p \in Sides : Accept(p) \/ Deliver(p)

PipeSpec == PipeInit /\ [][PipeNext]_pipeVars
=============================================================================
