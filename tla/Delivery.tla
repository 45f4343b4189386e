------------------------------- MODULE Delivery -------------------------------
(***************************************************************************)
(* What the browser extension's outbox promises its agent, without         *)
(* storage, retries or identifiers: every observation gets the next        *)
(* sequence number and is either refused on the spot (the outbox is full)  *)
(* or held; held observations are delivered one at a time, each once, the  *)
(* oldest first, and all of them in the end.                               *)
(***************************************************************************)
EXTENDS Naturals, Sequences

VARIABLES
  issued,     \* the last sequence number given out
  held,       \* sequence numbers accepted and not yet delivered
  delivered   \* sequence numbers delivered, in order

deliveryVars == <<issued, held, delivered>>

Init == issued = 0 /\ held = {} /\ delivered = <<>>

Accept ==
  /\ issued' = issued + 1
  /\ held' = held \cup {issued + 1}
  /\ UNCHANGED delivered

Refuse ==
  /\ issued' = issued + 1
  /\ UNCHANGED <<held, delivered>>

Deliver ==
  \E n \in held :
    /\ \A m \in held : n <= m
    /\ held' = held \ {n}
    /\ delivered' = Append(delivered, n)
    /\ UNCHANGED issued

Next == Accept \/ Refuse \/ Deliver

SafeSpec == Init /\ [][Next]_deliveryVars
Spec == SafeSpec /\ WF_deliveryVars(Deliver)
=============================================================================
