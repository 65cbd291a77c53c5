---------------------------- MODULE LossyFrames ----------------------------
(***************************************************************************)
(* What one direction of the KISS bridge promises: frames go in one after  *)
(* the other, some of them come out.  A frame that comes out is one that   *)
(* went in, complete and unchanged, at most once and never overtaken by an *)
(* older one.  Which frames are lost is left open.                         *)
(***************************************************************************)
EXTENDS Integers, Sequences

CONSTANT Frame

VARIABLES
  sent,       \* the frames put in, oldest first
  delivered   \* those that came out: records of the frame and its place in sent

vars == <<sent, delivered>>

Init == sent = <<>> /\ delivered = <<>>

Newest == IF delivered = <<>> THEN 0 ELSE delivered[Len(delivered)].seq

Send(frame) ==
  /\ sent' = Append(sent, frame)
  /\ UNCHANGED delivered

Deliver(n) ==
  /\ Newest < n
  /\ delivered' = Append(delivered, [seq |-> n, frame |-> sent[n]])
  /\ UNCHANGED sent

Next ==
  \/ \E frame \in Frame : Send(frame)
  \/ \E n \in DOMAIN sent : Deliver(n)

Spec == Init /\ [][Next]_vars
==========================================================================
