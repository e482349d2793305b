-------------------------------- MODULE Pipe --------------------------------
(***************************************************************************)
(* What each direction of the console promises: a bounded first-in         *)
(* first-out pipe.  Bytes are numbered 1, 2, 3... as they are accepted, and *)
(* `last` is the number of the byte delivered last, so that a byte that is *)
(* lost, repeated or overtaken shows as last # delivered.                  *)
(***************************************************************************)
EXTENDS Naturals

CONSTANT Capacity

VARIABLES accepted, delivered, last
vars == <<accepted, delivered, last>>

Init == accepted = 0 /\ delivered = 0 /\ last = 0

Accept ==
    /\ \E n \in 1..Capacity :
          /\ accepted + n <= delivered + Capacity
          /\ accepted' = accepted + n
    /\ UNCHANGED <<delivered, last>>

Deliver ==
    /\ delivered < accepted
    /\ delivered' = delivered + 1
    /\ last' = delivered + 1
    /\ UNCHANGED accepted

Next == Accept \/ Deliver

Spec == Init /\ [][Next]_vars

=============================================================================
