------------------------- MODULE AtomicPublication -------------------------
(***************************************************************************)
(* What scaffolding promises to everybody who looks at the target: a whole *)
(* scaffold appears there in one step, and only where nothing was before.  *)
(* Whatever else happens to the target is somebody else's doing.           *)
(***************************************************************************)
EXTENDS Naturals

CONSTANT Trees      \* the scaffolds that may be published

VARIABLES public,   \* what is at the target: nothing or one [identity, files]
          foreign   \* how often somebody else has touched it

Init == public = {} /\ foreign = 0

Publish ==
  /\ public = {}
  /\ \E tree \in public' : public' = {tree} /\ tree.files \in Trees
  /\ UNCHANGED foreign

Touch == foreign' = foreign + 1

Next == Publish \/ Touch

Spec == Init /\ [][Next]_<<public, foreign>>
=============================================================================
