------------------------------ MODULE QACycle -------------------------------
(***************************************************************************)
(* What the workflow core promises to a caller whose agents follow the     *)
(* convention: explore, learn, validate, in this order; a failed verdict   *)
(* starts another cycle while the limit allows one; the workflow completes *)
(* on the first passed verdict, terminates when a cycle beyond the limit   *)
(* would be needed, and fails when an agent reports an error.              *)
(***************************************************************************)
EXTENDS Naturals

CONSTANT MaxIterations  \* the Explorer cycles a workflow may begin

VARIABLES phase, cycles

Init == phase = "explore" /\ cycles = 0

Move(from, to) == phase = from /\ phase' \in to

BeginCycle ==
  /\ Move("explore", {"exploring"})
  /\ cycles < MaxIterations
  /\ cycles' = cycles + 1

Explored  == Move("exploring", {"learn", "broken"}) /\ UNCHANGED cycles
Learned   == Move("learn", {"validate", "broken"}) /\ UNCHANGED cycles
Validated == Move("validate", {"accepted", "explore", "broken"}) /\ UNCHANGED cycles
Complete  == Move("accepted", {"completed"}) /\ UNCHANGED cycles
Fail      == Move("broken", {"failed"}) /\ UNCHANGED cycles

Limit ==
  /\ Move("explore", {"terminated"})
  /\ cycles = MaxIterations
  /\ UNCHANGED cycles

Next ==
  \/ BeginCycle \/ Explored \/ Learned \/ Validated
  \/ Complete \/ Fail \/ Limit

Spec == Init /\ [][Next]_<<phase, cycles>> /\ WF_<<phase, cycles>>(Next)
=============================================================================
