----------------------------- MODULE MCWorkflow -----------------------------
(***************************************************************************)
(* Instances of Workflow for TLC: agents that follow the convention, and   *)
(* agents that return whatever the contracts let through.                  *)
(***************************************************************************)
EXTENDS Workflow

Done(role) == Entry(role, "completed")

\* Patches of an agent that ignores the convention but writes about itself
\* only: no entry, two of them, an unfinished one, no artifact, several results
\* at once, a field it does not own, a timestamp in the past.
Histories(role) == {<<>>, <<Done(role)>>, <<Done(role), Done(role)>>}

Careless(role) ==
  {[EmptyPatch EXCEPT !.step_history = h] :
     h \in Histories(role) \cup {<<Entry(role, "running")>>}}
  \cup {[EmptyPatch EXCEPT !.routing = TRUE], [EmptyPatch EXCEPT !.rewinds = TRUE]}

CarelessArtifacts(role) ==
  CASE role = Explorer ->
         {[EmptyPatch EXCEPT !.evidence = n, !.step_history = h] :
            n \in 1 .. 2, h \in Histories(role)}
    [] role = Knowledge ->
         {[EmptyPatch EXCEPT !.knowledge_candidates = 1, !.step_history = h] :
            h \in Histories(role)}
    [] role = Validator ->
         {[EmptyPatch EXCEPT !.validation_results = v, !.step_history = h] :
            v \in {<<"failed">>, <<"passed">>, <<"unsupported">>,
                   <<"failed", "passed">>},
            h \in Histories(role)}

CarelessPatches ==
  [role \in Executable |->
     HonestPatches[role] \cup Careless(role) \cup CarelessArtifacts(role)]

\* The loop of supervisor, reducer, runtime and graph implements the cycle of
\* QACycle, fairness included.
CycleSpec == Abstract!Spec
=============================================================================
