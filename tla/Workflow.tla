------------------------------ MODULE Workflow ------------------------------
(***************************************************************************)
(* The PMQA workflow core: the supervisor policy (pmqa/supervisor), the    *)
(* patch reducer (pmqa/workflow), the single-agent runtime (pmqa/runtime)  *)
(* and the LangGraph loop that alternates them (pmqa/orchestration).       *)
(*                                                                         *)
(* One behaviour is one call of run_pmqa_workflow on a fresh workflow,     *)
(* optionally followed by further calls on the state it returned.  The     *)
(* agents are injected by the caller: Patches says which patches each may  *)
(* return, AgentsMayRaise whether an agent may raise instead.  Artifacts   *)
(* are counted, except for the validation verdicts, whose order the policy *)
(* reads; warnings, traces and timestamps matter only through the one      *)
(* reducer check that a patch must not turn updated_at back.               *)
(***************************************************************************)
EXTENDS Integers, Sequences, FiniteSets

CONSTANTS
  MaxIterations,   \* WorkflowState.max_iterations
  Supersteps,      \* node executions the recursion limit admits
  MaxReruns,       \* bound: further calls on a returned state
  Patches,         \* [Executable -> set of patches the agent may return]
  AgentsMayRaise   \* may agent.invoke raise?

Explorer   == "explorer"
Knowledge  == "knowledge"
Validator  == "validator"
Executable == {Explorer, Knowledge, Validator}
None       == "none"

Terminal == {"completed", "failed", "terminated"}
Verdict  == {"passed", "failed", "unsupported"}

\* One entry of WorkflowState.step_history.
Invocation == [agent  : Executable \cup {"supervisor"},
               status : {"pending", "running", "completed", "failed"}]

Entry(agent, status) == [agent |-> agent, status |-> status]

\* What an agent may ask for: artifacts, history entries, a fatal error, a
\* routing or lifecycle field it does not own, an updated_at in the past.
Patch == [evidence : Nat, knowledge_candidates : Nat,
          validation_results : Seq(Verdict), step_history : Seq(Invocation),
          errors : Nat, routing : BOOLEAN, rewinds : BOOLEAN]

ASSUME WorkflowAssumption ==
  /\ MaxIterations \in Nat \ {0}
  /\ Supersteps \in Nat
  /\ MaxReruns \in Nat
  /\ Patches \in [Executable -> SUBSET Patch]
  /\ AgentsMayRaise \in BOOLEAN

VARIABLES
  status, termination_reason, current_agent, next_agent, iteration,
  evidence, knowledge_candidates, validation_results, step_history, errors,
  node,            \* what runs next: a graph node, an agent, or "end"
  selected_agent,  \* transient routing metadata of the graph state
  steps,           \* node executions of this call
  outcome,         \* how this call of run_pmqa_workflow ended
  issued,          \* history: invocation ids <<iteration, role>>, in order
  iteration_of,    \* history: the iteration each step_history entry is from
  reruns

domain == <<status, termination_reason, current_agent, next_agent, iteration,
            evidence, knowledge_candidates, validation_results, step_history,
            errors>>
artifacts == <<evidence, knowledge_candidates, validation_results,
               step_history, errors>>
vars == <<domain, node, selected_agent, steps, outcome, issued, iteration_of,
          reruns>>

-----------------------------------------------------------------------------
(* The supervisor policy: what it reads in a non-terminal state.  The        *)
(* operators take the history h and the results v they judge.                *)

\* Seeded fault: the recovery cycle in the wrong order.
CycleSwapped == <<Explorer, Validator, Knowledge>>

Cycle == <<Explorer, Knowledge, Validator>>

CompletedValidators(h) == {i \in DOMAIN h : h[i] = Entry(Validator, "completed")}

\* The indices after i up to j whose entries take part in recovery.
RecoverySteps(h, i, j) == {k \in i + 1 .. j : h[k].agent \in Executable}

\* The entries at the indices K follow the recovery cycle as far as they go.
FollowsCycle(h, K) ==
  /\ Cardinality(K) <= 3
  /\ \A k \in K :
       h[k] = Entry(Cycle[Cardinality({l \in K : l <= k})], "completed")

\* i and j are successive completed Validator entries.
Consecutive(h, i, j) ==
  /\ i < j
  /\ ~ \E k \in CompletedValidators(h) : i < k /\ k < j

WholeCyclesBetween(h) ==
  \A i, j \in CompletedValidators(h) :
    Consecutive(h, i, j) =>
      LET steps_between == RecoverySteps(h, i, j)
      IN Cardinality(steps_between) = 3 /\ FollowsCycle(h, steps_between)

\* Seeded fault: the recovery cycles between results go unchecked.
HistoryAcceptedAnyOrder(h, v) ==
  /\ Cardinality(CompletedValidators(h)) = Len(v)
  /\ \A r \in DOMAIN v : v[r] \in {"passed", "failed"}
  /\ \A r \in 1 .. Len(v) - 1 : v[r] # "passed"

HistoryAccepted(h, v) ==
  /\ Cardinality(CompletedValidators(h)) = Len(v)
  /\ \A r \in DOMAIN v : v[r] \in {"passed", "failed"}
  /\ \A r \in 1 .. Len(v) - 1 : v[r] # "passed"
  /\ WholeCyclesBetween(h)

\* The recovery steps completed since the latest Validator entry.
RecoveryPrefix(h) ==
  LET last == CHOOSE i \in CompletedValidators(h) :
                \A j \in CompletedValidators(h) : j <= i
  IN RecoverySteps(h, last, Len(h))

\* Seeded fault: the prefix bound is off by one.
RecoveryAcceptedShort(h) ==
  LET done == RecoveryPrefix(h)
  IN Cardinality(done) \in 0 .. 1 /\ FollowsCycle(h, done)

RecoveryAccepted(h) ==
  LET done == RecoveryPrefix(h)
  IN Cardinality(done) \in 0 .. 2 /\ FollowsCycle(h, done)

LatestResult(v) == v[Len(v)]

ValidationPassed(v) == v # <<>> /\ LatestResult(v) = "passed"

\* A state the policy refuses with SupervisorPolicyError.
PolicyRejects ==
  \/ knowledge_candidates > 0 /\ evidence = 0
  \/ validation_results # <<>> /\ knowledge_candidates = 0
  \/ /\ validation_results # <<>>
     /\ HistoryAccepted(step_history, validation_results) =>
          /\ LatestResult(validation_results) = "failed"
          /\ ~ RecoveryAccepted(step_history)

\* The agent the policy asks for; meaningful unless it rejects or completes.
WantedAgent ==
  IF evidence = 0 THEN Explorer
  ELSE IF knowledge_candidates = 0 THEN Knowledge
  ELSE IF validation_results = <<>> THEN Validator
  ELSE Cycle[Cardinality(RecoveryPrefix(step_history)) + 1]

-----------------------------------------------------------------------------
(* The graph: supervisor -> execute_selected_agent -> supervisor ... END *)

Init ==
  /\ status = "pending" /\ termination_reason = None
  /\ current_agent = None /\ next_agent = None
  /\ iteration = 0
  /\ evidence = 0 /\ knowledge_candidates = 0
  /\ validation_results = <<>> /\ step_history = <<>> /\ errors = 0
  /\ node = "supervisor" /\ selected_agent = None
  /\ steps = 0 /\ outcome = None
  /\ issued = <<>> /\ iteration_of = <<>> /\ reruns = 0

\* A superstep may start only below the recursion limit.
StartSuperstep(n) ==
  /\ node = n
  /\ steps < Supersteps
  /\ steps' = steps + 1

Return ==
  /\ node' = "end" /\ outcome' = "returned" /\ selected_agent' = None

\* An exception leaves run_pmqa_workflow: the caller gets no state.
Raise(error) ==
  /\ node' = "end" /\ outcome' = error
  /\ UNCHANGED <<domain, selected_agent, issued, iteration_of, reruns>>

\* The patch of a terminal decision, and the graph's edge to END.
Finish(final, reason) ==
  /\ status' = final /\ termination_reason' = reason
  /\ current_agent' = None /\ next_agent' = None
  /\ Return
  /\ UNCHANGED <<iteration, artifacts, issued, iteration_of, reruns>>

\* Seeded fault: running a finished workflow again reopens it.
SuperviseTerminalReopens ==
  /\ StartSuperstep("supervisor")
  /\ status \in Terminal
  /\ status' = "running" /\ termination_reason' = None
  /\ UNCHANGED <<current_agent, next_agent, iteration, artifacts, node,
                 selected_agent, outcome, issued, iteration_of, reruns>>

SuperviseTerminal ==
  /\ StartSuperstep("supervisor")
  /\ status \in Terminal
  /\ Return
  /\ UNCHANGED <<domain, issued, iteration_of, reruns>>

Supervise ==
  /\ StartSuperstep("supervisor")
  /\ status \notin Terminal

SuperviseFail ==
  /\ Supervise
  /\ errors > 0
  /\ Finish("failed", "error")

SuperviseReject ==
  /\ Supervise
  /\ errors = 0
  /\ PolicyRejects
  /\ Raise("policy_error")

SuperviseComplete ==
  /\ Supervise
  /\ errors = 0 /\ ~ PolicyRejects
  /\ ValidationPassed(validation_results)
  /\ Finish("completed", "goal_completed")

\* Seeded faults: the limit gates every agent; it is never applied.
AtIterationLimitEveryAgent == iteration >= MaxIterations
AtIterationLimitNever == FALSE

\* max_iterations gates a new Explorer invocation, and nothing else.
AtIterationLimit == WantedAgent = Explorer /\ iteration >= MaxIterations

SuperviseLimit ==
  /\ Supervise
  /\ errors = 0 /\ ~ PolicyRejects /\ ~ ValidationPassed(validation_results)
  /\ AtIterationLimit
  /\ Finish("terminated", "max_iterations")

SuperviseRoute ==
  /\ Supervise
  /\ errors = 0 /\ ~ PolicyRejects /\ ~ ValidationPassed(validation_results)
  /\ ~ AtIterationLimit
  /\ status' = "running" /\ termination_reason' = None
  /\ current_agent' = None /\ next_agent' = WantedAgent
  /\ selected_agent' = WantedAgent
  /\ node' = "execute"
  /\ UNCHANGED <<iteration, artifacts, outcome, issued, iteration_of, reruns>>

\* Seeded fault: the cycle is never counted.
IterationAfterStuck(role) == iteration

\* Only an Explorer invocation advances the iteration.
IterationAfter(role) == IF role = Explorer THEN iteration + 1 ELSE iteration

StartAgent ==
  /\ StartSuperstep("execute")
  /\ iteration' = IterationAfter(selected_agent)
  /\ current_agent' = selected_agent /\ next_agent' = None
  /\ node' = "agent"
  /\ issued' = Append(issued, <<iteration', selected_agent>>)
  /\ UNCHANGED <<status, termination_reason, artifacts, selected_agent,
                 outcome, iteration_of, reruns>>

AllowedFields(role) ==
  {"step_history", "errors", "updated_at"} \cup
    (CASE role = Explorer  -> {"evidence"}
       [] role = Knowledge -> {"knowledge_candidates"}
       [] role = Validator -> {"validation_results"})

RequestedFields(p) ==
  {f \in {"evidence", "knowledge_candidates", "errors"} : p[f] > 0}
    \cup {f \in {"validation_results", "step_history"} : p[f] # <<>>}
    \cup (IF p.routing THEN {"status"} ELSE {})

\* Capability policy of the runtime and timestamp check of the reducer.
PatchAccepted(p) ==
  /\ RequestedFields(p) \subseteq AllowedFields(selected_agent)
  /\ ~ p.rewinds

FinishAgent(p) ==
  /\ PatchAccepted(p)
  /\ evidence' = evidence + p.evidence
  /\ knowledge_candidates' = knowledge_candidates + p.knowledge_candidates
  /\ validation_results' = validation_results \o p.validation_results
  /\ step_history' = step_history \o p.step_history
  /\ iteration_of' = iteration_of \o [i \in DOMAIN p.step_history |-> iteration]
  /\ errors' = errors + p.errors
  /\ current_agent' = None
  /\ node' = "supervisor" /\ selected_agent' = None
  /\ UNCHANGED <<status, termination_reason, next_agent, iteration, steps,
                 outcome, issued, reruns>>

RejectPatch(p) ==
  /\ ~ PatchAccepted(p)
  /\ Raise("contract_error")
  /\ UNCHANGED steps

AgentReturns ==
  /\ node = "agent"
  /\ \E p \in Patches[selected_agent] : FinishAgent(p) \/ RejectPatch(p)

AgentRaises ==
  /\ node = "agent"
  /\ AgentsMayRaise
  /\ Raise("agent_error")
  /\ UNCHANGED steps

\* LangGraph raises GraphRecursionError instead of starting another node.
RecursionLimit ==
  /\ node \in {"supervisor", "execute"}
  /\ steps >= Supersteps
  /\ Raise("recursion_error")
  /\ UNCHANGED steps

\* The caller passes the returned state to run_pmqa_workflow once more.
Rerun ==
  /\ node = "end" /\ outcome = "returned"
  /\ reruns < MaxReruns
  /\ node' = "supervisor" /\ steps' = 0 /\ outcome' = None
  /\ reruns' = reruns + 1
  /\ UNCHANGED <<domain, selected_agent, issued, iteration_of>>

RunStep ==
  \/ SuperviseTerminal
  \/ SuperviseFail
  \/ SuperviseReject
  \/ SuperviseComplete
  \/ SuperviseLimit
  \/ SuperviseRoute
  \/ StartAgent
  \/ AgentReturns
  \/ AgentRaises
  \/ RecursionLimit

Next == RunStep \/ Rerun

Spec == Init /\ [][Next]_vars

\* The call is synchronous: a step that can be taken is taken.
FairSpec == Spec /\ WF_vars(RunStep)

-----------------------------------------------------------------------------
(* Agents that follow the convention of the product agents: success appends *)
(* one artifact and one completed entry, failure one failed entry and one   *)
(* error code.                                                              *)

EmptyPatch == [evidence |-> 0, knowledge_candidates |-> 0,
               validation_results |-> <<>>, step_history |-> <<>>,
               errors |-> 0, routing |-> FALSE, rewinds |-> FALSE]

FailurePatch(role) ==
  [EmptyPatch EXCEPT !.step_history = <<Entry(role, "failed")>>, !.errors = 1]

SuccessPatches(role) ==
  LET done == [EmptyPatch EXCEPT !.step_history = <<Entry(role, "completed")>>]
  IN IF role = Explorer THEN {[done EXCEPT !.evidence = 1]}
     ELSE IF role = Knowledge THEN {[done EXCEPT !.knowledge_candidates = 1]}
     ELSE {[done EXCEPT !.validation_results = <<v>>] : v \in {"passed", "failed"}}

HonestPatches ==
  [role \in Executable |-> SuccessPatches(role) \cup {FailurePatch(role)}]

\* Where a convention-following workflow stands in the cycle of QACycle.
CyclePhase ==
  LET n == Len(step_history)
  IN CASE status \in Terminal -> status
       [] status \notin Terminal /\ errors > 0 -> "broken"
       [] status \notin Terminal /\ errors = 0
            /\ ValidationPassed(validation_results) -> "accepted"
       [] OTHER -> IF n % 3 = 1 THEN "learn"
                   ELSE IF n % 3 = 2 THEN "validate"
                   ELSE IF iteration * 3 = n THEN "explore" ELSE "exploring"

Abstract == INSTANCE QACycle WITH phase <- CyclePhase, cycles <- iteration

-----------------------------------------------------------------------------
(* Properties *)

TypeOK ==
  /\ status \in {"pending", "running"} \cup Terminal
  /\ termination_reason \in {None, "goal_completed", "max_iterations", "error"}
  /\ current_agent \in Executable \cup {None}
  /\ next_agent \in Executable \cup {None}
  /\ iteration \in 0 .. MaxIterations
  /\ evidence \in Nat /\ knowledge_candidates \in Nat /\ errors \in Nat
  /\ validation_results \in Seq(Verdict)
  /\ step_history \in Seq(Invocation)
  /\ node \in {"supervisor", "execute", "agent", "end"}
  /\ selected_agent \in Executable \cup {None}
  /\ steps \in Nat /\ reruns \in Nat
  /\ outcome \in {None, "returned", "policy_error", "contract_error",
                   "agent_error", "recursion_error"}
  /\ issued \in Seq(Nat \X Executable)
  /\ iteration_of \in Seq(Nat)

\* An agent writes history about itself only.  The product agents do; no check
\* of the code asks it of the others.
OwnEntries ==
  \A role \in Executable : \A p \in Patches[role] :
    \A i \in DOMAIN p.step_history : p.step_history[i].agent = role

Issued(i, role) == \E k \in DOMAIN issued : issued[k] = <<i, role>>

\* The iterations in which all three agents were really invoked.
WholeIterations ==
  {i \in 1 .. iteration : \A role \in Executable : Issued(i, role)}

\* Agents that write about themselves only cannot talk the supervisor into
\* completing early: whatever results and entries they return or leave out, a
\* completed workflow has had, for every verdict it holds, an iteration of its
\* own with an Explorer, a Knowledge and a Validator invocation (policy.py,
\* _validate_validation_history, sees the entries and never the invocations).
CompletionEarned ==
  status = "completed" =>
    Len(validation_results) <= Cardinality(WholeIterations)

\* Two Explorer invocations of a workflow never share an invocation id, even
\* when an Explorer adds nothing and is asked again (langgraph.py: the id is
\* built from workflow, iteration and role; evidence ids are derived from it).
ExplorerIdsUnique ==
  \A i, j \in DOMAIN issued :
    i # j /\ issued[i][2] = Explorer => issued[i] # issued[j]

\* Agents that follow the convention never drive the policy into refusing a
\* state it produced itself (policy.py raises SupervisorPolicyError).
ConventionAccepted == outcome # "policy_error"

\* The iteration limit never cuts a cycle short: when it stops a workflow,
\* every cycle it allowed has its verdict, and none passed.
LimitEndsWholeCycles ==
  status = "terminated" =>
    /\ iteration = MaxIterations
    /\ Len(validation_results) = MaxIterations
    /\ \A r \in DOMAIN validation_results : validation_results[r] = "failed"

\* Running a returned workflow again changes nothing in it, and no state after
\* a terminal decision is written.
TerminalAbsorbing == [][(status \in Terminal) => UNCHANGED domain]_vars

\* With convention-following agents and a recursion limit that admits every
\* allowed cycle, run_pmqa_workflow returns a terminal state.
RunReturns == <>(outcome = "returned" /\ status \in Terminal)

\* The final allowed cycle may finish: the recursion limit never preempts the
\* iteration limit (docs/architecture.md:90, README.md:63).
FinalCycleMayFinish == outcome # "recursion_error"

-----------------------------------------------------------------------------
(* The inductive strengthening of ExplorerIdsUnique.                         *)

\* A terminal status has a reason and no routing, and no agent runs under it.
LifecycleInv ==
  /\ status \in Terminal <=> termination_reason # None
  /\ status \in Terminal =>
       /\ current_agent = None /\ next_agent = None
       /\ node \in {"supervisor", "end"}

\* The graph runs an agent only when the supervisor has selected one, and an
\* Explorer only below the limit.
RoutingInv ==
  /\ node \in {"execute", "agent"} => selected_agent \in Executable
  /\ node = "execute" /\ selected_agent = Explorer => iteration < MaxIterations

\* Every Explorer id issued so far belongs to an iteration already counted.
IssuedInv ==
  \A i \in DOMAIN issued : issued[i][2] = Explorer => issued[i][1] <= iteration

IInv ==
  /\ TypeOK
  /\ LifecycleInv
  /\ RoutingInv
  /\ IssuedInv
  /\ ExplorerIdsUnique

-----------------------------------------------------------------------------
(* The inductive strengthening of CompletionEarned, for agents that write    *)
(* about themselves only.                                                    *)

\* Every iteration begins with its Explorer, and whoever was invoked after it
\* found the agents before it invoked in the same iteration.
InvocationInv ==
  /\ \A i \in 1 .. iteration : Issued(i, Explorer)
  /\ \A k \in DOMAIN issued :
       /\ issued[k][1] \in 1 .. iteration
       /\ issued[k][2] = Validator => Issued(issued[k][1], Knowledge)
  /\ node = "agent" => Issued(iteration, selected_agent)
  /\ node = "execute" /\ selected_agent = Validator => Issued(iteration, Knowledge)
  /\ node = "execute" /\ selected_agent = Explorer =>
       knowledge_candidates = 0 \/ validation_results # <<>>
  /\ node \in {"execute", "agent"} /\ selected_agent # Explorer => evidence > 0
  /\ node \in {"execute", "agent"} /\ selected_agent = Validator =>
       knowledge_candidates > 0
  /\ evidence > 0 => iteration > 0
  /\ knowledge_candidates > 0 => evidence > 0
  /\ knowledge_candidates > 0 /\ validation_results = <<>> =>
       Issued(iteration, Knowledge)

\* Every entry was written by the agent it names in the iteration noted for it;
\* one of an Explorer lies in a later iteration than all before it that are not.
EntryInv ==
  /\ Len(iteration_of) = Len(step_history)
  /\ \A i \in DOMAIN step_history :
       /\ step_history[i].agent \in Executable
       /\ Issued(iteration_of[i], step_history[i].agent)
  /\ \A i, j \in DOMAIN step_history : i < j =>
       /\ iteration_of[i] <= iteration_of[j]
       /\ step_history[j].agent = Explorer /\ step_history[i].agent # Explorer =>
            iteration_of[i] < iteration_of[j]
  /\ node = "agent" /\ selected_agent = Explorer =>
       \A i \in DOMAIN step_history : iteration_of[i] < iteration

\* No iteration begins in the middle of a recovery.
RecoveryInv ==
  LET CV == CompletedValidators(step_history)
  IN CV # {} =>
       /\ knowledge_candidates > 0
       /\ \A k \in DOMAIN step_history :
            (\A i \in CV : i < k) =>
              /\ iteration_of[k] = iteration
              /\ node \in {"execute", "agent"} => selected_agent # Explorer

EarnedInv ==
  /\ InvocationInv
  /\ EntryInv
  /\ RecoveryInv
  /\ CompletionEarned

-----------------------------------------------------------------------------
(* The inductive strengthening of ConventionAccepted and                     *)
(* LimitEndsWholeCycles, for agents that follow the convention.              *)

\* The i-th agent of an undisturbed workflow.
Turn(i) == Cycle[((i - 1) % 3) + 1]

\* The artifacts are those of whole cycles and of the steps begun since.
CycleInv ==
  LET n == Len(step_history)
      whole == Len(validation_results)
  IN /\ \A i \in 1 .. n : step_history[i] = Entry(Turn(i), "completed")
     /\ Cardinality(CompletedValidators(step_history)) = whole
     /\ n \in 3 * whole .. 3 * whole + 2
     /\ evidence = IF n > 3 * whole THEN whole + 1 ELSE whole
     /\ knowledge_candidates = IF n > 3 * whole + 1 THEN whole + 1 ELSE whole
     /\ \A r \in 1 .. whole : validation_results[r] \in {"passed", "failed"}
     /\ \A r \in 1 .. whole - 1 : validation_results[r] = "failed"
     /\ ValidationPassed(validation_results) =>
          n = 3 * whole /\ node \in {"supervisor", "end"}
     /\ node \in {"execute", "agent"} => selected_agent = Turn(n + 1)
     /\ outcome \in {None, "returned"} =>
          iteration = IF n > 3 * whole \/ node = "agent" THEN whole + 1 ELSE whole

\* An agent runs only while no error was reported.
ConventionInv ==
  /\ ConventionAccepted
  /\ LimitEndsWholeCycles
  /\ node # "end" => outcome = None
  /\ node \in {"execute", "agent"} => errors = 0
  /\ errors = 0 => CycleInv

-----------------------------------------------------------------------------
(* The inductive strengthening of FinalCycleMayFinish and of RunEndsDecided, *)
(* for agents that follow the convention and enough supersteps.              *)

\* A call that ends returns a terminal state: no exception leaves it
\* (langgraph.py, run_pmqa_workflow).
RunEndsDecided == node = "end" => outcome = "returned" /\ status \in Terminal

\* The supersteps that the cycles of the iteration limit can need: a visit of
\* the supervisor and one of the agent node for every step, and the decision.
EnoughSupersteps == Supersteps >= 6 * MaxIterations + 1

\* A call has used two supersteps for every history entry, and the cycles the
\* limit allows are not used up while an agent is still to run.
SuperstepInv ==
  LET n == Len(step_history)
  IN /\ n <= 3 * MaxIterations
     /\ node \in {"execute", "agent"} => n < 3 * MaxIterations
     /\ node = "supervisor" => steps = IF status \in Terminal THEN 0 ELSE 2 * n
     /\ node = "execute" => steps = 2 * n + 1
     /\ node = "agent" => steps = 2 * n + 2
     /\ outcome = "returned" => status \in Terminal
     /\ FinalCycleMayFinish

\* What is left of a call, whatever the agents do: the supersteps it may still
\* start and the agent that is running.
WorkLeft ==
  IF node = "end" THEN 0
  ELSE 2 * (Supersteps - steps) + (IF node = "agent" THEN 2 ELSE 1)

\* Every step of a call leaves less of it: no agent and no limit makes a call
\* go on for ever.
CallsRunDown == [][RunStep => WorkLeft' < WorkLeft]_vars
=============================================================================
