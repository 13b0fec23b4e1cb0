--------------------------- MODULE WorkflowProofs ---------------------------
(***************************************************************************)
(* Proofs about Workflow for every iteration limit, recursion limit and    *)
(* set of patches the agents may return.                                   *)
(***************************************************************************)
EXTENDS Workflow, FiniteSetTheorems, WellFoundedInduction, TLAPS

\* The reducer adds artifact counts.
LEMMA NatSum == \A a, b \in Nat : a + b \in Nat
  OBVIOUS

\* Appending adds one index.
LEMMA NextIndex == \A n \in Nat : \A i : i \in 1 .. n + 1 <=> (i \in 1 .. n \/ i = n + 1)
  OBVIOUS

\* When the policy neither rejects nor completes, it asks for an agent the
\* graph can execute (policy.py:189-193: the recovery prefix indexes a triple).
LEMMA WantedAgentType ==
  ASSUME TypeOK, ~ PolicyRejects, ~ ValidationPassed(validation_results)
  PROVE  WantedAgent \in Executable
<1>1. CASE evidence = 0
  BY <1>1 DEF WantedAgent, Executable
<1>2. CASE evidence > 0 /\ knowledge_candidates = 0
  BY <1>2 DEF WantedAgent, Executable
<1>3. CASE evidence > 0 /\ knowledge_candidates > 0 /\ validation_results = <<>>
  BY <1>3 DEF WantedAgent, Executable
<1>4. CASE evidence > 0 /\ knowledge_candidates > 0 /\ validation_results # <<>>
  <2>1. HistoryAccepted(step_history, validation_results)
    BY <1>4 DEF PolicyRejects
  <2>2. Len(validation_results) \in DOMAIN validation_results
    BY <1>4 DEF TypeOK
  <2>3. LatestResult(validation_results) \in {"passed", "failed"}
    BY <2>1, <2>2 DEF HistoryAccepted, LatestResult
  <2>4. RecoveryAccepted(step_history)
    BY <1>4, <2>3 DEF PolicyRejects, ValidationPassed
  <2>5. Cardinality(RecoveryPrefix(step_history)) \in 0 .. 2
    BY <2>4 DEF RecoveryAccepted
  <2>6. WantedAgent = Cycle[Cardinality(RecoveryPrefix(step_history)) + 1]
    BY <1>4 DEF WantedAgent
  <2>7. \A n \in 0 .. 2 : Cycle[n + 1] \in Executable
    BY DEF Cycle, Executable
  <2> QED BY <2>5, <2>6, <2>7
<1> QED BY <1>1, <1>2, <1>3, <1>4 DEF TypeOK

\* A fresh workflow satisfies the invariant.
LEMMA InitIInv == Init => IInv
<1> SUFFICES ASSUME Init PROVE IInv
  OBVIOUS
<1>1. TypeOK
  BY WorkflowAssumption DEF Init, TypeOK, None
<1>2. LifecycleInv /\ RoutingInv /\ IssuedInv /\ ExplorerIdsUnique
  BY DEF Init, LifecycleInv, RoutingInv, IssuedInv, ExplorerIdsUnique,
         Terminal, None, Executable, Explorer
<1> QED BY <1>1, <1>2 DEF IInv

\* A step that leaves the workflow's artifacts and issued ids alone keeps the
\* parts of the invariant that speak of them.
LEMMA FrameIInv ==
  ASSUME IInv, TypeOK', LifecycleInv', RoutingInv',
         UNCHANGED <<iteration, artifacts, issued>>
  PROVE  IInv'
<1>1. IssuedInv' /\ ExplorerIdsUnique'
  BY DEF IInv, IssuedInv, ExplorerIdsUnique
<1> QED BY <1>1 DEF IInv

\* A decision that ends the workflow.
LEMMA FinishIInv ==
  ASSUME IInv, NEW final \in Terminal,
         NEW reason \in {"goal_completed", "max_iterations", "error"},
         StartSuperstep("supervisor"), Finish(final, reason)
  PROVE  IInv'
<1> USE DEF IInv, StartSuperstep, Finish, Return, artifacts
<1>1. TypeOK'
  BY DEF TypeOK
<1>2. LifecycleInv' /\ RoutingInv'
  BY DEF LifecycleInv, RoutingInv, Terminal, None
<1>3. IssuedInv' /\ ExplorerIdsUnique'
  BY DEF IssuedInv, ExplorerIdsUnique
<1> QED BY <1>1, <1>2, <1>3

\* A call that ends in an exception leaves the workflow state as it was.
LEMMA RaiseIInv ==
  ASSUME IInv, Raise("policy_error") \/ Raise("contract_error")
               \/ Raise("agent_error") \/ Raise("recursion_error"),
         steps' \in Nat
  PROVE  IInv'
<1> USE DEF Raise, domain
<1>1. TypeOK'
  BY DEF IInv, TypeOK
<1>2. LifecycleInv' /\ RoutingInv'
  BY DEF IInv, LifecycleInv, RoutingInv
<1> QED BY <1>1, <1>2, FrameIInv DEF artifacts

\* Routing selects an agent and, for an Explorer, has just seen the limit.
LEMMA RouteIInv == ASSUME IInv, SuperviseRoute PROVE IInv'
<1> USE DEF SuperviseRoute, Supervise, StartSuperstep
<1>1. WantedAgent \in Executable
  BY WantedAgentType DEF IInv
<1>2. TypeOK'
  BY <1>1 DEF IInv, TypeOK, artifacts
<1>3. LifecycleInv'
  BY DEF LifecycleInv, Terminal
<1>4. RoutingInv'
  BY <1>1, WorkflowAssumption
     DEF IInv, TypeOK, RoutingInv, AtIterationLimit, artifacts
<1> QED BY <1>2, <1>3, <1>4, FrameIInv

\* Starting an agent issues an id of the iteration it has just counted.
LEMMA StartAgentIInv == ASSUME IInv, StartAgent PROVE IInv'
<1> DEFINE n == Len(issued)
           id == <<iteration', selected_agent>>
<1> USE DEF IInv, StartAgent, StartSuperstep, artifacts
<1>1. selected_agent \in Executable /\ iteration \in Nat /\ n \in Nat
  BY DEF RoutingInv, TypeOK
<1>2. /\ iteration' \in 0 .. MaxIterations
      /\ iteration' >= iteration
      /\ selected_agent = Explorer => iteration' = iteration + 1
  BY <1>1, WorkflowAssumption DEF RoutingInv, IterationAfter, TypeOK
<1>3. id \in Nat \X Executable
  BY <1>1, <1>2
<1>4. issued \in Seq(Nat \X Executable) /\ issued' = Append(issued, id)
  BY DEF TypeOK
<1>5. /\ issued' \in Seq(Nat \X Executable)
      /\ DOMAIN issued' = 1 .. n + 1
      /\ \A i \in 1 .. n : issued'[i] = issued[i] /\ issued[i] \in Nat \X Executable
      /\ issued'[n + 1] = id
      /\ DOMAIN issued = 1 .. n
  BY <1>3, <1>4
<1>6. TypeOK'
  <2>1. current_agent' \in Executable \cup {None} /\ next_agent' \in Executable \cup {None}
    BY <1>1
  <2>2. steps' \in Nat /\ node' \in {"supervisor", "execute", "agent", "end"}
    BY DEF TypeOK
  <2> QED BY <1>2, <1>5, <2>1, <2>2 DEF TypeOK
<1>7. LifecycleInv' /\ RoutingInv'
  BY <1>1 DEF LifecycleInv, RoutingInv
<1>8. IssuedInv'
  <2> SUFFICES ASSUME NEW i \in 1 .. n + 1, issued'[i][2] = Explorer
               PROVE  issued'[i][1] <= iteration'
    BY <1>5 DEF IssuedInv
  <2>1. CASE i = n + 1
    BY <2>1, <1>2, <1>5
  <2>2. CASE i \in 1 .. n
    <3>1. issued[i][2] = Explorer /\ issued[i][1] \in Nat
      BY <2>2, <1>5
    <3>2. issued[i][1] <= iteration
      BY <3>1, <2>2, <1>5 DEF IssuedInv
    <3> QED BY <3>1, <3>2, <2>2, <1>1, <1>2, <1>5
  <2> QED BY <2>1, <2>2, <1>1
<1>9. ExplorerIdsUnique'
  <2> SUFFICES ASSUME NEW i \in DOMAIN issued', NEW j \in DOMAIN issued', i # j,
                      issued'[i][2] = Explorer
               PROVE  issued'[i] # issued'[j]
    BY ZenonT(60) DEF ExplorerIdsUnique
  <2>0. i \in 1 .. n + 1 /\ j \in 1 .. n + 1
    BY <1>5
  <2>1. CASE i \in 1 .. n /\ j \in 1 .. n
    <3>1. i \in DOMAIN issued /\ j \in DOMAIN issued
      BY <2>1, <1>5
    <3>2. issued'[i] = issued[i] /\ issued'[j] = issued[j]
      BY <2>1, <1>5
    <3>3. issued[i][2] = Explorer
      BY <3>2
    <3>4. ExplorerIdsUnique
      OBVIOUS
    <3> QED BY <3>1, <3>2, <3>3, <3>4, Zenon DEF ExplorerIdsUnique
  <2>2. CASE i = n + 1 /\ j \in 1 .. n
    <3>1. selected_agent = Explorer
      BY <2>2, <1>5
    <3>2. CASE issued[j][2] = Explorer
      <4>1. issued[j][1] <= iteration
        BY <3>2, <2>2, <1>5 DEF IssuedInv
      <4> QED BY <4>1, <3>1, <2>2, <1>1, <1>2, <1>5
    <3>3. CASE issued[j][2] # Explorer
      BY <3>1, <3>3, <2>2, <1>5
    <3> QED BY <3>2, <3>3
  <2>3. CASE j = n + 1 /\ i \in 1 .. n
    <3>1. issued[i][1] <= iteration
      BY <2>3, <1>5 DEF IssuedInv
    <3>2. CASE selected_agent = Explorer
      BY <3>1, <3>2, <2>3, <1>1, <1>2, <1>5
    <3>3. CASE selected_agent # Explorer
      BY <3>3, <2>3, <1>5
    <3> QED BY <3>2, <3>3
  <2> QED BY <2>0, <2>1, <2>2, <2>3, <1>1
<1> QED BY <1>6, <1>7, <1>8, <1>9

\* A returned patch is applied whole or rejected whole.
LEMMA AgentReturnsIInv == ASSUME IInv, AgentReturns PROVE IInv'
<1>1. node = "agent" /\ selected_agent \in Executable
  BY DEF AgentReturns, IInv, RoutingInv
<1>2. PICK p \in Patches[selected_agent] : FinishAgent(p) \/ RejectPatch(p)
  BY DEF AgentReturns
<1>3. p \in Patch
  BY <1>1, <1>2, WorkflowAssumption
<1>4. CASE RejectPatch(p)
  BY <1>4, RaiseIInv DEF RejectPatch, IInv, TypeOK
<1>5. CASE FinishAgent(p)
  <2> USE <1>5 DEF FinishAgent
  <2>1. status \notin Terminal
    BY <1>1 DEF IInv, LifecycleInv
  <2>2. /\ evidence' \in Nat /\ knowledge_candidates' \in Nat /\ errors' \in Nat
        /\ validation_results' \in Seq(Verdict)
        /\ step_history' \in Seq(Invocation)
    <3>1. /\ p.evidence \in Nat /\ p.knowledge_candidates \in Nat /\ p.errors \in Nat
          /\ p.validation_results \in Seq(Verdict)
          /\ p.step_history \in Seq(Invocation)
      BY <1>3 DEF Patch
    <3>2. /\ validation_results \in Seq(Verdict) /\ step_history \in Seq(Invocation)
          /\ evidence \in Nat /\ knowledge_candidates \in Nat /\ errors \in Nat
      BY DEF IInv, TypeOK
    <3>3. validation_results \o p.validation_results \in Seq(Verdict)
      BY <3>1, <3>2
    <3>4. step_history \o p.step_history \in Seq(Invocation)
      BY <3>1, <3>2
    <3>5. /\ evidence + p.evidence \in Nat /\ errors + p.errors \in Nat
          /\ knowledge_candidates + p.knowledge_candidates \in Nat
      BY <3>1, <3>2, NatSum, Zenon
    <3> QED BY <3>3, <3>4, <3>5
  <2>a. iteration_of' \in Seq(Nat)
    <3>1. p.step_history \in Seq(Invocation) /\ iteration \in Nat
      BY <1>3, WorkflowAssumption DEF Patch, IInv, TypeOK
    <3>2. DOMAIN p.step_history = 1 .. Len(p.step_history) /\ Len(p.step_history) \in Nat
      BY <3>1
    <3>3. [i \in DOMAIN p.step_history |-> iteration] \in Seq(Nat)
      BY <3>1, <3>2
    <3> QED BY <3>3 DEF IInv, TypeOK
  <2>3. TypeOK'
    BY <2>2, <2>a DEF IInv, TypeOK
  <2>4. LifecycleInv' /\ RoutingInv'
    BY <2>1 DEF IInv, LifecycleInv, RoutingInv
  <2>5. IssuedInv' /\ ExplorerIdsUnique'
    BY DEF IInv, IssuedInv, ExplorerIdsUnique
  <2> QED BY <2>3, <2>4, <2>5 DEF IInv
<1> QED BY <1>2, <1>4, <1>5

\* A further call starts over at the supervisor on the returned state.
LEMMA RerunIInv == ASSUME IInv, Rerun PROVE IInv'
<1> USE DEF Rerun, domain
<1>1. TypeOK'
  BY DEF IInv, TypeOK
<1>2. LifecycleInv' /\ RoutingInv'
  BY DEF IInv, LifecycleInv, RoutingInv
<1> QED BY <1>1, <1>2, FrameIInv DEF artifacts

\* Every step keeps the invariant.
LEMMA NextIInv == IInv /\ [Next]_vars => IInv'
<1> SUFFICES ASSUME IInv, [Next]_vars PROVE IInv'
  OBVIOUS
<1>0. steps \in Nat /\ steps + 1 \in Nat
  BY DEF IInv, TypeOK
<1>1. CASE SuperviseTerminal
  <2> USE <1>1 DEF SuperviseTerminal, StartSuperstep, Return, domain
  <2>1. TypeOK'
    BY DEF IInv, TypeOK
  <2>2. LifecycleInv' /\ RoutingInv'
    BY DEF IInv, LifecycleInv, RoutingInv
  <2> QED BY <2>1, <2>2, FrameIInv DEF artifacts
<1>2. CASE SuperviseFail
  BY <1>2, FinishIInv DEF SuperviseFail, Supervise, Terminal
<1>3. CASE SuperviseReject
  BY <1>0, <1>3, RaiseIInv DEF SuperviseReject, Supervise, StartSuperstep
<1>4. CASE SuperviseComplete
  BY <1>4, FinishIInv DEF SuperviseComplete, Supervise, Terminal
<1>5. CASE SuperviseLimit
  BY <1>5, FinishIInv DEF SuperviseLimit, Supervise, Terminal
<1>6. CASE SuperviseRoute
  BY <1>6, RouteIInv
<1>7. CASE StartAgent
  BY <1>7, StartAgentIInv
<1>8. CASE AgentReturns
  BY <1>8, AgentReturnsIInv
<1>9. CASE AgentRaises
  BY <1>0, <1>9, RaiseIInv DEF AgentRaises
<1>10. CASE RecursionLimit
  BY <1>0, <1>10, RaiseIInv DEF RecursionLimit
<1>11. CASE Rerun
  BY <1>11, RerunIInv
<1>12. CASE UNCHANGED vars
  <2> USE <1>12 DEF vars, domain
  <2>1. TypeOK' /\ LifecycleInv' /\ RoutingInv'
    BY DEF IInv, TypeOK, LifecycleInv, RoutingInv
  <2> QED BY <2>1, FrameIInv DEF artifacts
<1> QED
  BY <1>1, <1>2, <1>3, <1>4, <1>5, <1>6, <1>7, <1>8, <1>9, <1>10, <1>11,
     <1>12 DEF Next, RunStep

\* Every variable keeps its type; in particular iteration never passes
\* max_iterations, which the reducer would refuse (reducer.py:29).
THEOREM TypeCorrect == Spec => []TypeOK
<1>1. IInv => TypeOK
  BY DEF IInv
<1> QED BY <1>1, InitIInv, NextIInv, PTL DEF Spec

\* No two Explorer invocations of a workflow share an invocation id.
THEOREM ExplorerIdsAreUnique == Spec => []ExplorerIdsUnique
<1>1. IInv => ExplorerIdsUnique
  BY DEF IInv
<1> QED BY <1>1, InitIInv, NextIInv, PTL DEF Spec

\* A terminal workflow is never written again, by later supersteps or by a
\* further call on the returned state (reducer.py:121).
THEOREM TerminalIsAbsorbing == Spec => TerminalAbsorbing
<1>1. IInv /\ [Next]_vars => [(status \in Terminal) => UNCHANGED domain]_vars
  <2> SUFFICES ASSUME IInv, Next, status \in Terminal PROVE UNCHANGED domain
    OBVIOUS
  <2>1. node \in {"supervisor", "end"}
    BY DEF IInv, LifecycleInv
  <2> QED
    BY <2>1 DEF Next, RunStep, SuperviseTerminal, SuperviseFail,
         SuperviseReject, SuperviseComplete, SuperviseLimit, SuperviseRoute,
         Supervise, StartSuperstep, StartAgent, AgentReturns, AgentRaises,
         RecursionLimit, Raise, Rerun
<1> QED BY <1>1, InitIInv, NextIInv, PTL DEF Spec, TerminalAbsorbing

-----------------------------------------------------------------------------
(* Agents that write history about themselves only.                          *)

\* A set of numbers that is not empty has a least element, and a bounded one a
\* greatest.
LEMMA LeastOf ==
  ASSUME NEW S \in SUBSET Nat, S # {}
  PROVE  \E x \in S : \A y \in S : x <= y
<1>1. \E x \in S : \A y \in S : ~ (<<y, x>> \in OpToRel(<, Nat))
  BY WFMin, NatLessThanWellFounded, Zenon
<1>2. \A x, y \in S : ~ (<<y, x>> \in OpToRel(<, Nat)) => ~ (y < x)
  BY DEF OpToRel
<1>3. \A x, y \in Nat : ~ (y < x) => x <= y
  OBVIOUS
<1> QED BY <1>1, <1>2, <1>3

LEMMA GreatestOf ==
  ASSUME NEW n \in Nat, NEW S \in SUBSET (1 .. n), S # {}
  PROVE  \E x \in S : \A y \in S : y <= x
<1> DEFINE T == {m \in Nat : \E y \in S : m = n - y}
<1>1. \A y \in S : y \in 1 .. n /\ n - y \in T
  OBVIOUS
<1>2. PICK m \in T : \A k \in T : m <= k
  BY <1>1, LeastOf
<1>3. PICK x \in S : m = n - x
  BY <1>2
<1>4. \A y \in S : n - x <= n - y
  BY <1>1, <1>2, <1>3
<1> QED BY <1>1, <1>3, <1>4

LEMMA IndicesAreFinite ==
  ASSUME NEW n \in Nat, NEW S \in SUBSET (1 .. n)
  PROVE  IsFiniteSet(S)
<1>1. IsFiniteSet(1 .. n)
  BY FS_Interval
<1> QED BY <1>1, FS_Subset, Zenon

\* A later invocation takes no earlier one away.
LEMMA IssuedFrame ==
  ASSUME UNCHANGED issued
  PROVE  \A i, role : Issued(i, role)' <=> Issued(i, role)
BY DEF Issued

\* The indices of the completed Validator entries are indices of the history.
LEMMA ValidatorsAreIndices ==
  ASSUME TypeOK
  PROVE  /\ Len(step_history) \in Nat
         /\ CompletedValidators(step_history) \in SUBSET (1 .. Len(step_history))
         /\ IsFiniteSet(CompletedValidators(step_history))
<1>1. Len(step_history) \in Nat /\ DOMAIN step_history = 1 .. Len(step_history)
  BY DEF TypeOK
<1>2. CompletedValidators(step_history) \in SUBSET (1 .. Len(step_history))
  BY <1>1 DEF CompletedValidators
<1> QED BY <1>1, <1>2, IndicesAreFinite

\* The first entry of a recovery cycle is its Explorer's.
LEMMA CycleHasExplorer ==
  ASSUME TypeOK, NEW K, K \in SUBSET (1 .. Len(step_history)), K # {},
         FollowsCycle(step_history, K)
  PROVE  \E k \in K : step_history[k].agent = Explorer
<1>1. Len(step_history) \in Nat
  BY DEF TypeOK
<1>2. PICK k \in K : \A l \in K : k <= l
  BY <1>1, LeastOf
<1>3. {l \in K : l <= k} = {k}
  <2>1. \A l \in K : l \in Nat
    BY <1>1
  <2>2. \A l \in K : l <= k => l = k
    BY <1>2, <2>1
  <2>3. k <= k
    BY <1>2, <2>1
  <2> QED BY <2>2, <2>3
<1>4. Cardinality({l \in K : l <= k}) = 1
  BY <1>3, FS_Singleton
<1>5. step_history[k] = Entry(Cycle[1], "completed")
  BY <1>2, <1>4 DEF FollowsCycle
<1>6. step_history[k].agent = Explorer
  BY <1>5 DEF Entry, Cycle
<1> QED BY <1>6

\* On an accepted history no two verdicts are of the same iteration.
LEMMA VerdictsOfDifferentIterations ==
  ASSUME TypeOK, EntryInv, WholeCyclesBetween(step_history),
         NEW i \in CompletedValidators(step_history),
         NEW j \in CompletedValidators(step_history), i < j
  PROVE  iteration_of[i] < iteration_of[j]
<1> DEFINE CV == CompletedValidators(step_history)
           Later == {l \in CV : i < l}
<1>1. /\ Len(step_history) \in Nat /\ CV \in SUBSET (1 .. Len(step_history))
      /\ DOMAIN step_history = 1 .. Len(step_history)
  BY ValidatorsAreIndices DEF TypeOK
<1>2. PICK m \in Later : \A l \in Later : m <= l
  <2>1. Later \in SUBSET Nat /\ j \in Later
    BY <1>1
  <2> QED BY <2>1, LeastOf
<1>3. Consecutive(step_history, i, m)
  BY <1>1, <1>2 DEF Consecutive
<1> DEFINE K == RecoverySteps(step_history, i, m)
<1>4. Cardinality(K) = 3 /\ FollowsCycle(step_history, K)
  BY <1>2, <1>3 DEF WholeCyclesBetween
<1>5. K \in SUBSET (1 .. Len(step_history)) /\ \A k \in K : k \in i + 1 .. m
  BY <1>1, <1>2 DEF RecoverySteps
<1>6. K # {}
  BY <1>4, FS_EmptySet
<1> HIDE DEF K
<1>7. PICK k \in K : step_history[k].agent = Explorer
  BY <1>4, <1>5, <1>6, CycleHasExplorer
<1>8. step_history[i].agent = Validator /\ step_history[m].agent = Validator
  BY <1>2 DEF CompletedValidators, Entry
<1>9. /\ i \in DOMAIN step_history /\ m \in DOMAIN step_history
      /\ j \in DOMAIN step_history /\ k \in DOMAIN step_history
      /\ i < k /\ k <= m /\ m <= j /\ k # m
  BY <1>1, <1>2, <1>5, <1>7, <1>8 DEF Explorer, Validator
<1>10. iteration_of \in Seq(Nat) /\ DOMAIN iteration_of = DOMAIN step_history
  BY <1>1 DEF EntryInv, TypeOK
<1>11. /\ iteration_of[i] < iteration_of[k]
       /\ iteration_of[k] <= iteration_of[m]
       /\ iteration_of[m] <= iteration_of[j]
  <2>1. Explorer # Validator
    BY DEF Explorer, Validator
  <2>2. k < m /\ (m = j \/ m < j)
    BY <1>1, <1>9
  <2>3. iteration_of[j] \in Nat
    BY <1>9, <1>10
  <2>4. iteration_of[m] <= iteration_of[j]
    BY <1>9, <2>2, <2>3 DEF EntryInv
  <2> QED BY <1>7, <1>8, <1>9, <2>1, <2>2, <2>4 DEF EntryInv
<1>12. /\ iteration_of[i] \in Nat /\ iteration_of[k] \in Nat
       /\ iteration_of[m] \in Nat /\ iteration_of[j] \in Nat
  BY <1>9, <1>10
<1> QED BY <1>11, <1>12

\* On an accepted history every verdict has a whole iteration of its own.
LEMMA AcceptedIsEarned ==
  ASSUME TypeOK, InvocationInv, EntryInv,
         HistoryAccepted(step_history, validation_results)
  PROVE  Len(validation_results) <= Cardinality(WholeIterations)
<1> DEFINE CV == CompletedValidators(step_history)
           f == [i \in CV |-> iteration_of[i]]
<1>1. /\ Cardinality(CV) = Len(validation_results)
      /\ WholeCyclesBetween(step_history)
      /\ CV \in SUBSET (1 .. Len(step_history)) /\ Len(step_history) \in Nat
      /\ DOMAIN step_history = 1 .. Len(step_history)
  BY ValidatorsAreIndices DEF HistoryAccepted, TypeOK
<1>2. \A i \in CV : iteration_of[i] \in WholeIterations
  <2> SUFFICES ASSUME NEW i \in CV PROVE iteration_of[i] \in WholeIterations
    OBVIOUS
  <2>1. step_history[i].agent = Validator
    BY DEF CompletedValidators, Entry
  <2>2. Issued(iteration_of[i], Validator)
    BY <1>1, <2>1 DEF EntryInv
  <2>3. PICK k \in DOMAIN issued : issued[k] = <<iteration_of[i], Validator>>
    BY <2>2 DEF Issued
  <2>4. issued[k][1] = iteration_of[i] /\ issued[k][2] = Validator
    BY <2>3
  <2>5. iteration_of[i] \in 1 .. iteration /\ Issued(iteration_of[i], Knowledge)
    BY <2>4 DEF InvocationInv
  <2>6. Issued(iteration_of[i], Explorer)
    BY <2>5 DEF InvocationInv
  <2>7. \A role \in Executable : Issued(iteration_of[i], role)
    BY <2>2, <2>5, <2>6 DEF Executable
  <2> QED BY <2>5, <2>7, Zenon DEF WholeIterations
<1>3. \A i, j \in CV : iteration_of[i] = iteration_of[j] => i = j
  <2> SUFFICES ASSUME NEW i \in CV, NEW j \in CV, i # j
               PROVE  iteration_of[i] # iteration_of[j]
    OBVIOUS
  <2>1. i \in Nat /\ j \in Nat
    BY <1>1
  <2>2. iteration_of[i] \in Nat /\ iteration_of[j] \in Nat
    BY <1>1 DEF EntryInv, TypeOK
  <2>3. CASE i < j
    BY <1>1, <2>2, <2>3, VerdictsOfDifferentIterations
  <2>4. CASE j < i
    BY <1>1, <2>2, <2>4, VerdictsOfDifferentIterations
  <2> QED BY <2>1, <2>3, <2>4
<1>4. f \in Injection(CV, WholeIterations)
  BY <1>2, <1>3 DEF Injection, IsInjective
<1>5. IsFiniteSet(WholeIterations)
  <2>1. iteration \in Nat
    BY WorkflowAssumption DEF TypeOK
  <2>2. WholeIterations \in SUBSET (1 .. iteration)
    BY DEF WholeIterations
  <2> QED BY <2>1, <2>2, IndicesAreFinite
<1> QED BY <1>1, <1>4, <1>5, FS_Injection

\* What the policy's choice says about the agents already invoked.
LEMMA WantedFacts ==
  ASSUME TypeOK, InvocationInv, EntryInv, RecoveryInv,
         ~ PolicyRejects, ~ ValidationPassed(validation_results)
  PROVE  /\ WantedAgent = Explorer =>
              /\ knowledge_candidates = 0 \/ validation_results # <<>>
              /\ CompletedValidators(step_history) # {} =>
                   ~ \E k \in DOMAIN step_history :
                       \A i \in CompletedValidators(step_history) : i < k
         /\ WantedAgent # Explorer => evidence > 0
         /\ WantedAgent = Validator =>
              knowledge_candidates > 0 /\ Issued(iteration, Knowledge)
<1> USE DEF Explorer, Knowledge, Validator
<1> DEFINE CV == CompletedValidators(step_history)
<1>0. evidence \in Nat /\ knowledge_candidates \in Nat
  BY DEF TypeOK
<1>1. CASE evidence = 0
  <2>1. knowledge_candidates = 0 /\ CV = {}
    BY <1>0, <1>1 DEF InvocationInv, RecoveryInv
  <2> QED BY <1>1, <2>1 DEF WantedAgent
<1>2. CASE evidence > 0 /\ knowledge_candidates = 0
  BY <1>2 DEF WantedAgent
<1>3. CASE evidence > 0 /\ knowledge_candidates > 0 /\ validation_results = <<>>
  BY <1>3 DEF WantedAgent, InvocationInv
<1>4. CASE evidence > 0 /\ knowledge_candidates > 0 /\ validation_results # <<>>
  <2>1. HistoryAccepted(step_history, validation_results)
    BY <1>4 DEF PolicyRejects
  <2>2. Len(validation_results) \in DOMAIN validation_results
    BY <1>4 DEF TypeOK
  <2>3. LatestResult(validation_results) \in {"passed", "failed"}
    BY <2>1, <2>2 DEF HistoryAccepted, LatestResult
  <2>4. RecoveryAccepted(step_history)
    BY <1>4, <2>1, <2>3 DEF PolicyRejects, ValidationPassed
  <2>5. CV # {} /\ CV \in SUBSET (1 .. Len(step_history)) /\ Len(step_history) \in Nat
    <3>1. Cardinality(CV) = Len(validation_results) /\ Len(validation_results) # 0
      BY <1>4, <2>1, <2>2 DEF HistoryAccepted, TypeOK
    <3> QED BY <3>1, ValidatorsAreIndices, FS_EmptySet
  <2> DEFINE last == CHOOSE i \in CV : \A j \in CV : j <= i
             P == RecoverySteps(step_history, last, Len(step_history))
  <2>6. last \in CV /\ \A j \in CV : j <= last
    <3>1. \E i \in CV : \A j \in CV : j <= i
      BY <2>5, GreatestOf
    <3> QED BY <3>1
  <2>7. P = RecoveryPrefix(step_history)
    BY DEF RecoveryPrefix
  <2>8. Cardinality(P) \in 0 .. 2 /\ FollowsCycle(step_history, P)
    BY <2>4, <2>7 DEF RecoveryAccepted
  <2>9. WantedAgent = Cycle[Cardinality(P) + 1]
    BY <1>4, <2>7 DEF WantedAgent
  <2>10. /\ P \in SUBSET (1 .. Len(step_history)) /\ IsFiniteSet(P)
         /\ \A k \in P : last < k
    <3>1. P \in SUBSET (1 .. Len(step_history)) /\ \A k \in P : last < k
      BY <2>5, <2>6 DEF RecoverySteps
    <3> QED BY <2>5, <3>1, IndicesAreFinite
  <2>11. DOMAIN step_history = 1 .. Len(step_history)
    BY DEF TypeOK
  <2>12. \A k \in DOMAIN step_history : last < k => k \in P
    <3> SUFFICES ASSUME NEW k \in DOMAIN step_history, last < k PROVE k \in P
      OBVIOUS
    <3>1. step_history[k].agent \in Executable
      BY DEF EntryInv
    <3>2. k \in last + 1 .. Len(step_history)
      BY <2>5, <2>6, <2>11
    <3> QED BY <3>1, <3>2 DEF RecoverySteps
  <2> HIDE DEF last, P
  <2>13. CASE Cardinality(P) = 0
    <3>1. P = {}
      BY <2>10, <2>13, FS_EmptySet
    <3>2. ~ \E k \in DOMAIN step_history : \A i \in CV : i < k
      BY <2>6, <2>12, <3>1
    <3>3. WantedAgent = Explorer
      BY <2>9, <2>13 DEF Cycle
    <3> QED BY <1>4, <3>2, <3>3
  <2>14. CASE Cardinality(P) = 1
    <3>1. WantedAgent = Knowledge
      BY <2>9, <2>14 DEF Cycle
    <3> QED BY <1>4, <3>1
  <2>15. CASE Cardinality(P) = 2
    <3>1. WantedAgent = Validator
      BY <2>9, <2>15 DEF Cycle
    <3>2. P # {}
      BY <2>15, FS_EmptySet
    <3>3. PICK k \in P : \A l \in P : l <= k
      BY <2>5, <2>10, <3>2, GreatestOf
    <3>4. {l \in P : l <= k} = P
      BY <3>3
    <3>5. step_history[k] = Entry(Cycle[2], "completed")
      BY <2>8, <2>15, <3>3, <3>4 DEF FollowsCycle
    <3>6. step_history[k].agent = Knowledge
      BY <3>5 DEF Entry, Cycle
    <3>7. k \in DOMAIN step_history /\ \A i \in CV : i < k
      BY <2>5, <2>6, <2>10, <2>11, <3>3
    <3>8. iteration_of[k] = iteration
      BY <2>5, <3>7 DEF RecoveryInv
    <3>9. Issued(iteration, Knowledge)
      BY <3>6, <3>7, <3>8 DEF EntryInv
    <3> QED BY <1>4, <3>1, <3>9
  <2>16. Cardinality(P) = 0 \/ Cardinality(P) = 1 \/ Cardinality(P) = 2
    BY <2>8
  <2> QED BY <2>13, <2>14, <2>15, <2>16
<1> QED BY <1>0, <1>1, <1>2, <1>3, <1>4

\* A fresh workflow has nothing to earn.
LEMMA EarnedInit == Init => EarnedInv
<1> SUFFICES ASSUME Init PROVE EarnedInv
  OBVIOUS
<1> USE DEF Init
<1>1. CompletedValidators(step_history) = {}
  BY DEF CompletedValidators
<1>2. InvocationInv
  BY DEF InvocationInv
<1>3. EntryInv
  BY DEF EntryInv
<1> QED BY <1>1, <1>2, <1>3 DEF EarnedInv, RecoveryInv, CompletionEarned

\* A step that invokes nobody and writes nothing keeps what was earned.
LEMMA EarnedFrame ==
  ASSUME EarnedInv, UNCHANGED <<iteration, artifacts, issued, iteration_of>>,
         node' \in {"supervisor", "end"}, CompletionEarned'
  PROVE  EarnedInv'
<1> USE DEF artifacts
<1>1. \A i, role : Issued(i, role)' <=> Issued(i, role)
  BY IssuedFrame
<1>2. CompletedValidators(step_history)' = CompletedValidators(step_history)
  BY DEF CompletedValidators
<1>3. InvocationInv'
  BY <1>1 DEF EarnedInv, InvocationInv
<1>4. EntryInv'
  BY <1>1 DEF EarnedInv, EntryInv
<1>5. RecoveryInv'
  BY <1>2 DEF EarnedInv, RecoveryInv
<1> QED BY <1>3, <1>4, <1>5 DEF EarnedInv

\* What a completed workflow has earned stays while nothing is invoked.
LEMMA CompletionFrame ==
  ASSUME CompletionEarned, UNCHANGED <<iteration, artifacts, issued>>,
         status' = "completed" => status = "completed"
  PROVE  CompletionEarned'
<1>1. \A i, role : Issued(i, role)' <=> Issued(i, role)
  BY IssuedFrame
<1>2. WholeIterations' = WholeIterations
  BY <1>1 DEF WholeIterations
<1> QED BY <1>2 DEF CompletionEarned, artifacts

\* The policy's choice carries to the agent node.
LEMMA EarnedRoute == ASSUME IInv, EarnedInv, SuperviseRoute PROVE EarnedInv'
<1> USE DEF SuperviseRoute, Supervise, StartSuperstep, artifacts
<1>1. \A i, role : Issued(i, role)' <=> Issued(i, role)
  BY IssuedFrame
<1>2. CompletedValidators(step_history)' = CompletedValidators(step_history)
  BY DEF CompletedValidators
<1>3. /\ WantedAgent = Explorer =>
           /\ knowledge_candidates = 0 \/ validation_results # <<>>
           /\ CompletedValidators(step_history) # {} =>
                ~ \E k \in DOMAIN step_history :
                    \A i \in CompletedValidators(step_history) : i < k
      /\ WantedAgent # Explorer => evidence > 0
      /\ WantedAgent = Validator =>
           knowledge_candidates > 0 /\ Issued(iteration, Knowledge)
  BY WantedFacts DEF IInv, EarnedInv
<1>4. InvocationInv'
  BY <1>1, <1>3 DEF EarnedInv, InvocationInv
<1>5. EntryInv'
  BY <1>1 DEF EarnedInv, EntryInv
<1>6. RecoveryInv'
  BY <1>2, <1>3 DEF EarnedInv, RecoveryInv
<1>7. CompletionEarned'
  BY CompletionFrame DEF EarnedInv
<1> QED BY <1>4, <1>5, <1>6, <1>7 DEF EarnedInv

\* An invocation is issued in its iteration, an Explorer's in a new one.
LEMMA EarnedStart == ASSUME IInv, EarnedInv, StartAgent PROVE EarnedInv'
<1> DEFINE n == Len(issued)
           id == <<iteration', selected_agent>>
           Known(i, role) == \E k \in DOMAIN issued' : issued'[k] = <<i, role>>
<1> USE DEF StartAgent, StartSuperstep, artifacts
<1>1. /\ selected_agent \in Executable /\ iteration \in Nat /\ n \in Nat
      /\ node = "execute" /\ node' = "agent" /\ selected_agent' = selected_agent
      /\ evidence \in Nat /\ knowledge_candidates \in Nat
  BY WorkflowAssumption DEF IInv, RoutingInv, TypeOK
<1>2. iteration' = IF selected_agent = Explorer THEN iteration + 1 ELSE iteration
  BY DEF IterationAfter
<1>3. /\ DOMAIN issued = 1 .. n /\ DOMAIN issued' = 1 .. n + 1
      /\ \A i \in 1 .. n : issued'[i] = issued[i]
      /\ issued'[n + 1] = id
  <2>1. iteration' \in Nat
    BY <1>1, <1>2
  <2>2. id \in Nat \X Executable
    BY <1>1, <2>1
  <2>3. issued \in Seq(Nat \X Executable) /\ issued' = Append(issued, id)
    BY DEF IInv, TypeOK
  <2> HIDE DEF id
  <2> QED BY <2>2, <2>3
<1>4. \A i \in 1 .. n + 1 : i \in 1 .. n \/ i = n + 1
  BY <1>1, NextIndex, Zenon
<1>5. /\ \A i, role : Issued(i, role)' <=> Known(i, role)
      /\ \A i, role : Issued(i, role) => Known(i, role)
  <2> SUFFICES ASSUME NEW i, NEW role
               PROVE  /\ Issued(i, role)' <=> Known(i, role)
                      /\ Issued(i, role) => Known(i, role)
    OBVIOUS
  <2> SUFFICES ASSUME Issued(i, role) PROVE Known(i, role)
    BY DEF Issued
  <2>1. PICK k \in 1 .. n : issued[k] = <<i, role>>
    BY <1>3 DEF Issued
  <2>2. k \in 1 .. n + 1 /\ issued'[k] = <<i, role>>
    BY <1>1, <1>3, <2>1, NextIndex, Zenon
  <2> QED BY <1>3, <2>2, Zenon DEF Issued
<1>6. Known(iteration', selected_agent)
  <2>1. n + 1 \in 1 .. n + 1
    BY <1>1
  <2> QED BY <1>3, <2>1, Zenon
<1> HIDE DEF Known
<1>7. iteration' \in Nat \ {0} /\ iteration <= iteration'
  <2>1. selected_agent # Explorer => iteration > 0
    BY <1>1 DEF EarnedInv, InvocationInv
  <2> QED BY <1>1, <1>2, <2>1
<1>8. \A i \in 1 .. iteration' : Known(i, Explorer)
  <2> SUFFICES ASSUME NEW i \in 1 .. iteration' PROVE Known(i, Explorer)
    OBVIOUS
  <2>1. CASE i \in 1 .. iteration
    BY <1>5, <2>1 DEF EarnedInv, InvocationInv
  <2>2. CASE ~ (i \in 1 .. iteration)
    <3>1. selected_agent = Explorer /\ i = iteration'
      BY <1>1, <1>2, <2>2
    <3> QED BY <1>6, <3>1
  <2> QED BY <2>1, <2>2
<1>9. ASSUME NEW k \in DOMAIN issued'
      PROVE  /\ issued'[k][1] \in 1 .. iteration'
             /\ issued'[k][2] = Validator => Known(issued'[k][1], Knowledge)
  <2>1. CASE k \in 1 .. n
    <3>1. /\ issued[k][1] \in 1 .. iteration
          /\ issued[k][2] = Validator => Issued(issued[k][1], Knowledge)
      BY <1>3, <2>1 DEF EarnedInv, InvocationInv
    <3>2. issued[k][1] \in 1 .. iteration'
      BY <1>1, <1>7, <3>1
    <3> QED BY <1>3, <1>5, <2>1, <3>1, <3>2
  <2>2. CASE k = n + 1
    <3>1. issued'[k][1] = iteration' /\ issued'[k][2] = selected_agent
      BY <1>3, <2>2
    <3>2. selected_agent = Validator => iteration' = iteration /\ Issued(iteration, Knowledge)
      BY <1>1, <1>2 DEF EarnedInv, InvocationInv, Explorer, Validator
    <3>3. iteration' \in 1 .. iteration'
      BY <1>7
    <3> QED BY <1>5, <3>1, <3>2, <3>3
  <2> QED BY <1>3, <1>4, <2>1, <2>2
<1>10. knowledge_candidates > 0 /\ validation_results = <<>> =>
         iteration' = iteration /\ Issued(iteration, Knowledge)
  BY <1>1, <1>2 DEF EarnedInv, InvocationInv
<1>11. InvocationInv'
  <2>1. \A i \in 1 .. iteration' : Issued(i, Explorer)'
    BY <1>5, <1>8
  <2>2. ASSUME NEW k \in DOMAIN issued'
        PROVE  /\ issued'[k][1] \in 1 .. iteration'
               /\ issued'[k][2] = Validator => (Issued(issued[k][1], Knowledge))'
    BY <1>9 DEF Known, Issued
  <2>3. (Issued(iteration, selected_agent))'
    BY <1>1, <1>6 DEF Known, Issued
  <2>4. /\ selected_agent # Explorer => evidence > 0
        /\ selected_agent = Validator => knowledge_candidates > 0
        /\ evidence > 0 => iteration > 0
        /\ knowledge_candidates > 0 => evidence > 0
    BY <1>1 DEF EarnedInv, InvocationInv
  <2>5. knowledge_candidates > 0 /\ validation_results = <<>> =>
          (Issued(iteration, Knowledge))'
    BY <1>5, <1>10 DEF Known, Issued
  <2> QED BY <1>1, <1>7, <2>1, <2>2, <2>3, <2>4, <2>5 DEF InvocationInv
<1>12. EntryInv'
  <2>1. \A i \in DOMAIN step_history : iteration_of[i] \in 1 .. iteration
    <3> SUFFICES ASSUME NEW i \in DOMAIN step_history
                 PROVE  iteration_of[i] \in 1 .. iteration
      OBVIOUS
    <3>1. PICK k \in DOMAIN issued : issued[k] = <<iteration_of[i], step_history[i].agent>>
      BY DEF EarnedInv, EntryInv, Issued
    <3>2. issued[k][1] = iteration_of[i]
      BY <3>1
    <3> QED BY <3>2 DEF EarnedInv, InvocationInv
  <2>2. selected_agent = Explorer =>
          \A i \in DOMAIN step_history : iteration_of[i] < iteration'
    BY <1>1, <1>2, <2>1
  <2>3. \A i, role : Issued(i, role) => Issued(i, role)'
    BY <1>5
  <2> QED BY <1>1, <2>2, <2>3 DEF EarnedInv, EntryInv
<1>13. RecoveryInv'
  <2>1. CompletedValidators(step_history)' = CompletedValidators(step_history)
    BY DEF CompletedValidators
  <2>2. CASE selected_agent = Explorer
    BY <1>1, <2>1, <2>2 DEF EarnedInv, RecoveryInv
  <2>3. CASE selected_agent # Explorer
    BY <1>1, <1>2, <2>1, <2>3 DEF EarnedInv, RecoveryInv
  <2> QED BY <2>2, <2>3
<1>14. CompletionEarned'
  BY <1>1 DEF IInv, LifecycleInv, CompletionEarned, Terminal
<1> QED BY <1>11, <1>12, <1>13, <1>14 DEF EarnedInv

\* A concatenation is the first sequence followed by the second.
LEMMA ConcatFacts ==
  ASSUME NEW S, NEW s \in Seq(S), NEW t \in Seq(S)
  PROVE  /\ Len(s \o t) = Len(s) + Len(t)
         /\ \A i \in 1 .. Len(s) : (s \o t)[i] = s[i]
         /\ \A i \in Len(s) + 1 .. Len(s) + Len(t) : (s \o t)[i] = t[i - Len(s)]
         /\ s \o t = <<>> => s = <<>>
<1>1. /\ Len(s) \in Nat /\ Len(t) \in Nat
      /\ DOMAIN s = 1 .. Len(s) /\ DOMAIN t = 1 .. Len(t)
  OBVIOUS
<1>2. Len(s \o t) = Len(s) + Len(t)
  OBVIOUS
<1>3. \A i \in 1 .. Len(s) : (s \o t)[i] = s[i]
  OBVIOUS
<1>4. \A i \in Len(s) + 1 .. Len(s) + Len(t) : (s \o t)[i] = t[i - Len(s)]
  BY <1>1
<1>5. ASSUME s \o t = <<>> PROVE s = <<>>
  <2>1. Len(s) = 0
    BY <1>1, <1>2, <1>5
  <2> QED BY <2>1
<1> QED BY <1>2, <1>3, <1>4, <1>5

\* What an agent returns about itself belongs to the iteration it runs in.
LEMMA EarnedReturn ==
  ASSUME OwnEntries, IInv, EarnedInv, node = "agent",
         NEW p \in Patches[selected_agent], FinishAgent(p)
  PROVE  EarnedInv'
<1> DEFINE m == Len(step_history)
           q == Len(p.step_history)
           CV == CompletedValidators(step_history)
<1>1. selected_agent \in Executable /\ p \in Patch
  BY WorkflowAssumption DEF IInv, RoutingInv
<1>2. /\ evidence \in Nat /\ knowledge_candidates \in Nat /\ iteration \in Nat
      /\ validation_results \in Seq(Verdict)
      /\ p.evidence \in Nat /\ p.knowledge_candidates \in Nat
      /\ p.validation_results \in Seq(Verdict)
  BY <1>1, WorkflowAssumption DEF IInv, TypeOK, Patch
<1>3. /\ p.evidence > 0 => selected_agent = Explorer
      /\ p.knowledge_candidates > 0 => selected_agent = Knowledge
  <2>1. /\ "evidence" \in AllowedFields(selected_agent) => selected_agent = Explorer
        /\ "knowledge_candidates" \in AllowedFields(selected_agent) =>
             selected_agent = Knowledge
    BY <1>1 DEF AllowedFields, Executable, Explorer, Knowledge, Validator
  <2>2. /\ p.evidence > 0 => "evidence" \in RequestedFields(p)
        /\ p.knowledge_candidates > 0 => "knowledge_candidates" \in RequestedFields(p)
    BY DEF RequestedFields
  <2>3. RequestedFields(p) \subseteq AllowedFields(selected_agent)
    BY DEF FinishAgent, PatchAccepted
  <2> HIDE DEF RequestedFields, AllowedFields
  <2> QED BY <2>1, <2>2, <2>3, Zenon
<1>4. /\ evidence' = evidence + p.evidence
      /\ knowledge_candidates' = knowledge_candidates + p.knowledge_candidates
      /\ validation_results' = validation_results \o p.validation_results
      /\ step_history' = step_history \o p.step_history
      /\ iteration_of' = iteration_of \o [i \in DOMAIN p.step_history |-> iteration]
      /\ node' = "supervisor"
      /\ UNCHANGED <<status, iteration, issued>>
  BY DEF FinishAgent
<1>5. \A i, role : Issued(i, role)' <=> Issued(i, role)
  BY <1>4, IssuedFrame
<1>6. Issued(iteration, selected_agent) /\ iteration > 0
  <2>1. Issued(iteration, selected_agent)
    BY DEF EarnedInv, InvocationInv
  <2>2. PICK k \in DOMAIN issued : issued[k] = <<iteration, selected_agent>>
    BY <2>1 DEF Issued
  <2>3. issued[k][1] = iteration
    BY <2>2
  <2>4. iteration \in 1 .. iteration
    BY <2>3 DEF EarnedInv, InvocationInv
  <2> QED BY <1>2, <2>1, <2>4
<1>7. /\ m \in Nat /\ q \in Nat /\ DOMAIN step_history = 1 .. m
      /\ Len(step_history') = m + q /\ Len(iteration_of') = m + q
      /\ DOMAIN step_history' = 1 .. m + q
      /\ \A i \in 1 .. m : step_history'[i] = step_history[i] /\ iteration_of'[i] = iteration_of[i]
      /\ \A i \in m + 1 .. m + q :
           i - m \in DOMAIN p.step_history /\ step_history'[i] = p.step_history[i - m]
             /\ iteration_of'[i] = iteration
  <2>1. /\ step_history \in Seq(Invocation) /\ p.step_history \in Seq(Invocation)
        /\ iteration_of \in Seq(Nat) /\ Len(iteration_of) = m
    BY <1>1 DEF IInv, TypeOK, Patch, EarnedInv, EntryInv
  <2>2. /\ m \in Nat /\ q \in Nat /\ DOMAIN step_history = 1 .. m
        /\ DOMAIN p.step_history = 1 .. q /\ DOMAIN iteration_of = 1 .. m
    BY <2>1
  <2> DEFINE new == [i \in DOMAIN p.step_history |-> iteration]
  <2>3. /\ new \in Seq(Nat) /\ Len(new) = q
        /\ \A i \in 1 .. q : new[i] = iteration
    BY <1>2, <2>2
  <2> HIDE DEF new
  <2>4. /\ Len(step_history') = m + q /\ DOMAIN step_history' = 1 .. m + q
        /\ \A i \in 1 .. m : step_history'[i] = step_history[i]
        /\ \A i \in m + 1 .. m + q : step_history'[i] = p.step_history[i - m]
    BY <1>4, <2>1, <2>2
  <2>5. iteration_of' = iteration_of \o new
    BY <1>4 DEF new
  <2>6. /\ Len(iteration_of') = m + q
        /\ \A i \in 1 .. m : iteration_of'[i] = iteration_of[i]
        /\ \A i \in m + 1 .. m + q : i - m \in 1 .. q /\ iteration_of'[i] = new[i - m]
    <3>1. /\ Len(iteration_of \o new) = m + q
          /\ \A i \in 1 .. m : (iteration_of \o new)[i] = iteration_of[i]
          /\ \A i \in m + 1 .. m + q : (iteration_of \o new)[i] = new[i - m]
      <4>1. /\ Len(iteration_of \o new) = Len(iteration_of) + Len(new)
            /\ \A i \in 1 .. Len(iteration_of) : (iteration_of \o new)[i] = iteration_of[i]
            /\ \A i \in Len(iteration_of) + 1 .. Len(iteration_of) + Len(new) :
                 (iteration_of \o new)[i] = new[i - Len(iteration_of)]
        <5>1. iteration_of \in Seq(Nat) /\ new \in Seq(Nat)
          BY <2>1, <2>3
        <5> HIDE DEF m, q
        <5> QED BY <5>1, ConcatFacts
      <4>2. Len(iteration_of) = m /\ Len(new) = q
        BY <2>1, <2>3
      <4> HIDE DEF m, q
      <4> QED BY <4>1, <4>2, Zenon
    <3>2. \A i \in m + 1 .. m + q : i - m \in 1 .. q
      BY <2>2
    <3> QED BY <2>5, <3>1, <3>2
  <2> QED BY <2>2, <2>3, <2>4, <2>6
<1> HIDE DEF m, q
<1>8. \A i \in 1 .. m + q : i \in 1 .. m \/ i \in m + 1 .. m + q
  BY <1>7
<1>9. \A i \in m + 1 .. m + q : step_history'[i].agent = selected_agent
  BY <1>1, <1>7 DEF OwnEntries
<1>10. \A i \in 1 .. m :
         /\ iteration_of[i] \in 1 .. iteration
         /\ step_history[i].agent \in Executable
         /\ Issued(iteration_of[i], step_history[i].agent)
         /\ selected_agent = Explorer => iteration_of[i] < iteration
  <2> SUFFICES ASSUME NEW i \in 1 .. m
               PROVE  /\ iteration_of[i] \in 1 .. iteration
                      /\ step_history[i].agent \in Executable
                      /\ Issued(iteration_of[i], step_history[i].agent)
                      /\ selected_agent = Explorer => iteration_of[i] < iteration
    OBVIOUS
  <2>1. /\ step_history[i].agent \in Executable
        /\ Issued(iteration_of[i], step_history[i].agent)
        /\ selected_agent = Explorer => iteration_of[i] < iteration
    BY <1>7 DEF EarnedInv, EntryInv
  <2>2. PICK k \in DOMAIN issued : issued[k] = <<iteration_of[i], step_history[i].agent>>
    BY <2>1 DEF Issued
  <2>3. issued[k][1] = iteration_of[i]
    BY <2>2
  <2> QED BY <2>1, <2>3 DEF EarnedInv, InvocationInv
<1>11. InvocationInv'
  <2>1. evidence' \in Nat /\ knowledge_candidates' \in Nat
    BY <1>2, <1>4
  <2>2. knowledge_candidates' > 0 => evidence' > 0
    <3>1. knowledge_candidates > 0 \/ p.knowledge_candidates > 0 => evidence > 0
      BY <1>3 DEF EarnedInv, InvocationInv, Explorer, Knowledge
    <3> QED BY <1>2, <1>4, <3>1
  <2>3. knowledge_candidates' > 0 /\ validation_results' = <<>> =>
          Issued(iteration, Knowledge)
    <3>1. validation_results' = <<>> => validation_results = <<>>
      BY <1>2, <1>4, ConcatFacts
    <3>2. CASE p.knowledge_candidates > 0
      BY <1>3, <1>6, <3>2
    <3>3. CASE ~ (p.knowledge_candidates > 0)
      <4>1. knowledge_candidates' = knowledge_candidates
        BY <1>2, <1>4, <3>3
      <4> QED BY <3>1, <4>1 DEF EarnedInv, InvocationInv
    <3> QED BY <3>2, <3>3
  <2> QED BY <1>4, <1>5, <1>6, <2>2, <2>3 DEF EarnedInv, InvocationInv
<1>12. EntryInv'
  <2>1. ASSUME NEW i \in 1 .. m + q
        PROVE  /\ step_history'[i].agent \in Executable
               /\ Issued(iteration_of'[i], step_history'[i].agent)
    <3>1. CASE i \in 1 .. m
      BY <1>7, <1>10, <3>1
    <3>2. CASE i \in m + 1 .. m + q
      BY <1>1, <1>6, <1>7, <1>9, <3>2
    <3> QED BY <1>8, <3>1, <3>2
  <2>2. ASSUME NEW i \in 1 .. m + q, NEW j \in 1 .. m + q, i < j
        PROVE  /\ iteration_of'[i] <= iteration_of'[j]
               /\ step_history'[j].agent = Explorer /\ step_history'[i].agent # Explorer =>
                    iteration_of'[i] < iteration_of'[j]
    <3>1. CASE j \in 1 .. m
      <4>1. i \in 1 .. m
        BY <1>7, <2>2, <3>1
      <4>2. /\ iteration_of[i] <= iteration_of[j]
            /\ step_history[j].agent = Explorer /\ step_history[i].agent # Explorer =>
                 iteration_of[i] < iteration_of[j]
        BY <1>7, <2>2, <3>1, <4>1 DEF EarnedInv, EntryInv
      <4> QED BY <1>7, <3>1, <4>1, <4>2
    <3>2. CASE j \in m + 1 .. m + q /\ i \in 1 .. m
      <4>1. iteration_of'[j] = iteration /\ step_history'[j].agent = selected_agent
        BY <1>7, <1>9, <3>2
      <4>2. iteration_of'[i] = iteration_of[i]
        BY <1>7, <3>2
      <4>3. /\ iteration_of[i] \in 1 .. iteration
            /\ selected_agent = Explorer => iteration_of[i] < iteration
        BY <1>10, <3>2
      <4>4. iteration_of[i] <= iteration
        BY <1>2, <4>3
      <4> QED BY <4>1, <4>2, <4>3, <4>4
    <3>3. CASE j \in m + 1 .. m + q /\ i \in m + 1 .. m + q
      <4>1. /\ iteration_of'[i] = iteration /\ iteration_of'[j] = iteration
            /\ step_history'[i].agent = selected_agent
            /\ step_history'[j].agent = selected_agent
        BY <1>7, <1>9, <3>3
      <4>2. iteration <= iteration
        BY <1>2
      <4> QED BY <4>1, <4>2
    <3> QED BY <1>8, <3>1, <3>2, <3>3
  <2>3. \A i, role : Issued(i, role) => Issued(i, role)'
    BY <1>5
  <2> QED BY <1>4, <1>7, <2>1, <2>2, <2>3 DEF EntryInv
<1>13. RecoveryInv'
  <2> DEFINE CVN == CompletedValidators(step_history')
  <2>1. /\ \A i \in CV : i \in 1 .. m /\ i \in CVN
        /\ \A i \in CVN : i \in CV \/ (i \in m + 1 .. m + q /\ selected_agent = Validator)
    <3>1. \A i \in 1 .. m : i \in 1 .. m + q
      BY <1>7
    <3>2. \A i : i \in CV <=> i \in 1 .. m /\ step_history[i] = Entry(Validator, "completed")
      BY <1>7 DEF CompletedValidators
    <3>3. \A i : i \in CVN <=> i \in 1 .. m + q /\ step_history'[i] = Entry(Validator, "completed")
      BY <1>7 DEF CompletedValidators
    <3>4. Entry(Validator, "completed").agent = Validator
      BY DEF Entry
    <3> HIDE DEF CV, CVN
    <3>5. \A i \in CV : i \in 1 .. m /\ i \in CVN
      BY <1>7, <3>1, <3>2, <3>3, Zenon
    <3>6. \A i \in CVN : i \in CV \/ (i \in m + 1 .. m + q /\ selected_agent = Validator)
      BY <1>7, <1>8, <1>9, <3>2, <3>3, <3>4, Zenon
    <3> QED BY <3>5, <3>6
  <2>2. CVN # {} => knowledge_candidates' > 0
    <3>1. CVN # {} => knowledge_candidates > 0
      BY <2>1 DEF EarnedInv, RecoveryInv, InvocationInv
    <3> QED BY <1>2, <1>4, <3>1
  <2>3. ASSUME CVN # {}, NEW k \in 1 .. m + q, \A i \in CVN : i < k
        PROVE  iteration_of'[k] = iteration
    <3>1. CASE k \in m + 1 .. m + q
      BY <1>7, <3>1
    <3>2. CASE k \in 1 .. m
      <4>1. \A i \in CVN : i \in CV
        BY <1>7, <2>1, <2>3, <3>2
      <4>2. CV # {} /\ \A i \in CV : i < k
        BY <2>1, <2>3, <4>1
      <4>3. iteration_of[k] = iteration
        BY <1>7, <3>2, <4>2 DEF EarnedInv, RecoveryInv
      <4> QED BY <1>7, <3>2, <4>3
    <3> QED BY <1>8, <3>1, <3>2
  <2>4. CompletedValidators(step_history)' = CVN
    BY DEF CompletedValidators
  <2> HIDE DEF CVN
  <2> QED BY <1>4, <1>7, <2>2, <2>3, <2>4 DEF RecoveryInv
<1>14. CompletionEarned'
  BY <1>4 DEF IInv, LifecycleInv, CompletionEarned, Terminal
<1> QED BY <1>11, <1>12, <1>13, <1>14 DEF EarnedInv

\* Every step keeps what was earned.
LEMMA EarnedNext ==
  ASSUME OwnEntries, IInv, EarnedInv, [Next]_vars
  PROVE  EarnedInv'
<1>1. CASE \/ SuperviseTerminal \/ SuperviseFail \/ SuperviseReject \/ SuperviseLimit
           \/ AgentRaises \/ RecursionLimit \/ Rerun
  <2>1. /\ UNCHANGED <<iteration, artifacts, issued, iteration_of>>
        /\ node' \in {"supervisor", "end"}
        /\ status' = "completed" => status = "completed"
    BY <1>1 DEF SuperviseTerminal, SuperviseFail, SuperviseReject, SuperviseLimit,
       Supervise, Finish, Return, AgentRaises, RecursionLimit, Raise, Rerun, domain,
       artifacts
  <2> QED BY <2>1, EarnedFrame, CompletionFrame DEF EarnedInv
<1>2. CASE SuperviseComplete
  <2>1. /\ UNCHANGED <<iteration, artifacts, issued, iteration_of>>
        /\ node' = "end" /\ ~ PolicyRejects /\ ValidationPassed(validation_results)
    BY <1>2 DEF SuperviseComplete, Finish, Return
  <2>2. HistoryAccepted(step_history, validation_results)
    <3>1. validation_results # <<>> /\ LatestResult(validation_results) = "passed"
      BY <2>1 DEF ValidationPassed
    <3>2. LatestResult(validation_results) # "failed"
      BY <3>1
    <3> QED BY <2>1, <3>1, <3>2 DEF PolicyRejects
  <2>3. Len(validation_results) <= Cardinality(WholeIterations)
    BY <2>2, AcceptedIsEarned DEF IInv, EarnedInv
  <2>4. \A i, role : Issued(i, role)' <=> Issued(i, role)
    BY <2>1, IssuedFrame
  <2>5. WholeIterations' = WholeIterations
    BY <2>1, <2>4 DEF WholeIterations
  <2>6. CompletionEarned'
    BY <2>1, <2>3, <2>5 DEF CompletionEarned, artifacts
  <2> QED BY <2>1, <2>6, EarnedFrame
<1>3. CASE SuperviseRoute
  BY <1>3, EarnedRoute
<1>4. CASE StartAgent
  BY <1>4, EarnedStart
<1>5. CASE AgentReturns
  <2>1. PICK p \in Patches[selected_agent] : FinishAgent(p) \/ RejectPatch(p)
    BY <1>5 DEF AgentReturns
  <2>2. CASE FinishAgent(p)
    BY <1>5, <2>2, EarnedReturn DEF AgentReturns
  <2>3. CASE RejectPatch(p)
    <3>1. /\ UNCHANGED <<iteration, artifacts, issued, iteration_of>>
          /\ node' = "end" /\ status' = status
      BY <2>3 DEF RejectPatch, Raise, domain, artifacts
    <3> QED BY <3>1, EarnedFrame, CompletionFrame DEF EarnedInv
  <2> QED BY <2>1, <2>2, <2>3
<1>6. CASE UNCHANGED vars
  <2>1. UNCHANGED <<iteration, artifacts, issued, iteration_of, node, selected_agent, status>>
    BY <1>6 DEF vars, domain, artifacts
  <2>2. CompletionEarned'
    BY <2>1, CompletionFrame DEF EarnedInv
  <2>3. \A i, role : Issued(i, role)' <=> Issued(i, role)
    BY <2>1, IssuedFrame
  <2>4. CompletedValidators(step_history)' = CompletedValidators(step_history)
    BY <2>1 DEF CompletedValidators, artifacts
  <2>5. InvocationInv'
    BY <2>1, <2>3 DEF EarnedInv, InvocationInv, artifacts
  <2>6. EntryInv'
    BY <2>1, <2>3 DEF EarnedInv, EntryInv, artifacts
  <2>7. RecoveryInv'
    BY <2>1, <2>4 DEF EarnedInv, RecoveryInv, artifacts
  <2> QED BY <2>2, <2>5, <2>6, <2>7 DEF EarnedInv
<1> QED
  BY <1>1, <1>2, <1>3, <1>4, <1>5, <1>6 DEF Next, RunStep

\* Whatever results and entries agents return about themselves, a completed
\* workflow has had, for every verdict it holds, an iteration of its own in
\* which all three agents were invoked: the supervisor, which sees the entries
\* and not the invocations, cannot be talked into completing early.
THEOREM CompletionIsEarned ==
  ASSUME OwnEntries
  PROVE  Spec => []CompletionEarned
<1>1. EarnedInv => CompletionEarned
  BY DEF EarnedInv
<1> QED
  BY <1>1, InitIInv, NextIInv, EarnedInit, EarnedNext, PTL DEF Spec

-----------------------------------------------------------------------------
(* Agents that follow the convention of the product agents.                  *)

\* Every third turn is the Validator's, and a cycle starts after it.
LEMMA Turns ==
  /\ \A c \in Nat : /\ Turn(3 * c + 1) = Explorer
                    /\ Turn(3 * c + 2) = Knowledge
                    /\ Turn(3 * c + 3) = Validator
  /\ \A i \in Nat \ {0} : Turn(i) \in Executable
  /\ \A i \in Nat \ {0} : Turn(i) = Validator <=> \E c \in Nat \ {0} : i = 3 * c
<1>1. \A c \in Nat : /\ (3 * c + 1 - 1) % 3 = 0
                     /\ (3 * c + 2 - 1) % 3 = 1
                     /\ (3 * c + 3 - 1) % 3 = 2
  OBVIOUS
<1>2. /\ Cycle[1] = Explorer /\ Cycle[2] = Knowledge /\ Cycle[3] = Validator
      /\ Explorer # Validator /\ Knowledge # Validator /\ Explorer # Knowledge
      /\ {Explorer, Knowledge, Validator} = Executable
  BY DEF Cycle, Explorer, Knowledge, Validator, Executable
<1>3. \A c \in Nat : /\ Turn(3 * c + 1) = Explorer
                     /\ Turn(3 * c + 2) = Knowledge
                     /\ Turn(3 * c + 3) = Validator
  BY <1>1, <1>2 DEF Turn
<1>4. \A i \in Nat \ {0} : \E c \in Nat : i = 3 * c + 1 \/ i = 3 * c + 2 \/ i = 3 * c + 3
  <2> SUFFICES ASSUME NEW i \in Nat \ {0}
               PROVE \E c \in Nat : i = 3 * c + 1 \/ i = 3 * c + 2 \/ i = 3 * c + 3
    OBVIOUS
  <2>1. /\ (i - 1) \div 3 \in Nat
        /\ i - 1 = 3 * ((i - 1) \div 3) + ((i - 1) % 3)
        /\ (i - 1) % 3 \in 0 .. 2
    OBVIOUS
  <2> QED BY <2>1
<1>5. \A i \in Nat \ {0} : Turn(i) \in Executable
  BY <1>2, <1>3, <1>4
<1>6. ASSUME NEW i \in Nat \ {0}
      PROVE  Turn(i) = Validator <=> \E c \in Nat \ {0} : i = 3 * c
  <2>1. PICK c \in Nat : i = 3 * c + 1 \/ i = 3 * c + 2 \/ i = 3 * c + 3
    BY <1>4
  <2>2. CASE i = 3 * c + 3
    <3>1. i = 3 * (c + 1) /\ c + 1 \in Nat \ {0}
      BY <2>2
    <3> QED BY <3>1, <2>2, <1>3
  <2>3. CASE i = 3 * c + 1 \/ i = 3 * c + 2
    <3>1. \A d \in Nat : i # 3 * d
      BY <2>3
    <3>2. Turn(i) # Validator
      BY <2>3, <1>2, <1>3
    <3> QED BY <3>1, <3>2
  <2> QED BY <2>1, <2>2, <2>3
<1> QED BY <1>3, <1>5, <1>6

\* The completed Validator entries stand where the cycles end.
LEMMA ValidatorSteps ==
  ASSUME TypeOK, CycleInv
  PROVE  \A i : i \in CompletedValidators(step_history) <=>
                  i \in 1 .. Len(step_history) /\ \E c \in Nat \ {0} : i = 3 * c
<1>1. DOMAIN step_history = 1 .. Len(step_history) /\ Len(step_history) \in Nat
  BY DEF TypeOK
<1>2. \A i \in 1 .. Len(step_history) :
        step_history[i] = Entry(Validator, "completed") <=> Turn(i) = Validator
  <2>1. \A i \in 1 .. Len(step_history) : step_history[i] = Entry(Turn(i), "completed")
    BY DEF CycleInv
  <2>2. \A role : Entry(role, "completed") = Entry(Validator, "completed") <=> role = Validator
    BY DEF Entry
  <2> QED BY <2>1, <2>2, Zenon
<1>3. \A i \in 1 .. Len(step_history) :
        Turn(i) = Validator <=> \E c \in Nat \ {0} : i = 3 * c
  <2>1. \A i \in 1 .. Len(step_history) : i \in Nat \ {0}
    BY <1>1
  <2> QED BY <2>1, Turns, Zenon
<1> QED BY <1>1, <1>2, <1>3 DEF CompletedValidators

\* From the end of a cycle on, the steps follow the next one.
LEMMA Window ==
  ASSUME TypeOK, CycleInv, NEW c \in Nat, NEW j \in Nat,
         3 * c <= j, j <= 3 * c + 3, j <= Len(step_history)
  PROVE  /\ Cardinality(RecoverySteps(step_history, 3 * c, j)) = j - 3 * c
         /\ FollowsCycle(step_history, RecoverySteps(step_history, 3 * c, j))
<1> DEFINE K == RecoverySteps(step_history, 3 * c, j)
<1>0. Len(step_history) \in Nat
  BY DEF TypeOK
<1>1. \A k \in 3 * c + 1 .. j :
        step_history[k] = Entry(Turn(k), "completed") /\ Turn(k) \in Executable
  BY <1>0, Turns DEF CycleInv
<1>2. K = 3 * c + 1 .. j
  <2>1. \A role : Entry(role, "completed").agent = role
    BY DEF Entry
  <2>2. \A k \in 3 * c + 1 .. j : step_history[k].agent \in Executable
    BY <1>1, <2>1, Zenon
  <2> QED BY <2>2 DEF RecoverySteps
<1>3. /\ 3 * c + 1 \in Int
      /\ \A k \in Int : k >= 3 * c => Cardinality(3 * c + 1 .. k) = k - 3 * c
  <2>1. 3 * c + 1 \in Int
    OBVIOUS
  <2>2. \A k \in Int : Cardinality(3 * c + 1 .. k) =
                        IF 3 * c + 1 > k THEN 0 ELSE k - (3 * c + 1) + 1
    BY <2>1, FS_Interval
  <2> QED BY <2>1, <2>2
<1>4. ASSUME NEW k \in K
      PROVE  step_history[k] = Entry(Cycle[Cardinality({l \in K : l <= k})], "completed")
  <2>1. k \in 3 * c + 1 .. j /\ k \in Nat
    BY <1>2
  <2>2. {l \in K : l <= k} = 3 * c + 1 .. k
    BY <1>2, <2>1
  <2>3. Cardinality({l \in K : l <= k}) = k - 3 * c
    <3>1. k \in Int /\ k >= 3 * c
      BY <2>1
    <3> QED BY <2>2, <3>1, <1>3, Zenon
  <2>4. (k - 1) % 3 = k - 1 - 3 * c
    BY <2>1
  <2>5. Turn(k) = Cycle[k - 3 * c]
    BY <2>1, <2>4 DEF Turn
  <2> QED BY <2>1, <2>3, <2>5, <1>1
<1>5. Cardinality(K) = j - 3 * c
  BY <1>2, <1>3
<1> HIDE DEF K
<1>6. FollowsCycle(step_history, K)
  BY <1>4, <1>5 DEF FollowsCycle
<1> QED BY <1>5, <1>6 DEF K

\* The supervisor accepts every state such agents produce and asks for the
\* agent whose turn it is.
LEMMA ConventionPolicy ==
  ASSUME TypeOK, CycleInv
  PROVE  /\ ~ PolicyRejects
         /\ ~ ValidationPassed(validation_results) =>
              WantedAgent = Turn(Len(step_history) + 1)
<1> DEFINE h == step_history
           n == Len(step_history)
           whole == Len(validation_results)
<1>1. /\ n \in Nat /\ whole \in Nat
      /\ n >= 3 * whole /\ n <= 3 * whole + 2
      /\ evidence \in Nat /\ knowledge_candidates \in Nat
      /\ DOMAIN validation_results = 1 .. whole
      /\ validation_results # <<>> <=> whole > 0
  BY DEF TypeOK, CycleInv
<1>2. (evidence > 0 <=> n > 0) /\ (knowledge_candidates > 0 <=> n > 1)
  <2>1. /\ evidence = IF n > 3 * whole THEN whole + 1 ELSE whole
        /\ knowledge_candidates = IF n > 3 * whole + 1 THEN whole + 1 ELSE whole
    BY DEF CycleInv
  <2> HIDE DEF n, whole
  <2> QED BY <1>1, <2>1
<1>3. WholeCyclesBetween(h)
  <2> SUFFICES ASSUME NEW i \in CompletedValidators(h),
                      NEW j \in CompletedValidators(h), Consecutive(h, i, j)
               PROVE  /\ Cardinality(RecoverySteps(h, i, j)) = 3
                      /\ FollowsCycle(h, RecoverySteps(h, i, j))
    BY DEF WholeCyclesBetween
  <2>1. PICK c \in Nat \ {0} : i = 3 * c
    BY ValidatorSteps
  <2>2. PICK d \in Nat \ {0} : j = 3 * d
    BY ValidatorSteps
  <2>3. j \in 1 .. n
    BY ValidatorSteps
  <2>4. i < j
    BY DEF Consecutive
  <2>5. ~ (i < 3 * (c + 1) /\ 3 * (c + 1) < j)
    <3>1. ASSUME 3 * (c + 1) < j PROVE 3 * (c + 1) \in CompletedValidators(h)
      <4>1. 3 * (c + 1) \in 1 .. n /\ c + 1 \in Nat \ {0}
        BY <3>1, <2>1, <2>3, <1>1
      <4> QED BY <4>1, ValidatorSteps
    <3> QED BY <3>1 DEF Consecutive
  <2>6. j = 3 * c + 3
    BY <2>1, <2>2, <2>4, <2>5
  <2> QED BY <2>1, <2>3, <2>6, <1>1, Window
<1>4. validation_results # <<>> => HistoryAccepted(h, validation_results)
  <2>1. Cardinality(CompletedValidators(h)) = whole
    BY DEF CycleInv
  <2>2. \A r \in 1 .. whole : validation_results[r] \in {"passed", "failed"}
    BY DEF CycleInv
  <2>3. \A r \in 1 .. whole - 1 : validation_results[r] # "passed"
    BY DEF CycleInv
  <2> QED BY <1>1, <1>3, <2>1, <2>2, <2>3 DEF HistoryAccepted
<1>5. ASSUME whole > 0
      PROVE  /\ Cardinality(RecoveryPrefix(h)) = n - 3 * whole
             /\ FollowsCycle(h, RecoveryPrefix(h))
  <2> DEFINE Latest(i) == \A j \in CompletedValidators(h) : j <= i
             last == CHOOSE i \in CompletedValidators(h) : Latest(i)
  <2>1. 3 * whole \in CompletedValidators(h)
    BY <1>1, <1>5, ValidatorSteps
  <2>2. \A j \in CompletedValidators(h) : j <= 3 * whole
    <3> SUFFICES ASSUME NEW j \in CompletedValidators(h) PROVE j <= 3 * whole
      OBVIOUS
    <3>1. j \in 1 .. n /\ \E c \in Nat \ {0} : j = 3 * c
      BY ValidatorSteps
    <3> QED BY <3>1, <1>1
  <2>3. last \in CompletedValidators(h) /\ Latest(last)
    BY <2>1, <2>2, Zenon
  <2>4. last \in 1 .. n
    BY <2>3, ValidatorSteps
  <2>5. 3 * whole <= last /\ last <= 3 * whole
    BY <2>1, <2>2, <2>3
  <2>6. last = 3 * whole
    BY <2>4, <2>5, <1>1
  <2>7. RecoveryPrefix(h) = RecoverySteps(h, 3 * whole, n)
    BY <2>6 DEF RecoveryPrefix
  <2> QED BY <2>7, <1>1, Window
<1>6. whole > 0 => RecoveryAccepted(h)
  BY <1>1, <1>5 DEF RecoveryAccepted
<1>7. ~ PolicyRejects
  BY <1>1, <1>2, <1>4, <1>6 DEF PolicyRejects
<1>8. WantedAgent = Turn(n + 1)
  <2>1. CASE n = 0
    BY <2>1, <1>1, <1>2, Turns DEF WantedAgent
  <2>2. CASE n = 1
    BY <2>2, <1>1, <1>2, Turns DEF WantedAgent
  <2>3. CASE n = 2
    BY <2>3, <1>1, <1>2, Turns DEF WantedAgent
  <2>4. CASE n > 2
    <3>1. WantedAgent = Cycle[Cardinality(RecoveryPrefix(h)) + 1]
      BY <2>4, <1>1, <1>2 DEF WantedAgent
    <3>2. Cardinality(RecoveryPrefix(h)) = n - 3 * whole
      BY <2>4, <1>1, <1>5
    <3>3. ((n + 1) - 1) % 3 = n - 3 * whole
      BY <1>1
    <3>4. Turn(n + 1) = Cycle[(((n + 1) - 1) % 3) + 1]
      BY Zenon DEF Turn
    <3> QED BY <3>1, <3>2, <3>3, <3>4, Zenon
  <2>5. n = 0 \/ n = 1 \/ n = 2 \/ n > 2
    <3>1. n \in Nat
      BY <1>1
    <3> HIDE DEF n
    <3> QED BY <3>1
  <2> QED BY <2>1, <2>2, <2>3, <2>4, <2>5, Zenon
<1> QED BY <1>7, <1>8

\* A step that leaves the artifacts alone keeps the cycle.
LEMMA CycleFrame ==
  ASSUME CycleInv, UNCHANGED <<artifacts, iteration>>,
         ValidationPassed(validation_results) => node' \in {"supervisor", "end"},
         node' \in {"execute", "agent"} =>
           selected_agent' = Turn(Len(step_history) + 1),
         outcome' \in {None, "returned"} =>
           outcome \in {None, "returned"} /\ (node' = "agent" <=> node = "agent")
  PROVE  CycleInv'
BY DEF CycleInv, artifacts

\* A successful agent adds the entry and the artifact of its turn.
LEMMA CycleGrows ==
  ASSUME TypeOK, CycleInv, node = "agent", outcome = None,
         NEW p \in SuccessPatches(selected_agent), FinishAgent(p)
  PROVE  CycleInv' /\ errors' = errors
<1> DEFINE n == Len(step_history)
           whole == Len(validation_results)
           e == Entry(selected_agent, "completed")
           role == selected_agent
<1> USE DEF FinishAgent
<1>1. /\ n \in Nat /\ whole \in Nat /\ n >= 3 * whole /\ n <= 3 * whole + 2
      /\ evidence \in Nat /\ knowledge_candidates \in Nat /\ errors \in Nat
      /\ iteration = whole + 1
      /\ step_history \in Seq(Invocation) /\ validation_results \in Seq(Verdict)
      /\ DOMAIN step_history = 1 .. n /\ DOMAIN validation_results = 1 .. whole
  BY DEF TypeOK, CycleInv
<1>2. role = Turn(n + 1) /\ ~ ValidationPassed(validation_results)
  BY DEF CycleInv
<1>3. \A r \in 1 .. whole : validation_results[r] = "failed"
  <2>1. \A r \in 1 .. whole - 1 : validation_results[r] = "failed"
    BY DEF CycleInv
  <2>2. \A r \in 1 .. whole : validation_results[r] \in {"passed", "failed"}
    BY DEF CycleInv
  <2>3. whole > 0 => validation_results[whole] # "passed"
    BY <1>1, <1>2 DEF ValidationPassed, LatestResult
  <2> QED BY <2>1, <2>2, <2>3, <1>1
<1>4. /\ Explorer # Knowledge /\ Explorer # Validator /\ Knowledge # Validator
      /\ n = 3 * whole => role = Explorer
      /\ n = 3 * whole + 1 => role = Knowledge
      /\ n = 3 * whole + 2 => role = Validator
      /\ role \in Executable
  <2>1. \A c \in Nat : /\ Turn(3 * c + 1) = Explorer
                       /\ Turn((3 * c + 1) + 1) = Knowledge
                       /\ Turn((3 * c + 2) + 1) = Validator
    <3>1. \A c \in Nat : (3 * c + 1) + 1 = 3 * c + 2 /\ (3 * c + 2) + 1 = 3 * c + 3
      OBVIOUS
    <3> QED BY <3>1, Turns
  <2>2. n + 1 \in Nat \ {0}
    BY <1>1
  <2>3. role \in Executable
    BY <1>2, <2>2, Turns
  <2> QED BY <1>1, <1>2, <2>1, <2>3 DEF Explorer, Knowledge, Validator
<1>4a. n = 3 * whole \/ n = 3 * whole + 1 \/ n = 3 * whole + 2
  <2> HIDE DEF n, whole
  <2> QED BY <1>1
<1>5. /\ p.step_history = <<e>> /\ p.errors = 0
      /\ p.evidence = IF role = Explorer THEN 1 ELSE 0
      /\ p.knowledge_candidates = IF role = Knowledge THEN 1 ELSE 0
      /\ role # Validator => p.validation_results = <<>>
      /\ role = Validator => \E v \in {"passed", "failed"} : p.validation_results = <<v>>
  <2> DEFINE done == [EmptyPatch EXCEPT !.step_history = <<e>>]
  <2>1. /\ done.step_history = <<e>> /\ done.errors = 0 /\ done.evidence = 0
        /\ done.knowledge_candidates = 0 /\ done.validation_results = <<>>
        /\ DOMAIN done = DOMAIN EmptyPatch
        /\ done = [f \in DOMAIN EmptyPatch |-> done[f]]
        /\ DOMAIN EmptyPatch = {"evidence", "knowledge_candidates", "validation_results",
                                "step_history", "errors", "routing", "rewinds"}
    BY DEF EmptyPatch
  <2> HIDE DEF done, e
  <2>2. CASE role = Explorer
    <3>1. p = [done EXCEPT !.evidence = 1]
      BY <2>2, <1>4 DEF SuccessPatches, done, e
    <3> QED BY <3>1, <2>1, <2>2, <1>4
  <2>3. CASE role = Knowledge
    <3>1. p = [done EXCEPT !.knowledge_candidates = 1]
      BY <2>3, <1>4 DEF SuccessPatches, done, e
    <3> QED BY <3>1, <2>1, <2>3, <1>4
  <2>4. CASE role = Validator
    <3>1. \E v \in {"passed", "failed"} : p = [done EXCEPT !.validation_results = <<v>>]
      BY <2>4, <1>4 DEF SuccessPatches, done, e
    <3>2. PICK v \in {"passed", "failed"} : p = [done EXCEPT !.validation_results = <<v>>]
      BY <3>1
    <3> QED BY <3>2, <2>1, <2>4, <1>4
  <2> QED BY <2>2, <2>3, <2>4, <1>4 DEF Executable
<1>6. e \in Invocation
  BY <1>4 DEF Entry, Invocation
<1>7. /\ Len(step_history') = n + 1 /\ DOMAIN step_history' = 1 .. n + 1
      /\ \A i \in 1 .. n : step_history'[i] = step_history[i]
      /\ step_history'[n + 1] = e
  <2>1. step_history' = step_history \o <<e>>
    BY <1>5
  <2> HIDE DEF e
  <2> QED BY <1>1, <1>6, <2>1
<1>8. \A i \in 1 .. n + 1 : step_history'[i] = Entry(Turn(i), "completed")
  <2>1. \A i \in 1 .. n : step_history[i] = Entry(Turn(i), "completed")
    BY DEF CycleInv
  <2>2. step_history'[n + 1] = Entry(Turn(n + 1), "completed")
    BY <1>2, <1>7
  <2>3. \A i \in 1 .. n + 1 : i = n + 1 \/ i \in 1 .. n
    BY <1>1, NextIndex, Zenon
  <2> QED BY <1>7, <2>1, <2>2, <2>3, Zenon
<1>9. CompletedValidators(step_history') =
        CompletedValidators(step_history) \cup (IF role = Validator THEN {n + 1} ELSE {})
  <2>1. e = Entry(Validator, "completed") <=> role = Validator
    BY DEF Entry
  <2>2. \A i : i \in 1 .. n + 1 <=> (i \in 1 .. n \/ i = n + 1)
    BY <1>1, NextIndex, Zenon
  <2> HIDE DEF e
  <2> QED BY <1>1, <1>7, <2>1, <2>2 DEF CompletedValidators
<1>10. Cardinality(CompletedValidators(step_history')) =
         whole + (IF role = Validator THEN 1 ELSE 0)
  <2> DEFINE V == CompletedValidators(step_history)
  <2>1. V \in SUBSET (1 .. n) /\ Cardinality(V) = whole
    BY <1>1 DEF CompletedValidators, CycleInv
  <2>2. IsFiniteSet(1 .. n)
    BY <1>1, FS_Interval
  <2>3. IsFiniteSet(V)
    BY <2>1, <2>2, FS_Subset
  <2>4. n + 1 \notin V
    BY <1>1, <2>1
  <2> HIDE DEF V
  <2>5. Cardinality(V \cup {n + 1}) = whole + 1
    BY <2>1, <2>3, <2>4, FS_AddElement
  <2>6. V \cup {} = V
    OBVIOUS
  <2>7. CASE role = Validator
    BY <1>9, <2>5, <2>7 DEF V
  <2>8. CASE role # Validator
    BY <1>1, <1>9, <2>1, <2>6, <2>8 DEF V
  <2> QED BY <2>7, <2>8
<1>11. /\ node' = "supervisor" /\ errors' = errors /\ iteration' = whole + 1
       /\ evidence' = evidence + (IF role = Explorer THEN 1 ELSE 0)
       /\ knowledge_candidates' =
            knowledge_candidates + (IF role = Knowledge THEN 1 ELSE 0)
  BY <1>1, <1>5
<1>12. /\ evidence = IF n > 3 * whole THEN whole + 1 ELSE whole
       /\ knowledge_candidates = IF n > 3 * whole + 1 THEN whole + 1 ELSE whole
  BY DEF CycleInv
<1>13. /\ evidence' = whole + 1
       /\ knowledge_candidates' = IF role = Explorer THEN whole ELSE whole + 1
  <2> HIDE DEF n, whole, role, FinishAgent
  <2>1. CASE n = 3 * whole
    BY <2>1, <1>1, <1>4, <1>11, <1>12
  <2>2. CASE n = 3 * whole + 1
    BY <2>2, <1>1, <1>4, <1>11, <1>12
  <2>3. CASE n = 3 * whole + 2
    BY <2>3, <1>1, <1>4, <1>11, <1>12
  <2> QED BY <1>4a, <2>1, <2>2, <2>3
<1>14. CASE role # Validator
  <2>1. validation_results' = validation_results
    <3>1. validation_results' = validation_results \o <<>>
      BY <1>5, <1>14
    <3> HIDE DEF FinishAgent
    <3> QED BY <3>1, <1>1
  <2>2. /\ n + 1 \in 3 * whole .. 3 * whole + 2 /\ n + 1 > 3 * whole
        /\ role = Explorer <=> ~ (n + 1 > 3 * whole + 1)
    <3> HIDE DEF n, whole, role, FinishAgent
    <3> QED BY <1>1, <1>4, <1>4a, <1>14
  <2>3. Cardinality(CompletedValidators(step_history')) = whole
    BY <1>1, <1>10, <1>14
  <2> HIDE DEF FinishAgent
  <2>4. ~ ValidationPassed(validation_results')
    BY <1>2, <2>1
  <2> QED
    BY <1>1, <1>3, <1>7, <1>8, <1>11, <1>13, <2>1, <2>2, <2>3, <2>4 DEF CycleInv
<1>15. CASE role = Validator
  <2>1. PICK v \in {"passed", "failed"} : p.validation_results = <<v>>
    BY <1>5, <1>15
  <2>2. validation_results' = validation_results \o <<v>>
    BY <2>1
  <2>3. /\ Len(validation_results') = whole + 1
        /\ \A r \in 1 .. whole : validation_results'[r] = "failed"
        /\ validation_results'[whole + 1] = v
    BY <1>1, <1>3, <2>2 DEF Verdict
  <2> HIDE DEF FinishAgent
  <2>4. n = 3 * whole + 2
    <3>1. n # 3 * whole /\ n # 3 * whole + 1
      BY <1>4, <1>15, Zenon
    <3> QED BY <3>1, <1>4a, Zenon
  <2>5. \A r \in 1 .. whole + 1 : validation_results'[r] \in {"passed", "failed"}
    BY <1>1, <2>3
  <2>6. /\ n + 1 = 3 * (whole + 1) /\ (whole + 1) - 1 = whole
        /\ n + 1 \in 3 * (whole + 1) .. 3 * (whole + 1) + 2
        /\ ~ (n + 1 > 3 * (whole + 1)) /\ ~ (n + 1 > 3 * (whole + 1) + 1)
    <3> HIDE DEF n, whole
    <3> QED BY <1>1, <2>4
  <2>7. Cardinality(CompletedValidators(step_history')) = whole + 1
    BY <1>1, <1>10, <1>15
  <2> QED
    BY <1>4, <1>7, <1>8, <1>11, <1>13, <1>15, <2>3, <2>5, <2>6, <2>7 DEF CycleInv
<1> QED BY <1>11, <1>14, <1>15

\* A fresh workflow has not begun a cycle.
LEMMA ConventionInit == Init => ConventionInv
<1> SUFFICES ASSUME Init PROVE ConventionInv
  OBVIOUS
<1>1. CompletedValidators(step_history) = {}
  BY DEF Init, CompletedValidators
<1>2. Cardinality(CompletedValidators(step_history)) = 0
  BY <1>1, FS_EmptySet
<1>3. Len(step_history) = 0 /\ Len(validation_results) = 0
  BY DEF Init
<1>4. CycleInv
  BY <1>2, <1>3 DEF Init, CycleInv, ValidationPassed
<1> QED
  BY <1>4 DEF Init, ConventionInv, ConventionAccepted, LimitEndsWholeCycles, None

\* A step of the supervisor or an exception keeps the invariant when it leaves
\* the artifacts alone, runs no agent it may not run and does not terminate.
LEMMA ConventionFrame ==
  ASSUME ConventionInv, UNCHANGED <<artifacts, iteration>>,
         status' = "terminated" => status = "terminated",
         outcome' # "policy_error", node' # "end" => outcome' = None,
         node' \in {"execute", "agent"} =>
           /\ errors = 0 /\ ~ ValidationPassed(validation_results)
           /\ selected_agent' = Turn(Len(step_history) + 1),
         outcome' \in {None, "returned"} =>
           outcome \in {None, "returned"} /\ (node' = "agent" <=> node = "agent"),
         node' \in {"supervisor", "execute", "agent", "end"}
  PROVE  ConventionInv'
<1>1. errors' = errors /\ validation_results' = validation_results
  BY DEF artifacts
<1>2. errors = 0 => CycleInv'
  BY CycleFrame DEF ConventionInv
<1>3. LimitEndsWholeCycles'
  BY <1>1 DEF ConventionInv, LimitEndsWholeCycles
<1> QED BY <1>1, <1>2, <1>3 DEF ConventionInv, ConventionAccepted

\* The limit stops a workflow between two cycles.
LEMMA ConventionLimit ==
  ASSUME IInv, ConventionInv, SuperviseLimit PROVE ConventionInv'
<1> DEFINE n == Len(step_history)
           whole == Len(validation_results)
<1> USE DEF SuperviseLimit, Supervise, StartSuperstep, Finish, Return
<1>1. CycleInv /\ TypeOK /\ outcome = None
  BY DEF ConventionInv, IInv
<1>2. n \in Nat /\ whole \in Nat /\ n >= 3 * whole /\ n <= 3 * whole + 2
  BY <1>1 DEF TypeOK, CycleInv
<1>3. Turn(n + 1) = Explorer
  BY <1>1, ConventionPolicy DEF AtIterationLimit
<1>4. n = 3 * whole
  <2>1. Turn((3 * whole + 1) + 1) = Knowledge /\ Turn((3 * whole + 2) + 1) = Validator
    <3>1. (3 * whole + 1) + 1 = 3 * whole + 2 /\ (3 * whole + 2) + 1 = 3 * whole + 3
      BY <1>2
    <3> QED BY <1>2, <3>1, Turns
  <2>2. n # 3 * whole + 1 /\ n # 3 * whole + 2
    BY <1>3, <2>1 DEF Explorer, Knowledge, Validator
  <2> HIDE DEF n, whole
  <2> QED BY <1>2, <2>2
<1>5. iteration = whole
  BY <1>1, <1>2, <1>4 DEF CycleInv
<1>6. iteration = MaxIterations
  BY <1>1, WorkflowAssumption DEF AtIterationLimit, TypeOK
<1>7. \A r \in 1 .. whole : validation_results[r] = "failed"
  <2>1. \A r \in 1 .. whole - 1 : validation_results[r] = "failed"
    BY <1>1 DEF CycleInv
  <2>2. \A r \in 1 .. whole : validation_results[r] \in {"passed", "failed"}
    BY <1>1 DEF CycleInv
  <2>3. whole > 0 => validation_results[whole] # "passed"
    BY <1>1, <1>2 DEF ValidationPassed, LatestResult
  <2> QED BY <1>2, <2>1, <2>2, <2>3
<1>8. LimitEndsWholeCycles'
  <2>1. DOMAIN validation_results = 1 .. whole
    BY <1>1 DEF TypeOK
  <2>2. iteration' = iteration /\ validation_results' = validation_results
    BY DEF artifacts
  <2> QED BY <1>5, <1>6, <1>7, <2>1, <2>2 DEF LimitEndsWholeCycles
<1>9. CycleInv'
  BY <1>1, CycleFrame
<1> QED BY <1>8, <1>9 DEF ConventionInv, ConventionAccepted

\* The agent that starts is the one whose turn it is; an Explorer opens a cycle.
LEMMA ConventionStart ==
  ASSUME IInv, ConventionInv, StartAgent PROVE ConventionInv'
<1> DEFINE n == Len(step_history)
           whole == Len(validation_results)
<1> USE DEF StartAgent, StartSuperstep
<1>1. CycleInv /\ TypeOK /\ outcome = None /\ errors = 0 /\ status \notin Terminal
  BY DEF ConventionInv, IInv, LifecycleInv
<1>2. /\ n \in Nat /\ whole \in Nat /\ n >= 3 * whole /\ n <= 3 * whole + 2
      /\ iteration = IF n > 3 * whole THEN whole + 1 ELSE whole
      /\ selected_agent = Turn(n + 1)
      /\ ~ ValidationPassed(validation_results)
  BY <1>1 DEF TypeOK, CycleInv
<1>3. iteration' = whole + 1
  <2>1. /\ Turn(3 * whole + 1) = Explorer
        /\ Turn((3 * whole + 1) + 1) = Knowledge /\ Turn((3 * whole + 2) + 1) = Validator
    <3>1. (3 * whole + 1) + 1 = 3 * whole + 2 /\ (3 * whole + 2) + 1 = 3 * whole + 3
      BY <1>2
    <3> QED BY <1>2, <3>1, Turns
  <2>2. iteration' = IF Turn(n + 1) = Explorer THEN iteration + 1 ELSE iteration
    BY <1>2 DEF IterationAfter
  <2>3. Knowledge # Explorer /\ Validator # Explorer
    BY DEF Knowledge, Validator, Explorer
  <2> HIDE DEF n, whole, StartAgent
  <2>4. CASE n = 3 * whole
    BY <1>2, <2>1, <2>2, <2>4
  <2>5. CASE n = 3 * whole + 1
    BY <1>2, <2>1, <2>2, <2>3, <2>5
  <2>6. CASE n = 3 * whole + 2
    BY <1>2, <2>1, <2>2, <2>3, <2>6
  <2>7. n = 3 * whole \/ n = 3 * whole + 1 \/ n = 3 * whole + 2
    BY <1>2
  <2> QED BY <2>4, <2>5, <2>6, <2>7
<1>4. CycleInv'
  BY <1>1, <1>2, <1>3 DEF CycleInv, artifacts
<1>5. LimitEndsWholeCycles'
  BY <1>1 DEF LimitEndsWholeCycles, Terminal
<1> QED BY <1>1, <1>4, <1>5 DEF ConventionInv, ConventionAccepted, artifacts

\* An agent that follows the convention adds its artifact or reports an error.
LEMMA ConventionReturns ==
  ASSUME Patches = HonestPatches, IInv, ConventionInv, AgentReturns
  PROVE  ConventionInv'
<1>1. /\ node = "agent" /\ selected_agent \in Executable
      /\ CycleInv /\ TypeOK /\ outcome = None /\ errors = 0 /\ status \notin Terminal
  BY DEF AgentReturns, ConventionInv, IInv, RoutingInv, LifecycleInv
<1>2. PICK p \in SuccessPatches(selected_agent) \cup {FailurePatch(selected_agent)} :
        FinishAgent(p) \/ RejectPatch(p)
  BY <1>1 DEF AgentReturns, HonestPatches
<1>3. CASE RejectPatch(p)
  BY <1>1, <1>3, ConventionFrame DEF RejectPatch, Raise, domain, artifacts, None
<1>4. CASE FinishAgent(p)
  <2>1. LimitEndsWholeCycles' /\ outcome' = None /\ node' = "supervisor"
    BY <1>1, <1>4 DEF FinishAgent, LimitEndsWholeCycles, Terminal
  <2>2. CASE p = FailurePatch(selected_agent)
    <3>1. p.errors = 1
      BY <2>2 DEF FailurePatch, EmptyPatch
    <3>2. errors' # 0
      BY <1>1, <1>4, <3>1 DEF FinishAgent
    <3> QED BY <2>1, <3>2 DEF ConventionInv, ConventionAccepted, None
  <2>3. CASE p \in SuccessPatches(selected_agent)
    <3>1. CycleInv' /\ errors' = errors
      BY <1>1, <1>4, <2>3, CycleGrows
    <3> QED BY <1>1, <2>1, <3>1 DEF ConventionInv, ConventionAccepted, None
  <2> QED BY <1>2, <2>2, <2>3
<1> QED BY <1>2, <1>3, <1>4

\* With agents that follow the convention, every step keeps the invariant.
LEMMA ConventionNext ==
  ASSUME Patches = HonestPatches
  PROVE  IInv /\ ConventionInv /\ [Next]_vars => ConventionInv'
<1> SUFFICES ASSUME IInv, ConventionInv, [Next]_vars PROVE ConventionInv'
  OBVIOUS
<1>1. /\ node # "end" => outcome = None
      /\ node \in {"execute", "agent"} => errors = 0
      /\ errors = 0 => CycleInv
      /\ outcome # "policy_error" /\ TypeOK
  BY DEF ConventionInv, ConventionAccepted, IInv
<1>2. CASE SuperviseTerminal
  BY <1>1, <1>2, ConventionFrame
     DEF SuperviseTerminal, StartSuperstep, Return, domain, artifacts, None
<1>3. CASE SuperviseFail
  BY <1>1, <1>3, ConventionFrame
     DEF SuperviseFail, Supervise, StartSuperstep, Finish, Return, None
<1>4. CASE SuperviseReject
  BY <1>1, <1>4, ConventionPolicy DEF SuperviseReject
<1>5. CASE SuperviseComplete
  BY <1>1, <1>5, ConventionFrame
     DEF SuperviseComplete, Supervise, StartSuperstep, Finish, Return, None
<1>6. CASE SuperviseLimit
  BY <1>6, ConventionLimit
<1>7. CASE SuperviseRoute
  <2>1. WantedAgent = Turn(Len(step_history) + 1)
    BY <1>1, <1>7, ConventionPolicy DEF SuperviseRoute
  <2> QED
    BY <1>1, <1>7, <2>1, ConventionFrame DEF SuperviseRoute, Supervise, StartSuperstep, None
<1>8. CASE StartAgent
  BY <1>8, ConventionStart
<1>9. CASE AgentReturns
  BY <1>9, ConventionReturns
<1>10. CASE AgentRaises
  BY <1>1, <1>10, ConventionFrame DEF AgentRaises, Raise, domain, artifacts, None
<1>11. CASE RecursionLimit
  BY <1>1, <1>11, ConventionFrame DEF RecursionLimit, Raise, domain, artifacts, None
<1>12. CASE Rerun
  BY <1>1, <1>12, ConventionFrame DEF Rerun, domain, artifacts, None
<1>13. CASE UNCHANGED vars
  <2>1. CycleInv => CycleInv'
    BY <1>13 DEF vars, domain, artifacts, CycleInv
  <2> QED
    BY <1>1, <1>13, <2>1
       DEF vars, domain, ConventionInv, ConventionAccepted, LimitEndsWholeCycles
<1> QED
  BY <1>2, <1>3, <1>4, <1>5, <1>6, <1>7, <1>8, <1>9, <1>10, <1>11, <1>12,
     <1>13 DEF Next, RunStep

\* Whatever agents that follow the convention do, and whatever the limits are,
\* the supervisor refuses no state they produce, and the iteration limit ends
\* a workflow only after the last cycle it allows has its failed verdict.
THEOREM ConventionIsAccepted ==
  ASSUME Patches = HonestPatches
  PROVE  Spec => [](ConventionAccepted /\ LimitEndsWholeCycles)
<1>1. ConventionInv => ConventionAccepted /\ LimitEndsWholeCycles
  BY DEF ConventionInv
<1> QED
  BY <1>1, InitIInv, NextIInv, ConventionInit, ConventionNext, PTL DEF Spec

\* Between two decisions the phase of the cycle depends on the artifacts, the
\* iteration and whether the workflow has ended.
LEMMA PhaseFrame ==
  ASSUME UNCHANGED <<artifacts, iteration>>,
         status \in Terminal \/ status' \in Terminal => status' = status
  PROVE  UNCHANGED <<CyclePhase, iteration>>
BY DEF CyclePhase, artifacts

\* What the phase says of an undisturbed workflow that is still running.
Undisturbed ==
  TypeOK /\ CycleInv /\ errors = 0 /\ status \notin Terminal
    /\ ~ ValidationPassed(validation_results)

PhaseMatches ==
  LET n == Len(step_history)
      whole == Len(validation_results)
  IN /\ n = 3 * whole =>
          CyclePhase = IF iteration = whole THEN "explore" ELSE "exploring"
     /\ n = 3 * whole + 1 => CyclePhase = "learn"
     /\ n = 3 * whole + 2 => CyclePhase = "validate"

LEMMA PhaseOfCycle == Undisturbed => PhaseMatches
<1> SUFFICES ASSUME Undisturbed PROVE PhaseMatches
  OBVIOUS
<1> USE DEF Undisturbed, PhaseMatches
<1> DEFINE n == Len(step_history)
           whole == Len(validation_results)
<1>1. n \in Nat /\ whole \in Nat /\ iteration \in Nat /\ MaxIterations \in Nat
  BY WorkflowAssumption DEF TypeOK
<1>2. CyclePhase = IF n % 3 = 1 THEN "learn"
                   ELSE IF n % 3 = 2 THEN "validate"
                   ELSE IF iteration * 3 = n THEN "explore" ELSE "exploring"
  BY DEF CyclePhase
<1> HIDE DEF n, whole
<1>3. CASE n = 3 * whole
  <2>1. n % 3 = 0 /\ (iteration * 3 = n <=> iteration = whole)
    BY <1>1, <1>3
  <2> QED BY <1>2, <1>3, <2>1, <1>1 DEF n, whole
<1>4. CASE n = 3 * whole + 1
  <2>1. n % 3 = 1
    BY <1>1, <1>4
  <2> QED BY <1>2, <1>4, <2>1, <1>1 DEF n, whole
<1>5. CASE n = 3 * whole + 2
  <2>1. n % 3 = 2
    BY <1>1, <1>5
  <2> QED BY <1>2, <1>5, <2>1, <1>1 DEF n, whole
<1>6. CASE n # 3 * whole /\ n # 3 * whole + 1 /\ n # 3 * whole + 2
  BY <1>6 DEF n, whole
<1> QED BY <1>3, <1>4, <1>5, <1>6

\* An agent's return moves the cycle on, or breaks it.
LEMMA ReturnRefines ==
  ASSUME Patches = HonestPatches, IInv, IInv', ConventionInv, ConventionInv', AgentReturns
  PROVE  Abstract!Next \/ UNCHANGED <<CyclePhase, iteration>>
<1> DEFINE n == Len(step_history)
           whole == Len(validation_results)
<1>1. /\ node = "agent" /\ selected_agent \in Executable
      /\ CycleInv /\ TypeOK /\ outcome = None /\ errors = 0 /\ status \notin Terminal
  BY DEF AgentReturns, ConventionInv, IInv, RoutingInv, LifecycleInv
<1>2. PICK p \in SuccessPatches(selected_agent) \cup {FailurePatch(selected_agent)} :
        FinishAgent(p) \/ RejectPatch(p)
  BY <1>1 DEF AgentReturns, HonestPatches
<1>3. CASE RejectPatch(p)
  BY <1>1, <1>3, PhaseFrame DEF RejectPatch, Raise, domain, artifacts
<1>4. CASE FinishAgent(p)
  <2>1. /\ n \in Nat /\ whole \in Nat /\ n >= 3 * whole /\ n <= 3 * whole + 2
        /\ ~ ValidationPassed(validation_results) /\ iteration = whole + 1
    BY <1>1 DEF TypeOK, CycleInv
  <2>2. n = 3 * whole \/ n = 3 * whole + 1 \/ n = 3 * whole + 2
    <3> HIDE DEF n, whole
    <3> QED BY <2>1
  <2>3. /\ n = 3 * whole => CyclePhase = "exploring"
        /\ n = 3 * whole + 1 => CyclePhase = "learn"
        /\ n = 3 * whole + 2 => CyclePhase = "validate"
    BY <1>1, <2>1, PhaseOfCycle DEF Undisturbed, PhaseMatches
  <2>4. iteration' = iteration /\ status' \notin Terminal
    BY <1>1, <1>4 DEF FinishAgent
  <2>5. CASE errors' # 0
    <3>1. errors' > 0
      BY <2>5 DEF IInv, TypeOK
    <3>2. CyclePhase' = "broken"
      BY <2>4, <3>1 DEF CyclePhase
    <3> QED
      BY <2>2, <2>3, <2>4, <3>2
         DEF Abstract!Next, Abstract!Explored, Abstract!Learned, Abstract!Validated,
             Abstract!Move
  <2>6. CASE errors' = 0
    <3> DEFINE m == Len(step_history')
               done == Len(validation_results')
    <3>1. CycleInv' /\ TypeOK'
      BY <2>6 DEF ConventionInv, IInv
    <3>2. m = n + 1
      <4>1. \E e : p.step_history = <<e>>
        BY <1>2 DEF SuccessPatches, FailurePatch, EmptyPatch
      <4>2. PICK e : step_history' = step_history \o <<e>>
        BY <1>4, <4>1 DEF FinishAgent
      <4>3. step_history \in Seq(Invocation)
        BY <1>1 DEF TypeOK
      <4> QED BY <4>2, <4>3
    <3>3. /\ done \in Nat /\ m >= 3 * done /\ m <= 3 * done + 2
          /\ ValidationPassed(validation_results') => m = 3 * done
      BY <3>1 DEF CycleInv, TypeOK
    <3>4. Undisturbed' <=> ~ ValidationPassed(validation_results')
      BY <2>4, <2>6, <3>1 DEF Undisturbed
    <3>5. Undisturbed' => PhaseMatches'
      BY PhaseOfCycle, PTL
    <3>6. /\ ~ ValidationPassed(validation_results') => PhaseMatches'
          /\ ValidationPassed(validation_results') => CyclePhase' = "accepted"
      BY <2>4, <2>6, <3>4, <3>5 DEF CyclePhase
    <3>7. /\ n = 3 * whole => m = 3 * done + 1 /\ done = whole
          /\ n = 3 * whole + 1 => m = 3 * done + 2 /\ done = whole
          /\ n = 3 * whole + 2 => m = 3 * done /\ done = whole + 1
          /\ m = 3 * done + 1 \/ m = 3 * done + 2 => m # 3 * done
      <4> HIDE DEF n, whole, m, done
      <4> QED BY <2>1, <3>2, <3>3
    <3>8. CASE n = 3 * whole
      <4>1. CyclePhase' = "learn"
        BY <3>3, <3>6, <3>7, <3>8 DEF PhaseMatches
      <4> QED BY <2>3, <2>4, <3>8, <4>1 DEF Abstract!Next, Abstract!Explored, Abstract!Move
    <3>9. CASE n = 3 * whole + 1
      <4>1. CyclePhase' = "validate"
        BY <3>3, <3>6, <3>7, <3>9 DEF PhaseMatches
      <4> QED BY <2>3, <2>4, <3>9, <4>1 DEF Abstract!Next, Abstract!Learned, Abstract!Move
    <3>10. CASE n = 3 * whole + 2
      <4>1. CyclePhase' \in {"accepted", "explore"}
        BY <2>1, <2>4, <3>6, <3>7, <3>10 DEF PhaseMatches
      <4> QED BY <2>3, <2>4, <3>10, <4>1 DEF Abstract!Next, Abstract!Validated, Abstract!Move
    <3> QED BY <2>2, <3>8, <3>9, <3>10
  <2> QED BY <2>5, <2>6
<1> QED BY <1>2, <1>3, <1>4

\* An agent's start opens the cycle if it is the Explorer's.
LEMMA StartRefines ==
  ASSUME IInv, ConventionInv, ConventionInv', StartAgent
  PROVE  Abstract!Next \/ UNCHANGED <<CyclePhase, iteration>>
<1> DEFINE n == Len(step_history)
           whole == Len(validation_results)
<1> USE DEF StartAgent, StartSuperstep
<1>1. /\ CycleInv /\ TypeOK /\ outcome = None /\ errors = 0 /\ status \notin Terminal
      /\ selected_agent = Explorer => iteration < MaxIterations
  BY DEF ConventionInv, IInv, LifecycleInv, RoutingInv
<1>2. CycleInv' /\ outcome' = None /\ node' = "agent"
  BY <1>1 DEF ConventionInv, artifacts
<1>3. /\ n \in Nat /\ whole \in Nat /\ n >= 3 * whole /\ n <= 3 * whole + 2
      /\ iteration = (IF n > 3 * whole THEN whole + 1 ELSE whole)
      /\ iteration' = whole + 1
      /\ ~ ValidationPassed(validation_results)
      /\ Undisturbed
  BY <1>1, <1>2 DEF TypeOK, CycleInv, artifacts, Undisturbed
<1>4. PhaseMatches
  BY <1>3, PhaseOfCycle
<1>5. CASE n = 3 * whole
  <2>1. CyclePhase = "explore" /\ iteration = whole
    BY <1>3, <1>4, <1>5 DEF PhaseMatches
  <2>2. selected_agent = Explorer
    BY <1>1, <1>3, <1>5, Turns DEF CycleInv
  <2>3. CyclePhase' = "exploring"
    <3>1. n % 3 = 0 /\ (whole + 1) * 3 # n
      <4> HIDE DEF n, whole
      <4> QED BY <1>3, <1>5
    <3>2. /\ status' \notin Terminal /\ errors' = 0
          /\ step_history' = step_history /\ validation_results' = validation_results
      BY <1>1 DEF artifacts
    <3> QED BY <1>3, <3>1, <3>2 DEF CyclePhase
  <2> QED
    BY <1>1, <1>3, <2>1, <2>2, <2>3
       DEF Abstract!Next, Abstract!BeginCycle, Abstract!Move
<1>6. CASE n # 3 * whole
  <2>1. iteration' = iteration
    <3> HIDE DEF n, whole
    <3> QED BY <1>3, <1>6
  <2> QED BY <1>1, <2>1, PhaseFrame
<1> QED BY <1>5, <1>6

\* Every step of the loop is a step of the cycle or leaves it where it is.
LEMMA StepRefines ==
  ASSUME Patches = HonestPatches
  PROVE  IInv /\ IInv' /\ ConventionInv /\ ConventionInv' /\ [Next]_vars =>
           [Abstract!Next]_<<CyclePhase, iteration>>
<1> SUFFICES ASSUME IInv, IInv', ConventionInv, ConventionInv', [Next]_vars
             PROVE  Abstract!Next \/ UNCHANGED <<CyclePhase, iteration>>
  OBVIOUS
<1>1. /\ node # "end" => outcome = None
      /\ node \in {"execute", "agent"} => errors = 0
      /\ errors = 0 => CycleInv
      /\ TypeOK
  BY DEF ConventionInv, IInv
<1>2. CASE SuperviseTerminal
  BY <1>2, PhaseFrame DEF SuperviseTerminal, StartSuperstep, Return, domain, artifacts
<1>3. CASE SuperviseFail
  <2> USE <1>3 DEF SuperviseFail, Supervise, StartSuperstep, Finish
  <2>1. CyclePhase = "broken" /\ CyclePhase' = "failed" /\ iteration' = iteration
    BY DEF CyclePhase, Terminal
  <2> QED BY <2>1 DEF Abstract!Next, Abstract!Fail, Abstract!Move
<1>4. CASE SuperviseReject
  BY <1>1, <1>4, ConventionPolicy DEF SuperviseReject
<1>5. CASE SuperviseComplete
  <2> USE <1>5 DEF SuperviseComplete, Supervise, StartSuperstep, Finish
  <2>1. CyclePhase = "accepted" /\ CyclePhase' = "completed" /\ iteration' = iteration
    BY DEF CyclePhase, Terminal
  <2> QED BY <2>1 DEF Abstract!Next, Abstract!Complete, Abstract!Move
<1>6. CASE SuperviseLimit
  <2> USE <1>6 DEF SuperviseLimit, Supervise, StartSuperstep, Finish, Return
  <2>1. /\ status' = "terminated" /\ status' \in Terminal /\ iteration' = iteration
        /\ CyclePhase' = "terminated"
    BY DEF CyclePhase, Terminal
  <2>2. iteration = MaxIterations /\ Len(validation_results) = MaxIterations
    <3>1. LimitEndsWholeCycles'
      BY DEF ConventionInv
    <3> QED BY <2>1, <3>1 DEF LimitEndsWholeCycles, artifacts
  <2>3. Undisturbed
    BY <1>1 DEF Undisturbed
  <2>4. Len(step_history) = 3 * Len(validation_results)
    <3>1. /\ Len(step_history) \in Nat /\ Len(validation_results) \in Nat
          /\ Len(step_history) >= 3 * Len(validation_results)
          /\ Len(step_history) > 3 * Len(validation_results) =>
               iteration = Len(validation_results) + 1
      BY <1>1 DEF CycleInv, TypeOK
    <3> QED BY <2>2, <3>1, WorkflowAssumption
  <2>5. CyclePhase = "explore"
    BY <2>2, <2>3, <2>4, PhaseOfCycle DEF PhaseMatches
  <2> QED BY <2>1, <2>2, <2>5 DEF Abstract!Next, Abstract!Limit, Abstract!Move
<1>7. CASE SuperviseRoute
  BY <1>7, PhaseFrame DEF SuperviseRoute, Supervise, Terminal
<1>8. CASE StartAgent
  BY <1>8, StartRefines
<1>9. CASE AgentReturns
  BY <1>9, ReturnRefines
<1>10. CASE AgentRaises
  BY <1>10, PhaseFrame DEF AgentRaises, Raise, domain, artifacts
<1>11. CASE RecursionLimit
  BY <1>11, PhaseFrame DEF RecursionLimit, Raise, domain, artifacts
<1>12. CASE Rerun
  BY <1>12, PhaseFrame DEF Rerun, domain, artifacts
<1>13. CASE UNCHANGED vars
  BY <1>13, PhaseFrame DEF vars, domain, artifacts
<1> QED
  BY <1>2, <1>3, <1>4, <1>5, <1>6, <1>7, <1>8, <1>9, <1>10, <1>11, <1>12,
     <1>13 DEF Next, RunStep

\* The loop of supervisor, reducer, runtime and graph does nothing but what
\* QACycle allows: explore, learn, validate, and again while the limit admits.
THEOREM LoopImplementsCycle ==
  ASSUME Patches = HonestPatches
  PROVE  Spec => Abstract!Init /\ [][Abstract!Next]_<<CyclePhase, iteration>>
<1>1. Init => Abstract!Init
  <2> SUFFICES ASSUME Init PROVE CyclePhase = "explore" /\ iteration = 0
    BY DEF Abstract!Init
  <2>1. Len(step_history) = 0
    BY DEF Init
  <2>2. 0 % 3 = 0
    OBVIOUS
  <2> QED BY <2>1, <2>2 DEF Init, CyclePhase, Terminal, ValidationPassed
<1> QED
  BY <1>1, InitIInv, NextIInv, ConventionInit, ConventionNext, StepRefines, PTL DEF Spec

-----------------------------------------------------------------------------
(* Calls come to an end. *)

\* A call starts no superstep beyond its limit.
LEMMA SuperstepsBounded == Spec => [](IInv /\ steps <= Supersteps)
<1>1. Init => steps <= Supersteps
  BY WorkflowAssumption DEF Init
<1>2. IInv /\ steps <= Supersteps /\ [Next]_vars => (steps <= Supersteps)'
  <2> SUFFICES ASSUME IInv, steps <= Supersteps, [Next]_vars PROVE steps' <= Supersteps
    OBVIOUS
  <2>1. steps \in Nat /\ Supersteps \in Nat
    BY WorkflowAssumption DEF IInv, TypeOK
  <2>2. \/ steps' = steps
        \/ steps < Supersteps /\ steps' = steps + 1
        \/ steps' = 0
    BY DEF Next, RunStep, SuperviseTerminal, SuperviseFail, SuperviseReject,
       SuperviseComplete, SuperviseLimit, SuperviseRoute, Supervise, StartSuperstep,
       StartAgent, AgentReturns, FinishAgent, RejectPatch, AgentRaises,
       RecursionLimit, Rerun, vars
  <2> QED BY <2>1, <2>2
<1> QED BY <1>1, <1>2, InitIInv, NextIInv, PTL DEF Spec

\* What is left of a call is a natural number, and every step of the call takes
\* from it: whatever the agents return or raise, and whatever the limits are,
\* no call of run_pmqa_workflow goes on for ever.
THEOREM CallsEnd == Spec => [](WorkLeft \in Nat) /\ CallsRunDown
<1>1. IInv /\ steps <= Supersteps => WorkLeft \in Nat
  BY WorkflowAssumption DEF IInv, TypeOK, WorkLeft
<1>2. IInv /\ steps <= Supersteps /\ [Next]_vars => [RunStep => WorkLeft' < WorkLeft]_vars
  <2> SUFFICES ASSUME IInv, steps <= Supersteps, RunStep PROVE WorkLeft' < WorkLeft
    OBVIOUS
  <2>1. steps \in Nat /\ Supersteps \in Nat
    BY WorkflowAssumption DEF IInv, TypeOK
  <2>a. node \in {"supervisor", "execute", "agent"}
    BY DEF RunStep, SuperviseTerminal, SuperviseFail, SuperviseReject,
       SuperviseComplete, SuperviseLimit, SuperviseRoute, Supervise, StartSuperstep,
       StartAgent, AgentReturns, AgentRaises, RecursionLimit
  <2>2. node # "end" /\ WorkLeft > 0
    BY <2>1, <2>a DEF WorkLeft
  <2>3. CASE node' = "end"
    BY <2>2, <2>3 DEF WorkLeft
  <2>4. CASE node' # "end"
    <3>1. \/ node = "supervisor" /\ node' = "execute" /\ steps' = steps + 1
          \/ node = "execute" /\ node' = "agent" /\ steps' = steps + 1
          \/ node = "agent" /\ node' = "supervisor" /\ steps' = steps
      BY <2>4 DEF RunStep, SuperviseTerminal, SuperviseFail, SuperviseReject,
         SuperviseComplete, SuperviseLimit, SuperviseRoute, Supervise, StartSuperstep,
         StartAgent, AgentReturns, FinishAgent, RejectPatch, AgentRaises,
         RecursionLimit, Return, Finish, Raise
    <3> QED BY <2>1, <3>1 DEF WorkLeft
  <2> QED BY <2>3, <2>4
<1> QED BY <1>1, <1>2, SuperstepsBounded, PTL DEF Spec, CallsRunDown

-----------------------------------------------------------------------------
(* A recursion limit that admits every allowed cycle. *)

\* The runtime and the reducer accept the patches of the product agents.
LEMMA HonestPatchesAccepted ==
  ASSUME selected_agent \in Executable,
         NEW p \in SuccessPatches(selected_agent) \cup {FailurePatch(selected_agent)}
  PROVE  PatchAccepted(p) /\ \E e \in Invocation : p.step_history = <<e>>
<1> DEFINE role == selected_agent
<1>0. /\ Explorer # Knowledge /\ Explorer # Validator /\ Knowledge # Validator
      /\ \A state \in {"completed", "failed"} : Entry(role, state) \in Invocation
  BY DEF Explorer, Knowledge, Validator, Entry, Invocation
<1>1. /\ ~ p.routing /\ ~ p.rewinds
      /\ \E e \in Invocation : p.step_history = <<e>>
      /\ p["evidence"] > 0 => role = Explorer
      /\ p["knowledge_candidates"] > 0 => role = Knowledge
      /\ p["validation_results"] # <<>> => role = Validator
  <2> DEFINE done == [EmptyPatch EXCEPT !.step_history = <<Entry(role, "completed")>>]
  <2>1. /\ done.step_history = <<Entry(role, "completed")>> /\ done.evidence = 0
        /\ done.knowledge_candidates = 0 /\ done.validation_results = <<>>
        /\ done.routing = FALSE /\ done.rewinds = FALSE
        /\ done = [f \in DOMAIN EmptyPatch |-> done[f]]
        /\ DOMAIN EmptyPatch = {"evidence", "knowledge_candidates", "validation_results",
                                "step_history", "errors", "routing", "rewinds"}
    BY DEF EmptyPatch
  <2> HIDE DEF done
  <2>2. CASE p = FailurePatch(role)
    BY <1>0, <2>2 DEF FailurePatch, EmptyPatch
  <2>3. CASE p \in SuccessPatches(role) /\ role = Explorer
    <3>1. p = [done EXCEPT !.evidence = 1]
      BY <2>3 DEF SuccessPatches, done
    <3> QED BY <1>0, <2>1, <2>3, <3>1
  <2>4. CASE p \in SuccessPatches(role) /\ role = Knowledge
    <3>1. p = [done EXCEPT !.knowledge_candidates = 1]
      BY <1>0, <2>4 DEF SuccessPatches, done
    <3> QED BY <1>0, <2>1, <2>4, <3>1
  <2>5. CASE p \in SuccessPatches(role) /\ role = Validator
    <3>1. \E v : p = [done EXCEPT !.validation_results = <<v>>]
      BY <1>0, <2>5 DEF SuccessPatches, done
    <3>2. PICK v : p = [done EXCEPT !.validation_results = <<v>>]
      BY <3>1
    <3> QED BY <1>0, <2>1, <2>5, <3>2
  <2> QED BY <2>2, <2>3, <2>4, <2>5 DEF Executable
<1>2. RequestedFields(p) \subseteq AllowedFields(role)
  <2>1. RequestedFields(p) \subseteq
          {"errors", "step_history"}
            \cup {f \in {"evidence"} : p["evidence"] > 0}
            \cup {f \in {"knowledge_candidates"} : p["knowledge_candidates"] > 0}
            \cup {f \in {"validation_results"} : p["validation_results"] # <<>>}
    BY <1>1 DEF RequestedFields
  <2>2. /\ role = Explorer => "evidence" \in AllowedFields(role)
        /\ role = Knowledge => "knowledge_candidates" \in AllowedFields(role)
        /\ role = Validator => "validation_results" \in AllowedFields(role)
        /\ {"errors", "step_history"} \subseteq AllowedFields(role)
    BY <1>0 DEF AllowedFields
  <2> QED BY <1>1, <2>1, <2>2
<1> QED BY <1>1, <1>2 DEF PatchAccepted

\* Before an agent runs the history is shorter than the allowed cycles; the
\* Explorer that begins a cycle has passed the limit.
LEMMA RoomForAgent ==
  ASSUME IInv, ConventionInv
  PROVE  /\ node \in {"execute", "agent"} => Len(step_history) < 3 * MaxIterations
         /\ node # "end" /\ errors = 0 => Len(step_history) <= 3 * MaxIterations
<1> DEFINE n == Len(step_history)
           whole == Len(validation_results)
<1> SUFFICES ASSUME node # "end", errors = 0
             PROVE  /\ node \in {"execute", "agent"} => n < 3 * MaxIterations
                    /\ n <= 3 * MaxIterations
  BY DEF ConventionInv
<1>1. /\ n \in Nat /\ whole \in Nat /\ n >= 3 * whole /\ n <= 3 * whole + 2
      /\ iteration = IF n > 3 * whole \/ node = "agent" THEN whole + 1 ELSE whole
      /\ node = "execute" => selected_agent = Turn(n + 1)
      /\ iteration \in 0 .. MaxIterations /\ MaxIterations \in Nat
  BY WorkflowAssumption DEF IInv, TypeOK, ConventionInv, CycleInv
<1>2. node = "execute" /\ n = 3 * whole => iteration < MaxIterations
  BY <1>1, Turns DEF IInv, RoutingInv
<1> HIDE DEF n, whole
<1> QED BY <1>1, <1>2

\* With agents that follow the convention and enough supersteps, every step
\* keeps count of the supersteps.
LEMMA SuperstepNext ==
  ASSUME Patches = HonestPatches, EnoughSupersteps
  PROVE  IInv /\ ConventionInv /\ ConventionInv' /\ SuperstepInv /\ [Next]_vars => SuperstepInv'
<1> SUFFICES ASSUME IInv, ConventionInv, ConventionInv', SuperstepInv, [Next]_vars
             PROVE  SuperstepInv'
  OBVIOUS
<1> DEFINE n == Len(step_history)
<1>1. /\ n \in Nat /\ steps \in Nat /\ MaxIterations \in Nat /\ Supersteps \in Nat
      /\ Supersteps >= 6 * MaxIterations + 1
      /\ n <= 3 * MaxIterations
      /\ node \in {"execute", "agent"} => n < 3 * MaxIterations
      /\ node = "supervisor" => steps = IF status \in Terminal THEN 0 ELSE 2 * n
      /\ node = "execute" => steps = 2 * n + 1
      /\ node = "agent" => steps = 2 * n + 2
      /\ outcome = "returned" => status \in Terminal
      /\ outcome # "recursion_error"
      /\ node # "end" => outcome = None
  BY WorkflowAssumption
     DEF IInv, TypeOK, SuperstepInv, FinalCycleMayFinish, EnoughSupersteps, ConventionInv
<1>2. status \in Terminal => node \in {"supervisor", "end"}
  BY DEF IInv, LifecycleInv
<1>3. CASE SuperviseTerminal
  BY <1>1, <1>3 DEF SuperviseTerminal, StartSuperstep, Return, domain, SuperstepInv,
     FinalCycleMayFinish
<1>4. CASE SuperviseFail \/ SuperviseComplete \/ SuperviseLimit
  BY <1>1, <1>4 DEF SuperviseFail, SuperviseComplete, SuperviseLimit, Supervise,
     StartSuperstep, Finish, Return, artifacts, SuperstepInv, FinalCycleMayFinish, Terminal
<1>5. CASE SuperviseReject
  BY <1>5 DEF SuperviseReject, Raise, ConventionInv, ConventionAccepted
<1>6. CASE SuperviseRoute
  <2>1. /\ node = "supervisor" /\ status \notin Terminal /\ status' \notin Terminal
        /\ node' = "execute" /\ steps' = steps + 1 /\ errors' = errors /\ errors = 0
        /\ step_history' = step_history /\ outcome' = outcome
        /\ ~ ValidationPassed(validation_results)
        /\ ~ AtIterationLimit /\ ~ PolicyRejects
    BY <1>6 DEF SuperviseRoute, Supervise, StartSuperstep, artifacts, Terminal
  <2>2. n < 3 * MaxIterations
    <3>1. IInv'
      BY NextIInv
    <3>2. (node \in {"execute", "agent"} => Len(step_history) < 3 * MaxIterations)'
      BY <3>1, RoomForAgent, PTL
    <3> QED BY <2>1, <3>2
  <2> QED BY <1>1, <2>1, <2>2 DEF SuperstepInv, FinalCycleMayFinish, None
<1>7. CASE StartAgent
  BY <1>1, <1>2, <1>7 DEF StartAgent, StartSuperstep, artifacts, SuperstepInv,
     FinalCycleMayFinish, None
<1>8. CASE AgentReturns
  <2>1. /\ node = "agent" /\ selected_agent \in Executable /\ status \notin Terminal
        /\ step_history \in Seq(Invocation)
    BY <1>2, <1>8 DEF AgentReturns, IInv, RoutingInv, TypeOK
  <2>2. PICK p \in SuccessPatches(selected_agent) \cup {FailurePatch(selected_agent)} :
          FinishAgent(p) \/ RejectPatch(p)
    BY <1>8, <2>1 DEF AgentReturns, HonestPatches
  <2>3. PatchAccepted(p) /\ \E e \in Invocation : p.step_history = <<e>>
    BY <2>1, HonestPatchesAccepted
  <2>4. FinishAgent(p)
    BY <2>2, <2>3 DEF RejectPatch
  <2>5. Len(step_history') = n + 1
    <3>1. PICK e \in Invocation : step_history' = step_history \o <<e>>
      BY <2>3, <2>4 DEF FinishAgent
    <3> QED BY <2>1, <3>1
  <2>6. /\ node' = "supervisor" /\ steps' = steps /\ status' = status /\ outcome' = outcome
    BY <2>4 DEF FinishAgent
  <2> HIDE DEF n
  <2> QED BY <1>1, <2>1, <2>5, <2>6 DEF SuperstepInv, FinalCycleMayFinish, None
<1>9. CASE AgentRaises
  BY <1>1, <1>9 DEF AgentRaises, Raise, domain, SuperstepInv, FinalCycleMayFinish
<1>10. CASE RecursionLimit
  <2>1. steps < Supersteps
    <3> HIDE DEF n
    <3> QED BY <1>1, <1>10 DEF RecursionLimit
  <2> QED BY <1>1, <1>10, <2>1 DEF RecursionLimit
<1>11. CASE Rerun
  BY <1>1, <1>11 DEF Rerun, domain, SuperstepInv, FinalCycleMayFinish, None
<1>12. CASE UNCHANGED vars
  BY <1>12 DEF vars, domain, SuperstepInv, FinalCycleMayFinish
<1> QED
  BY <1>3, <1>4, <1>5, <1>6, <1>7, <1>8, <1>9, <1>10, <1>11, <1>12 DEF Next, RunStep

LEMMA SpecSuperstepInv ==
  ASSUME Patches = HonestPatches, EnoughSupersteps
  PROVE  Spec => [](IInv /\ ConventionInv /\ SuperstepInv)
<1>1. Init => SuperstepInv
  BY WorkflowAssumption DEF Init, SuperstepInv, FinalCycleMayFinish, None, Terminal
<1> QED
  BY <1>1, InitIInv, NextIInv, ConventionInit, ConventionNext, SuperstepNext, PTL DEF Spec

\* With agents that follow the convention, six supersteps for every allowed
\* cycle and one more are enough: the recursion limit never preempts the
\* iteration limit, so the final allowed cycle may finish.
THEOREM EnoughSuperstepsSuffice ==
  ASSUME Patches = HonestPatches, EnoughSupersteps
  PROVE  Spec => []FinalCycleMayFinish
<1>1. SuperstepInv => FinalCycleMayFinish
  BY DEF SuperstepInv
<1> QED BY <1>1, SpecSuperstepInv, PTL

\* If, besides, no agent raises, a call ends only by returning a terminal
\* state: completed, failed or terminated.
THEOREM RunsEndWithADecision ==
  ASSUME Patches = HonestPatches, EnoughSupersteps, AgentsMayRaise = FALSE
  PROVE  Spec => []RunEndsDecided
<1> DEFINE Returned == node = "end" => outcome = "returned"
<1>1. Init => Returned
  BY DEF Init
<1>2. IInv /\ ConventionInv /\ Returned /\ ConventionInv' /\ SuperstepInv' /\ [Next]_vars
        => Returned'
  <2> SUFFICES ASSUME IInv, ConventionInv, Returned, ConventionInv', SuperstepInv',
                      [Next]_vars, node' = "end"
               PROVE  outcome' = "returned"
    OBVIOUS
  <2>1. CASE SuperviseTerminal \/ SuperviseFail \/ SuperviseComplete \/ SuperviseLimit
    BY <2>1 DEF SuperviseTerminal, SuperviseFail, SuperviseComplete, SuperviseLimit,
       Finish, Return
  <2>2. CASE SuperviseReject
    BY <2>2 DEF SuperviseReject, Raise, ConventionInv, ConventionAccepted
  <2>3. CASE AgentReturns
    <3>1. node = "agent" /\ selected_agent \in Executable
      BY <2>3 DEF AgentReturns, IInv, RoutingInv
    <3>2. PICK p \in SuccessPatches(selected_agent) \cup {FailurePatch(selected_agent)} :
            FinishAgent(p) \/ RejectPatch(p)
      BY <2>3, <3>1 DEF AgentReturns, HonestPatches
    <3>3. PatchAccepted(p)
      BY <3>1, HonestPatchesAccepted
    <3> QED BY <3>2, <3>3 DEF FinishAgent, RejectPatch
  <2>4. CASE RecursionLimit
    BY <2>4 DEF RecursionLimit, Raise, SuperstepInv, FinalCycleMayFinish
  <2>5. CASE SuperviseRoute \/ StartAgent \/ AgentRaises \/ Rerun
    BY <2>5 DEF SuperviseRoute, StartAgent, AgentRaises, Rerun
  <2>6. CASE UNCHANGED vars
    BY <2>6 DEF vars
  <2> QED BY <2>1, <2>2, <2>3, <2>4, <2>5, <2>6 DEF Next, RunStep
<1>3. SuperstepInv /\ Returned => RunEndsDecided
  BY DEF SuperstepInv, RunEndsDecided
<1> QED BY <1>1, <1>2, <1>3, SpecSuperstepInv, PTL DEF Spec
=============================================================================
