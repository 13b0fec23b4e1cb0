------------------------- MODULE ApplicationService -------------------------
(***************************************************************************)
(* PMQAApplicationService.execute (pmqa/application/service.py) with its   *)
(* registries, the runner boundary (pmqa/runners) and the MockRunner.      *)
(*                                                                         *)
(* The service keeps no state of its own: calls run side by side, may      *)
(* share a runtime control, and meet adapters and runners that may change  *)
(* what they say of themselves at any time.  A runner other than the mock  *)
(* is code the caller supplied: it returns any response.  Identifiers are  *)
(* left out; that a response names the invocation it was asked for is one  *)
(* flag.  Of the payloads their size is kept: every contract refuses more  *)
(* than MaxItems JSON values or MaxDepth levels, and one payload is part   *)
(* of several contracts.                                                   *)
(***************************************************************************)
EXTENDS Integers, FiniteSets

CONSTANTS
  Calls,         \* calls of execute
  Controls,      \* runtime controls callers may pass
  Definition,    \* registered workflow -> its snapshot
  Capabilities,  \* registered runner -> the capabilities of its snapshot
  Mocks,         \* the runners that are MockRunners
  Changing,      \* adapters and runners whose live description may change
  Requests,      \* run requests of the callers
  Responses,     \* what any other runner may return
  MockArtifacts, \* how many artifacts a MockRunner may be configured with
  Times          \* what a wall clock may say

Workflows == DOMAIN Definition
Runners   == DOMAIN Capabilities
None      == "none"
Never     == -1

Successful == {"succeeded", "partially_succeeded"}
Terminal   == Successful \cup {"failed", "cancelled"}
Refusals   == {"invalid_application_request", "workflow_not_found",
               "workflow_input_schema_mismatch", "workflow_definition_changed",
               "workflow_input_invalid", "runner_not_found",
               "runner_capability_mismatch", "runner_metadata_changed",
               "approval_required", "invalid_run_identifier",
               "invalid_application_clock", "runner_boundary_failed",
               "workflow_result_invalid"}

\* A run request, with the JSON values and the levels inside its inputs and the
\* number of its references.
Request == [workflow : STRING, input_schema : STRING, runner : STRING,
            requested_at : Nat, inputs : Nat, depth : Nat, references : Nat]

\* A runner's response; "matches" says that it names the invocation it answers.
\* contents counts the JSON values of its result, its errors and its artifacts,
\* depth the levels inside the data of its result.
Response == [matches : BOOLEAN, status : Terminal \cup {"pending", "running"},
             started_at : Nat, completed_at : Nat \cup {Never},
             result : STRING \cup {None}, errors : {None, "plain", "cancelled"},
             artifacts : SUBSET Nat, unique : BOOLEAN,
             contents : Nat, depth : Nat]

-----------------------------------------------------------------------------
(* The size of the contracts: every field is a JSON value, a nested object or *)
(* array with all it holds as well.                                           *)

MaxItems == 4096
MaxDepth == 32

\* validate_canonical_tree, which every contract inherits
InTree(items, depth) == items <= MaxItems /\ depth <= MaxDepth

RunRequestItems(q)     == 12 + q.inputs + 3 * q.references
ContextItems(q)        == 10 + 3 * q.references
PendingItems           == 15
RunnerRequestItems(q)  == 5 + RunRequestItems(q) + ContextItems(q) + PendingItems
ResponseItems(r)       == 19 + r.contents
RecordItems(q, r)      == 22 + 3 * q.references + r.contents
RunResultItems(q, r)   ==
  2 + RunRequestItems(q) + RecordItems(q, r) + ResponseItems(r)

-----------------------------------------------------------------------------

ASSUME ServiceAssumption ==
  /\ \A w \in Workflows :
       Definition[w] \in [input_schema : STRING, result_schema : STRING,
                          required : SUBSET STRING, approval : STRING]
  /\ \A w \in Workflows : Definition[w].result_schema # None
  /\ Workflows \subseteq STRING /\ Runners \subseteq STRING
  /\ Mocks \subseteq Runners
  /\ Changing \subseteq (Workflows \cup Runners) \ Mocks
  /\ Requests \subseteq Request
  /\ \A q \in Requests : InTree(RunRequestItems(q), 1 + q.depth)
  /\ Responses \subseteq Response
  /\ MockArtifacts \subseteq Nat
  /\ Times \subseteq Nat

VARIABLES
  changed,      \* adapters and runners whose live snapshot has changed
  cancelled,    \* controls whose token was cancelled
  pc, request, control, started_at, response, outcome,   \* per call
  observed,     \* did the mock see a cancellation?
  changed_before, cancelled_before   \* history: changed when the call began,
                                     \* cancelled when the runner was called

call == <<request, control, started_at, response, outcome, observed>>
history == <<changed_before, cancelled_before>>
world == <<changed, cancelled>>
vars == <<world, pc, call, history>>

NoRequest  == [requested_at |-> Never]
NoResponse == [status |-> None]

Init ==
  /\ changed = {} /\ cancelled = {}
  /\ pc = [c \in Calls |-> "idle"]
  /\ request = [c \in Calls |-> NoRequest]
  /\ control = [c \in Calls |-> None]
  /\ started_at = [c \in Calls |-> Never]
  /\ response = [c \in Calls |-> NoResponse]
  /\ outcome = [c \in Calls |-> None]
  /\ observed = [c \in Calls |-> FALSE]
  /\ changed_before = [c \in Calls |-> {}]
  /\ cancelled_before = [c \in Calls |-> FALSE]

Go(c, from, to) == pc[c] = from /\ pc' = [pc EXCEPT ![c] = to]

\* The call ends with a PMQAApplicationError, or another exception leaves it.
End(c, from, how) ==
  /\ Go(c, from, "ended")
  /\ outcome' = [outcome EXCEPT ![c] = how]
  /\ UNCHANGED <<world, request, control, started_at, response, observed, history>>

\* A step whose check found no reason to refuse the call.
Pass(c, from, to) ==
  /\ Go(c, from, to)
  /\ UNCHANGED <<world, call, history>>

-----------------------------------------------------------------------------
(* The ordered checks before a runner is called. *)

Execute(c, q, k) ==
  /\ Go(c, "idle", "definition")
  /\ request' = [request EXCEPT ![c] = q]
  /\ control' = [control EXCEPT ![c] = k]
  /\ changed_before' = [changed_before EXCEPT ![c] = changed]
  /\ UNCHANGED <<world, started_at, response, outcome, observed, cancelled_before>>

\* What was passed as the request is no RunRequest, or cannot be rebuilt.
RefuseRequest(c) == End(c, "definition", "invalid_application_request")

\* Seeded fault: the snapshot is trusted, whatever the adapter says now.
DefinitionRefusalTrusting(q) ==
  IF q.workflow \notin Workflows THEN "workflow_not_found"
  ELSE IF q.input_schema # Definition[q.workflow].input_schema
         THEN "workflow_input_schema_mismatch"
  ELSE None

\* The registry, the input schema, and the live definition of the adapter.
DefinitionRefusal(q) ==
  IF q.workflow \notin Workflows THEN "workflow_not_found"
  ELSE IF q.input_schema # Definition[q.workflow].input_schema
         THEN "workflow_input_schema_mismatch"
  ELSE IF q.workflow \in changed THEN "workflow_definition_changed"
  ELSE None

CheckDefinition(c) ==
  /\ pc[c] = "definition"
  /\ LET refusal == DefinitionRefusal(request[c])
     IN \/ refusal = None /\ Pass(c, "definition", "adapter")
        \/ refusal # None /\ End(c, "definition", refusal)
        \/ /\ refusal \in {None, "workflow_definition_changed"}
           /\ End(c, "definition", "raised")   \* by the adapter's definition

\* The adapter's request validator accepts, refuses or raises.
ValidateRequest(c) ==
  \/ Pass(c, "adapter", "runner")
  \/ \E how \in {"workflow_input_invalid", "raised"} : End(c, "adapter", how)

\* The registry, the capabilities, the live metadata and the approval mode.
RunnerRefusal(q) ==
  IF q.runner \notin Runners THEN "runner_not_found"
  ELSE IF ~ (Definition[q.workflow].required \subseteq Capabilities[q.runner])
         THEN "runner_capability_mismatch"
  ELSE IF q.runner \in changed THEN "runner_metadata_changed"
  ELSE IF Definition[q.workflow].approval # None THEN "approval_required"
  ELSE None

CheckRunner(c) ==
  /\ pc[c] = "runner"
  /\ LET refusal == RunnerRefusal(request[c])
     IN \/ refusal = None /\ Pass(c, "runner", "clock")
        \/ refusal # None /\ End(c, "runner", refusal)
        \/ /\ refusal \in {None, "runner_metadata_changed", "approval_required"}
           /\ request[c].runner \notin Mocks
           /\ End(c, "runner", "raised")       \* by the runner's metadata

\* An identifier that is none, or a control that is not a RunnerControl.
RefuseArguments(c) ==
  \E how \in {"invalid_run_identifier", "invalid_application_request"} :
    End(c, "clock", how)

SampleClock(c) ==
  /\ Go(c, "clock", "dispatch")
  /\ \E t \in Times :
    /\ t >= request[c].requested_at
    /\ started_at' = [started_at EXCEPT ![c] = t]
  /\ UNCHANGED <<world, request, control, response, outcome, observed, history>>

\* The clock fails, says a time before the request was made, or is interrupted.
RefuseClock(c) ==
  \E how \in {"invalid_application_clock", "raised"} : End(c, "clock", how)

-----------------------------------------------------------------------------
(* The runner. *)

\* Can the RunnerRequest, which holds the run request, be built?
RunnerRequestAccepted(q) == InTree(RunnerRequestItems(q), 2 + q.depth)

\* A ValidationError leaves execute before the runner is called.
RefuseRunnerRequest(c) ==
  /\ pc[c] = "dispatch"
  /\ ~ RunnerRequestAccepted(request[c])
  /\ End(c, "dispatch", "validation_error")

Dispatch(c) ==
  /\ Go(c, "dispatch", "running")
  /\ RunnerRequestAccepted(request[c])
  /\ cancelled_before' = [cancelled_before EXCEPT ![c] = control[c] \in cancelled]
  /\ UNCHANGED <<world, call, changed_before>>

Respond(c, from, r) ==
  /\ Go(c, from, "respond")
  /\ response' = [response EXCEPT ![c] = r]
  /\ UNCHANGED <<world, request, control, started_at, outcome, observed, history>>

\* Any other runner answers, refuses the boundary, or raises.
RunnerReturns(c) ==
  /\ pc[c] = "running" /\ request[c].runner \notin Mocks
  /\ \/ \E r \in Responses : Respond(c, "running", r)
     \/ \E how \in {"runner_boundary_failed", "raised"} : End(c, "running", how)

\* MockRunner.execute looks at the token once, before it does anything.
SampleCancellation(c) ==
  /\ Go(c, "running", "sampled")
  /\ request[c].runner \in Mocks
  /\ observed' = [observed EXCEPT ![c] = control[c] \in cancelled]
  /\ UNCHANGED <<world, request, control, started_at, response, outcome, history>>

MockErrors(status) ==
  CASE status = "succeeded" -> None
    [] status = "cancelled" -> "cancelled"
    [] OTHER -> "plain"

\* The mock's response at time t: its configured outcome, unless cancelled; n
\* artifacts were made at the times in artifacts.
MockResponse(c, status, t, artifacts, n) ==
  [matches |-> TRUE, status |-> status,
   started_at |-> started_at[c], completed_at |-> t,
   result |-> IF status \in Successful
                THEN Definition[request[c].workflow].result_schema ELSE None,
   errors |-> MockErrors(status),
   artifacts |-> IF status = "cancelled" THEN {} ELSE artifacts,
   unique |-> TRUE,
   contents |-> (IF status \in Successful THEN 5 ELSE 0)
                  + (IF status = "succeeded" THEN 0 ELSE 7)
                  + (IF status = "cancelled" THEN 0 ELSE 7 * n),
   depth |-> IF status \in Successful THEN 1 ELSE 0]

\* Seeded fault: the mock ignores the cancellation it saw.
MockStatusConfigured(c, configured) == configured

MockStatus(c, configured) == IF observed[c] THEN "cancelled" ELSE configured

-----------------------------------------------------------------------------
(* The boundary: the contract of RunnerResponse, and its correlation with    *)
(* the request the service has kept to itself.                               *)

\* Seeded fault: a failed response may carry a result.
WellFormedLoose(r) ==
  /\ r.status \in Terminal
  /\ r.completed_at # Never /\ r.completed_at >= r.started_at
  /\ r.status = "succeeded" <=> r.errors = None
  /\ r.status = "cancelled" => r.errors = "cancelled"
  /\ r.unique
  /\ InTree(ResponseItems(r), 2 + r.depth)

WellFormed(r) ==
  /\ r.status \in Terminal
  /\ r.completed_at # Never /\ r.completed_at >= r.started_at
  /\ r.status \in Successful <=> r.result # None
  /\ r.status = "succeeded" <=> r.errors = None
  /\ r.status = "cancelled" => r.errors = "cancelled"
  /\ r.unique
  /\ InTree(ResponseItems(r), 2 + r.depth)

\* Seeded fault: the response's own start is believed.
CorrelatedToItself(c, r) ==
  /\ r.matches
  /\ r.completed_at >= r.started_at
  /\ \A a \in r.artifacts : a \in r.started_at .. r.completed_at
  /\ r.result # None => r.result = Definition[request[c].workflow].result_schema

Correlated(c, r) ==
  /\ r.matches
  /\ r.started_at = started_at[c]
  /\ r.completed_at >= started_at[c]
  /\ \A a \in r.artifacts : a \in r.started_at .. r.completed_at
  /\ r.result # None => r.result = Definition[request[c].workflow].result_schema

\* The mock refuses its own response when a clock fails or goes back, when an
\* artifact lies outside the execution, or when it is too large.
MockReturns(c) ==
  /\ pc[c] = "sampled"
  /\ \E configured \in {"succeeded", "partially_succeeded", "failed"},
       t \in Times, artifacts \in SUBSET Times, n \in MockArtifacts :
    LET r == MockResponse(c, MockStatus(c, configured), t, artifacts, n)
    IN \/ /\ artifacts = {} <=> n = 0
          /\ WellFormed(r) /\ Correlated(c, r)
          /\ Respond(c, "sampled", r)
       \/ \E how \in {"runner_boundary_failed", "raised"} : End(c, "sampled", how)

CheckResponse(c) ==
  /\ pc[c] = "respond"
  /\ LET r == response[c]
     IN \/ /\ WellFormed(r) /\ Correlated(c, r)
           /\ Pass(c, "respond", IF r.result # None THEN "result" ELSE "assemble")
        \/ /\ ~ (WellFormed(r) /\ Correlated(c, r))
           /\ End(c, "respond", "runner_boundary_failed")

\* The adapter's result validator accepts, refuses or raises.
ValidateResult(c) ==
  \/ Pass(c, "result", "assemble")
  \/ \E how \in {"workflow_result_invalid", "raised"} : End(c, "result", how)

-----------------------------------------------------------------------------
(* The run record that _assemble_result makes of a response. *)

RunRecord(c) ==
  [status |-> response[c].status,
   created_at |-> request[c].requested_at,
   started_at |-> response[c].started_at,
   completed_at |-> response[c].completed_at,
   updated_at |-> response[c].completed_at,
   result |-> response[c].result,
   errors |-> response[c].errors,
   artifacts |-> response[c].artifacts,
   unique |-> response[c].unique,
   items |-> RecordItems(request[c], response[c]),
   depth |-> 2 + response[c].depth]

\* The contract of RunRecord.
RunRecordAccepted(run) ==
  /\ run.status \in Terminal <=> run.completed_at # Never
  /\ run.completed_at # Never =>
       run.completed_at >= run.started_at /\ run.completed_at <= run.updated_at
  /\ run.started_at >= run.created_at
  /\ run.updated_at >= run.started_at
  /\ run.result # None => run.status \in Successful
  /\ run.unique
  /\ InTree(run.items, run.depth)

\* The contract of ApplicationRunResult, which holds the request, the record and
\* the response.
RunResultAccepted(c) ==
  LET items == RunResultItems(request[c], response[c])
  IN InTree(items, 2 + request[c].depth) /\ InTree(items, 3 + response[c].depth)

\* What the contracts refuse leaves execute as a ValidationError.
Assemble(c) ==
  /\ pc[c] = "assemble"
  /\ \/ /\ RunRecordAccepted(RunRecord(c)) /\ RunResultAccepted(c)
        /\ End(c, "assemble", "run_result")
     \/ /\ ~ (RunRecordAccepted(RunRecord(c)) /\ RunResultAccepted(c))
        /\ End(c, "assemble", "validation_error")

-----------------------------------------------------------------------------

CallStep(c) ==
  \/ \E q \in Requests, k \in Controls : Execute(c, q, k)
  \/ RefuseRequest(c) \/ CheckDefinition(c) \/ ValidateRequest(c) \/ CheckRunner(c)
  \/ RefuseArguments(c) \/ SampleClock(c) \/ RefuseClock(c)
  \/ RefuseRunnerRequest(c) \/ Dispatch(c)
  \/ RunnerReturns(c) \/ SampleCancellation(c) \/ MockReturns(c)
  \/ CheckResponse(c) \/ ValidateResult(c) \/ Assemble(c)

-----------------------------------------------------------------------------
(* The callers' other threads. *)

\* CancellationToken.cancel
Cancel(k) ==
  /\ k \notin cancelled
  /\ cancelled' = cancelled \cup {k}
  /\ UNCHANGED <<changed, pc, call, history>>

\* An adapter or a runner describes itself differently from now on.
Change(x) ==
  /\ x \notin changed
  /\ changed' = changed \cup {x}
  /\ UNCHANGED <<cancelled, pc, call, history>>

Next ==
  \/ \E c \in Calls : CallStep(c)
  \/ \E k \in Controls : Cancel(k)
  \/ \E x \in Changing : Change(x)

Spec == Init /\ [][Next]_vars

-----------------------------------------------------------------------------
(* Properties *)

Called == {"dispatch", "running", "sampled", "respond", "result", "assemble"}

TypeOK ==
  /\ changed \subseteq Workflows \cup Runners /\ cancelled \subseteq Controls
  /\ pc \in [Calls -> {"idle", "definition", "adapter", "runner", "clock",
                       "ended"} \cup Called]
  /\ request \in [Calls -> Requests \cup {NoRequest}]
  /\ control \in [Calls -> Controls \cup {None}]
  /\ started_at \in [Calls -> Times \cup {Never}]
  /\ response \in [Calls -> Response \cup {NoResponse}]
  /\ outcome \in [Calls -> Refusals \cup {None, "raised", "validation_error", "run_result"}]
  /\ observed \in [Calls -> BOOLEAN] /\ cancelled_before \in [Calls -> BOOLEAN]
  /\ changed_before \in [Calls -> SUBSET (Workflows \cup Runners)]

\* After a runner has answered within the boundary, its work is lost to a
\* contract of the service for one reason only: it is too large to be held twice
\* beside the request, or too deep by a level.  No other clause of RunRecord or
\* ApplicationRunResult can refuse what the boundary let through, nor does the
\* record on its own, and the depth of the inputs was settled before the runner
\* was called (service.py, _assemble_result).
OnlySizeRefuses ==
  \A c \in Calls :
    outcome[c] = "validation_error" /\ response[c] # NoResponse =>
      \/ 2 * response[c].contents + request[c].inputs + 6 * request[c].references
           > MaxItems - 55
      \/ response[c].depth > MaxDepth - 3

\* What a caller is handed is about the time of its own call: the run started
\* when the service's clock said, not before it was requested; every artifact
\* was made between start and completion; a result is there exactly on
\* success, in the schema of the workflow.
ResultsFitTheCall ==
  \A c \in Calls : outcome[c] = "run_result" =>
    LET run == RunRecord(c)
    IN /\ run.started_at = started_at[c]
       /\ run.created_at <= run.started_at /\ run.started_at <= run.completed_at
       /\ \A a \in run.artifacts : run.started_at <= a /\ a <= run.completed_at
       /\ run.status \in Successful <=>
            run.result = Definition[request[c].workflow].result_schema

\* A call through the mock whose control was cancelled before the runner was
\* called ends cancelled, with nothing produced, also when another call or
\* thread did the cancelling; and nothing ends cancelled unasked
\* (docs/architecture/runner-boundary.md:77).
CancellationHonoured ==
  \A c \in Calls : outcome[c] = "run_result" /\ request[c].runner \in Mocks =>
    /\ cancelled_before[c] =>
         /\ response[c].status = "cancelled"
         /\ response[c].result = None /\ response[c].artifacts = {}
    /\ response[c].status = "cancelled" => control[c] \in cancelled

\* An adapter whose definition, or a runner whose metadata, had changed when
\* the call began is never called (docs/architecture/application-service.md:42-44).
ChangedNeverCalled ==
  \A c \in Calls :
    /\ pc[c] = "adapter" => request[c].workflow \notin changed_before[c]
    /\ pc[c] \in Called =>
         {request[c].workflow, request[c].runner} \cap changed_before[c] = {}

-----------------------------------------------------------------------------
(* The inductive strengthening of the safety properties. *)

\* What is known of a call whose runner was called, and of its response.
CallInv ==
  \A c \in Calls :
    /\ pc[c] # "idle" => request[c] \in Requests /\ control[c] \in Controls
    /\ outcome[c] # None => pc[c] = "ended"
    /\ changed_before[c] \subseteq changed
    /\ cancelled_before[c] \/ observed[c] => control[c] \in cancelled
    /\ pc[c] \in {"adapter", "runner", "clock"} \cup Called =>
         /\ request[c].workflow \in Workflows
         /\ request[c].workflow \notin changed_before[c]
    /\ pc[c] \in {"clock"} \cup Called =>
         request[c].runner \in Runners \ changed_before[c]
    /\ pc[c] \in Called =>
         started_at[c] \in Times /\ started_at[c] >= request[c].requested_at
    /\ pc[c] \in Called \ {"dispatch"} => RunnerRequestAccepted(request[c])

ResponseInv ==
  \A c \in Calls :
    /\ pc[c] \in {"idle", "definition", "adapter", "runner", "clock", "dispatch"} =>
         ~ cancelled_before[c]
    /\ pc[c] \in {"idle", "definition", "adapter", "runner", "clock", "dispatch",
                  "running"} => ~ observed[c]
    /\ pc[c] \in {"sampled", "respond", "result", "assemble"}
         /\ cancelled_before[c] /\ request[c].runner \in Mocks => observed[c]
    /\ pc[c] \notin {"respond", "result", "assemble", "ended"} =>
         response[c] = NoResponse
    /\ pc[c] \in {"respond", "result", "assemble"} => response[c] \in Response
    /\ pc[c] \in {"respond", "result", "assemble"} /\ request[c].runner \in Mocks =>
         /\ observed[c] => /\ response[c].status = "cancelled"
                           /\ response[c].artifacts = {}
                           /\ response[c].result = None
         /\ response[c].status = "cancelled" => control[c] \in cancelled
    /\ pc[c] \in {"result", "assemble"} =>
         WellFormed(response[c]) /\ Correlated(c, response[c])

IInv ==
  /\ TypeOK
  /\ CallInv
  /\ ResponseInv
  /\ OnlySizeRefuses
  /\ ResultsFitTheCall
  /\ CancellationHonoured
=============================================================================
