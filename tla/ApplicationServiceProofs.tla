----------------------- MODULE ApplicationServiceProofs -----------------------
(***************************************************************************)
(* What ApplicationService guarantees for every number of calls, every set *)
(* of registrations and requests, and every response a runner can make.    *)
(***************************************************************************)
EXTENDS ApplicationService, TLAPS

\* The times of requests and responses can be compared.
LEMMA TimesAreInts ==
  /\ \A q \in Requests : q.requested_at \in Nat
  /\ \A r \in Response : r.completed_at \in Int /\ r.artifacts \subseteq Nat
<1>1. \A q \in Requests : q.requested_at \in Nat
  BY ServiceAssumption DEF Request
<1>2. \A r \in Response : r.completed_at \in Nat \cup {Never}
  BY DEF Response
<1>3. \A r \in Response : r.artifacts \in SUBSET Nat
  BY DEF Response
<1> QED  BY <1>1, <1>2, <1>3 DEF Never

\* What was handed out stays as it is, and so does what was refused: a token is
\* never withdrawn.
LEMMA HandedOutKeeps ==
  ASSUME OnlySizeRefuses, ResultsFitTheCall, CancellationHonoured,
         cancelled \subseteq cancelled',
         \A d \in Calls : outcome'[d] \in {"run_result", "validation_error"} =>
           /\ outcome[d] = outcome'[d]
           /\ request'[d] = request[d] /\ control'[d] = control[d]
           /\ started_at'[d] = started_at[d] /\ response'[d] = response[d]
           /\ cancelled_before'[d] = cancelled_before[d]
  PROVE  OnlySizeRefuses' /\ ResultsFitTheCall' /\ CancellationHonoured'
<1>1. ResultsFitTheCall'
  BY DEF ResultsFitTheCall, RunRecord
<1>2. CancellationHonoured'
  BY DEF CancellationHonoured
<1>3. OnlySizeRefuses'
  BY DEF OnlySizeRefuses
<1> QED  BY <1>1, <1>2, <1>3

\* The checks and validators move a call on without touching anything else.
LEMMA PassKeeps ==
  ASSUME IInv, NEW c \in Calls, NEW from, NEW to,
         Pass(c, from, to),
         from \notin {"idle", "ended"},
         to \in {"adapter", "runner", "clock", "result", "assemble"},
         to \in {"adapter", "runner", "clock"} =>
           from \in {"definition", "adapter", "runner"},
         to \in {"result", "assemble"} => from \in {"respond", "result"},
         request[c].workflow \in Workflows \ changed_before[c],
         to \in {"clock", "result", "assemble"} =>
           request[c].runner \in Runners \ changed_before[c],
         to \in {"result", "assemble"} =>
           WellFormed(response[c]) /\ Correlated(c, response[c])
  PROVE  IInv'
<1> USE DEF Pass, Go, world, call, history, Called
<1>1. TypeOK'
  BY DEF IInv, TypeOK
<1>2. CallInv'
  BY DEF IInv, TypeOK, CallInv
<1>3. ResponseInv'
  BY DEF IInv, TypeOK, CallInv, ResponseInv, WellFormed, Correlated
<1>4. OnlySizeRefuses' /\ ResultsFitTheCall' /\ CancellationHonoured'
  BY HandedOutKeeps DEF IInv, TypeOK, CallInv, None
<1> QED  BY <1>1, <1>2, <1>3, <1>4 DEF IInv

\* A call that ends for another reason than an assembled record hands out
\* nothing.
LEMMA EndKeeps ==
  ASSUME IInv, NEW c \in Calls, NEW from, NEW how,
         End(c, from, how), from \notin {"idle", "ended"},
         how \in Refusals \cup {"raised"}
  PROVE  IInv'
<1> USE DEF End, Go, world, history, Called, Refusals
<1>1. TypeOK'
  BY DEF IInv, TypeOK
<1>2. CallInv'
  BY DEF IInv, TypeOK, CallInv
<1>3. ResponseInv'
  BY DEF IInv, TypeOK, CallInv, ResponseInv, WellFormed, Correlated
<1>4. OnlySizeRefuses' /\ ResultsFitTheCall' /\ CancellationHonoured'
  BY HandedOutKeeps DEF IInv, TypeOK, CallInv, None
<1> QED  BY <1>1, <1>2, <1>3, <1>4 DEF IInv

\* A response is taken over as it is; a mock's says what the mock saw.
LEMMA RespondKeeps ==
  ASSUME IInv, NEW c \in Calls, NEW from \in {"running", "sampled"},
         NEW r \in Response, Respond(c, from, r),
         request[c].runner \in Mocks =>
           /\ from = "sampled"
           /\ observed[c] => r.status = "cancelled" /\ r.artifacts = {} /\ r.result = None
           /\ r.status = "cancelled" => observed[c]
  PROVE  IInv'
<1> USE DEF Respond, Go, world, history, Called
<1>1. TypeOK'
  BY DEF IInv, TypeOK
<1>2. CallInv'
  BY DEF IInv, TypeOK, CallInv
<1>3. ResponseInv'
  BY DEF IInv, TypeOK, CallInv, ResponseInv, WellFormed, Correlated
<1>4. OnlySizeRefuses' /\ ResultsFitTheCall' /\ CancellationHonoured'
  BY HandedOutKeeps DEF IInv, TypeOK, CallInv, None
<1> QED  BY <1>1, <1>2, <1>3, <1>4 DEF IInv

\* Before any call nothing is promised to anybody.
LEMMA InitInv == Init => IInv
<1> SUFFICES ASSUME Init PROVE IInv
  OBVIOUS
<1> USE DEF Init, Called, None
<1>1. TypeOK
  BY DEF TypeOK
<1>2. CallInv
  BY DEF CallInv
<1>3. ResponseInv
  BY DEF ResponseInv
<1>4. OnlySizeRefuses /\ ResultsFitTheCall /\ CancellationHonoured
  BY DEF OnlySizeRefuses, ResultsFitTheCall, CancellationHonoured
<1> QED  BY <1>1, <1>2, <1>3, <1>4 DEF IInv

\* A new call starts with nothing known of it but its arguments.
LEMMA ExecuteKeeps ==
  ASSUME IInv, NEW c \in Calls, NEW q \in Requests, NEW k \in Controls,
         Execute(c, q, k)
  PROVE  IInv'
<1> USE DEF Execute, Go, world, Called
<1>1. TypeOK'
  BY DEF IInv, TypeOK
<1>2. CallInv'
  BY DEF IInv, TypeOK, CallInv, ResponseInv
<1>3. ResponseInv'
  BY DEF IInv, TypeOK, CallInv, ResponseInv, WellFormed, Correlated
<1>4. OnlySizeRefuses' /\ ResultsFitTheCall' /\ CancellationHonoured'
  BY HandedOutKeeps DEF IInv, TypeOK, CallInv, None
<1> QED  BY <1>1, <1>2, <1>3, <1>4 DEF IInv

\* The sample the service keeps is not before the request.
LEMMA SampleClockKeeps ==
  ASSUME IInv, NEW c \in Calls, SampleClock(c)
  PROVE  IInv'
<1> USE ServiceAssumption DEF SampleClock, Go, world, history, Called
<1>1. TypeOK'
  BY DEF IInv, TypeOK
<1>2. CallInv'
  BY DEF IInv, TypeOK, CallInv
<1>3. ResponseInv'
  BY DEF IInv, TypeOK, CallInv, ResponseInv, WellFormed, Correlated
<1>4. OnlySizeRefuses' /\ ResultsFitTheCall' /\ CancellationHonoured'
  BY HandedOutKeeps DEF IInv, TypeOK, CallInv, None
<1> QED  BY <1>1, <1>2, <1>3, <1>4 DEF IInv

\* The token is looked at twice: by the history variable when the runner is
\* called, and by the mock after that; it is never withdrawn.
LEMMA TokenKeeps ==
  ASSUME IInv, NEW c \in Calls, Dispatch(c) \/ SampleCancellation(c)
  PROVE  IInv'
<1> USE DEF Dispatch, SampleCancellation, Go, world, call, history, Called
<1>1. TypeOK'
  <2> DEFINE seen == control[c] \in cancelled
  <2>1. seen \in BOOLEAN
    OBVIOUS
  <2>2. \/ observed' = observed
        \/ observed' = [observed EXCEPT ![c] = seen]
    BY Zenon
  <2>3. \/ cancelled_before' = cancelled_before
        \/ cancelled_before' = [cancelled_before EXCEPT ![c] = seen]
    BY Zenon
  <2> HIDE DEF seen
  <2>4. observed' \in [Calls -> BOOLEAN] /\ cancelled_before' \in [Calls -> BOOLEAN]
    BY <2>1, <2>2, <2>3 DEF IInv, TypeOK
  <2> QED  BY <2>4 DEF IInv, TypeOK
<1>2. CallInv'
  BY DEF IInv, TypeOK, CallInv
<1>3. ResponseInv'
  BY DEF IInv, TypeOK, CallInv, ResponseInv, WellFormed, Correlated
<1>4. OnlySizeRefuses' /\ ResultsFitTheCall' /\ CancellationHonoured'
  BY HandedOutKeeps DEF IInv, TypeOK, CallInv, None
<1> QED  BY <1>1, <1>2, <1>3, <1>4 DEF IInv

\* A run request too large for the runner's ends the call before the runner has
\* answered anything.
LEMMA RefuseRunnerRequestKeeps ==
  ASSUME IInv, NEW c \in Calls, RefuseRunnerRequest(c)
  PROVE  IInv'
<1> USE DEF RefuseRunnerRequest, End, Go, world, history, Called
<1>1. TypeOK'
  BY DEF IInv, TypeOK
<1>2. CallInv'
  BY DEF IInv, TypeOK, CallInv
<1>3. ResponseInv'
  BY DEF IInv, TypeOK, CallInv, ResponseInv, WellFormed, Correlated
<1>4. ResultsFitTheCall' /\ CancellationHonoured'
  BY DEF IInv, TypeOK, ResultsFitTheCall, CancellationHonoured, RunRecord
<1>5. OnlySizeRefuses'
  <2>1. response[c] = NoResponse
    BY DEF IInv, ResponseInv
  <2> QED  BY <2>1 DEF IInv, TypeOK, OnlySizeRefuses
<1> QED  BY <1>1, <1>2, <1>3, <1>4, <1>5 DEF IInv

\* The boundary is strict enough for every clause of the contracts but the sizes.
LEMMA ContractsAgree ==
  ASSUME IInv, NEW c \in Calls, pc[c] = "assemble",
         ~ (RunRecordAccepted(RunRecord(c)) /\ RunResultAccepted(c))
  PROVE  \/ 2 * response[c].contents + request[c].inputs + 6 * request[c].references
              > MaxItems - 55
         \/ response[c].depth > MaxDepth - 3
<1> DEFINE q == request[c]
           r == response[c]
<1>1. WellFormed(r) /\ Correlated(c, r) /\ r \in Response
  BY DEF IInv, ResponseInv
<1>2. /\ q \in Requests /\ started_at[c] \in Times /\ started_at[c] >= q.requested_at
      /\ RunnerRequestAccepted(q)
  BY DEF IInv, CallInv, Called
<1>3. /\ q.requested_at \in Nat /\ started_at[c] \in Nat /\ r.completed_at \in Int
  BY <1>1, <1>2, TimesAreInts, ServiceAssumption
<1>4. /\ q.inputs \in Nat /\ q.references \in Nat /\ q.depth \in Nat
      /\ r.contents \in Nat /\ r.depth \in Nat
  BY <1>1, <1>2, ServiceAssumption DEF Request, Response
<1>5. CASE ~ InTree(RecordItems(q, r), 2 + r.depth)
  BY <1>4, <1>5 DEF InTree, RecordItems, MaxItems, MaxDepth
<1>6. CASE ~ RunResultAccepted(c)
  <2>1. 2 + q.depth <= MaxDepth
    BY <1>2 DEF RunnerRequestAccepted, InTree
  <2> QED  BY <1>4, <1>6, <2>1 DEF RunResultAccepted, InTree, RunResultItems,
              RunRequestItems, RecordItems, ResponseItems, MaxItems, MaxDepth
<1>7. CASE InTree(RecordItems(q, r), 2 + r.depth)
  <2>1. RunRecordAccepted(RunRecord(c))
    BY <1>1, <1>2, <1>3, <1>7 DEF RunRecord, RunRecordAccepted, WellFormed, Correlated
  <2> QED  BY <1>6, <2>1
<1> QED  BY <1>5, <1>7

\* What the boundary let through is what the caller is handed.
LEMMA AssembleKeeps ==
  ASSUME IInv, NEW c \in Calls, Assemble(c)
  PROVE  IInv'
<1> USE ServiceAssumption DEF Assemble, End, Go, world, history, Called
<1>1. TypeOK'
  BY DEF IInv, TypeOK
<1>2. CallInv'
  BY DEF IInv, TypeOK, CallInv
<1>3. ResponseInv'
  BY DEF IInv, TypeOK, CallInv, ResponseInv, WellFormed, Correlated
<1>4. ResultsFitTheCall'
  <2> DEFINE Fits(d) ==
        LET run == RunRecord(d)
        IN /\ run.started_at = started_at[d]
           /\ run.created_at <= run.started_at /\ run.started_at <= run.completed_at
           /\ \A a \in run.artifacts : run.started_at <= a /\ a <= run.completed_at
           /\ run.status \in Successful <=>
                run.result = Definition[request[d].workflow].result_schema
  <2>1. Fits(c)
    <3>1. /\ WellFormed(response[c]) /\ Correlated(c, response[c])
          /\ response[c] \in Response
      BY DEF IInv, ResponseInv
    <3>2. /\ request[c] \in Requests /\ request[c].workflow \in Workflows
          /\ started_at[c] \in Times /\ started_at[c] >= request[c].requested_at
      BY DEF IInv, CallInv
    <3>3. /\ request[c].requested_at \in Nat /\ started_at[c] \in Nat
          /\ response[c].completed_at \in Int /\ response[c].artifacts \subseteq Nat
      BY <3>1, <3>2, TimesAreInts
    <3>4. Definition[request[c].workflow].result_schema # None
      BY <3>2
    <3> QED  BY <3>1, <3>2, <3>3, <3>4 DEF RunRecord, WellFormed, Correlated
  <2>2. \A d \in Calls : Fits(d)' <=> Fits(d)
    BY DEF RunRecord
  <2>3. \A d \in Calls : d # c /\ outcome'[d] = "run_result" => Fits(d)
    BY DEF IInv, TypeOK, ResultsFitTheCall
  <2> QED  BY <2>1, <2>2, <2>3 DEF ResultsFitTheCall
<1>5. CancellationHonoured'
  BY DEF IInv, TypeOK, CallInv, ResponseInv, CancellationHonoured
<1>6. OnlySizeRefuses'
  <2>1. outcome'[c] = "validation_error" =>
          ~ (RunRecordAccepted(RunRecord(c)) /\ RunResultAccepted(c))
    BY DEF IInv, TypeOK
  <2>2. outcome'[c] = "validation_error" =>
          \/ 2 * response[c].contents + request[c].inputs + 6 * request[c].references
               > MaxItems - 55
          \/ response[c].depth > MaxDepth - 3
    BY <2>1, ContractsAgree
  <2>3. /\ UNCHANGED <<response, request>>
        /\ \A d \in Calls : d # c => outcome'[d] = outcome[d]
    BY DEF IInv, TypeOK
  <2> QED  BY <2>2, <2>3 DEF IInv, OnlySizeRefuses
<1> QED  BY <1>1, <1>2, <1>3, <1>4, <1>5, <1>6 DEF IInv

\* The rest of the world changes only what was not yet relied upon.
LEMMA WorldKeeps ==
  ASSUME IInv, \/ \E k \in Controls : Cancel(k)
               \/ \E x \in Changing : Change(x)
  PROVE  IInv'
<1> USE ServiceAssumption DEF Cancel, Change, call, history, Called
<1>1. TypeOK'
  BY ZenonT(60) DEF IInv, TypeOK
<1>2. CallInv'
  BY DEF IInv, TypeOK, CallInv
<1>3. ResponseInv'
  BY DEF IInv, TypeOK, CallInv, ResponseInv, WellFormed, Correlated
<1>4. OnlySizeRefuses' /\ ResultsFitTheCall' /\ CancellationHonoured'
  BY HandedOutKeeps DEF IInv, TypeOK, CallInv, None
<1> QED  BY <1>1, <1>2, <1>3, <1>4 DEF IInv

\* What a response of the mock says of the cancellation it sampled.
ToldByMock(c, r) ==
  /\ r \in Response
  /\ observed[c] => r.status = "cancelled" /\ r.artifacts = {} /\ r.result = None
  /\ r.status = "cancelled" => observed[c]

\* A response the mock made is a response, and says what the mock saw.
LEMMA MockAnswers ==
  ASSUME IInv, NEW c \in Calls, pc[c] = "sampled",
         NEW configured \in {"succeeded", "partially_succeeded", "failed"},
         NEW t \in Times, NEW artifacts \in SUBSET Times, NEW n \in MockArtifacts
  PROVE  ToldByMock(c, MockResponse(c, MockStatus(c, configured), t, artifacts, n))
<1> DEFINE status == MockStatus(c, configured)
<1>1. status \in Terminal /\ (status = "cancelled" <=> observed[c])
  BY DEF MockStatus, Terminal, Successful
<1>2. /\ started_at[c] \in Nat /\ t \in Nat /\ artifacts \in SUBSET Nat
      /\ Definition[request[c].workflow].result_schema \in STRING
  BY ServiceAssumption DEF IInv, CallInv, Called
<1>3. MockErrors(status) \in {None, "plain", "cancelled"}
  BY DEF MockErrors
<1>4. MockResponse(c, status, t, artifacts, n) \in Response
  <2> DEFINE r == MockResponse(c, status, t, artifacts, n)
  <2>1. /\ r.matches \in BOOLEAN /\ r.unique \in BOOLEAN
        /\ r.status \in Terminal \cup {"pending", "running"}
        /\ r.started_at \in Nat /\ r.completed_at \in Nat \cup {Never}
    BY <1>1, <1>2 DEF MockResponse
  <2>2. r.result \in STRING \cup {None}
    BY <1>2 DEF MockResponse
  <2>3. r.errors \in {None, "plain", "cancelled"}
    BY <1>3 DEF MockResponse
  <2>4. r.artifacts \in SUBSET Nat
    BY <1>2 DEF MockResponse
  <2>5. r = [matches |-> r.matches, status |-> r.status,
             started_at |-> r.started_at, completed_at |-> r.completed_at,
             result |-> r.result, errors |-> r.errors,
             artifacts |-> r.artifacts, unique |-> r.unique,
             contents |-> r.contents, depth |-> r.depth]
    BY Zenon DEF MockResponse
  <2>6. n \in Nat
    BY ServiceAssumption
  <2>7. r.contents \in Nat /\ r.depth \in Nat
    BY <2>6 DEF MockResponse
  <2> HIDE DEF r
  <2>8. r \in Response
    BY <2>1, <2>2, <2>3, <2>4, <2>5, <2>7 DEF Response
  <2> QED  BY <2>8 DEF r
<1>5. status = "cancelled" => status \notin Successful
  BY DEF Successful
<1> QED  BY <1>1, <1>4, <1>5 DEF MockResponse, ToldByMock

\* Every step keeps the invariant.
LEMMA NextKeeps == IInv /\ [Next]_vars => IInv'
<1> SUFFICES ASSUME IInv, [Next]_vars PROVE IInv'
  OBVIOUS
<1>1. ASSUME NEW c \in Calls, CallStep(c) PROVE IInv'
  <2>1. CASE \E q \in Requests, k \in Controls : Execute(c, q, k)
    BY <2>1, ExecuteKeeps
  <2>2. CASE CheckDefinition(c)
    <3>1. CASE DefinitionRefusal(request[c]) = None /\ Pass(c, "definition", "adapter")
      <4>1. request[c].workflow \in Workflows \ changed
        BY <3>1 DEF DefinitionRefusal, None
      <4>2. changed_before[c] \subseteq changed
        BY DEF IInv, CallInv
      <4> QED  BY <3>1, <4>1, <4>2, PassKeeps
    <3>2. CASE /\ DefinitionRefusal(request[c]) # None
               /\ End(c, "definition", DefinitionRefusal(request[c]))
      <4>1. DefinitionRefusal(request[c]) \in Refusals
        BY <3>2 DEF DefinitionRefusal, Refusals
      <4> QED  BY <3>2, <4>1, EndKeeps
    <3>3. CASE End(c, "definition", "raised")
      BY <3>3, EndKeeps
    <3> QED  BY <2>2, <3>1, <3>2, <3>3 DEF CheckDefinition
  <2>3. CASE ValidateRequest(c)
    <3>1. CASE Pass(c, "adapter", "runner")
      <4>1. request[c].workflow \in Workflows \ changed_before[c]
        BY <3>1 DEF IInv, CallInv, Pass, Go
      <4> QED  BY <3>1, <4>1, PassKeeps
    <3>2. CASE \E how \in {"workflow_input_invalid", "raised"} : End(c, "adapter", how)
      BY <3>2, EndKeeps DEF Refusals
    <3> QED  BY <2>3, <3>1, <3>2 DEF ValidateRequest
  <2>4. CASE CheckRunner(c)
    <3>1. CASE RunnerRefusal(request[c]) = None /\ Pass(c, "runner", "clock")
      <4>1. request[c].runner \in Runners \ changed
        BY <3>1 DEF RunnerRefusal, None
      <4>2. /\ changed_before[c] \subseteq changed
            /\ request[c].workflow \in Workflows \ changed_before[c]
        BY <3>1 DEF IInv, CallInv, Pass, Go
      <4> QED  BY <3>1, <4>1, <4>2, PassKeeps
    <3>2. CASE /\ RunnerRefusal(request[c]) # None
               /\ End(c, "runner", RunnerRefusal(request[c]))
      <4>1. RunnerRefusal(request[c]) \in Refusals
        BY <3>2 DEF RunnerRefusal, Refusals
      <4> QED  BY <3>2, <4>1, EndKeeps
    <3>3. CASE End(c, "runner", "raised")
      BY <3>3, EndKeeps
    <3> QED  BY <2>4, <3>1, <3>2, <3>3 DEF CheckRunner
  <2>5. CASE RefuseRequest(c) \/ RefuseArguments(c) \/ RefuseClock(c)
    BY <2>5, EndKeeps DEF RefuseRequest, RefuseArguments, RefuseClock, Refusals
  <2>6. CASE SampleClock(c)
    BY <2>6, SampleClockKeeps
  <2>7. CASE Dispatch(c) \/ SampleCancellation(c)
    BY <2>7, TokenKeeps
  <2>13. CASE RefuseRunnerRequest(c)
    BY <2>13, RefuseRunnerRequestKeeps
  <2>8. CASE RunnerReturns(c)
    <3>1. CASE \E r \in Responses : Respond(c, "running", r)
      BY <2>8, <3>1, ServiceAssumption, RespondKeeps DEF RunnerReturns
    <3>2. CASE \E how \in {"runner_boundary_failed", "raised"} : End(c, "running", how)
      BY <3>2, EndKeeps DEF Refusals
    <3> QED  BY <2>8, <3>1, <3>2 DEF RunnerReturns
  <2>9. CASE MockReturns(c)
    <3>1. PICK configured \in {"succeeded", "partially_succeeded", "failed"},
               t \in Times, artifacts \in SUBSET Times, n \in MockArtifacts :
            LET r == MockResponse(c, MockStatus(c, configured), t, artifacts, n)
            IN \/ /\ artifacts = {} <=> n = 0
                  /\ WellFormed(r) /\ Correlated(c, r)
                  /\ Respond(c, "sampled", r)
               \/ \E how \in {"runner_boundary_failed", "raised"} :
                    End(c, "sampled", how)
      BY <2>9 DEF MockReturns
    <3> DEFINE r == MockResponse(c, MockStatus(c, configured), t, artifacts, n)
    <3>2. /\ r \in Response
          /\ observed[c] => r.status = "cancelled" /\ r.artifacts = {} /\ r.result = None
          /\ r.status = "cancelled" => observed[c]
      <4>1. pc[c] = "sampled"
        BY <2>9 DEF MockReturns
      <4>2. ToldByMock(c, MockResponse(c, MockStatus(c, configured), t, artifacts, n))
        BY <4>1, MockAnswers
      <4> QED  BY <4>2 DEF ToldByMock
    <3> HIDE DEF r
    <3>3. CASE Respond(c, "sampled", r)
      BY <3>2, <3>3, RespondKeeps
    <3>4. CASE \E how \in {"runner_boundary_failed", "raised"} : End(c, "sampled", how)
      BY <3>4, EndKeeps DEF Refusals
    <3> QED  BY <3>1, <3>3, <3>4 DEF r
  <2>10. CASE CheckResponse(c)
    <3>1. CASE /\ WellFormed(response[c]) /\ Correlated(c, response[c])
               /\ \E to \in {"result", "assemble"} : Pass(c, "respond", to)
      <4>1. /\ request[c].workflow \in Workflows \ changed_before[c]
            /\ request[c].runner \in Runners \ changed_before[c]
        BY <3>1 DEF IInv, CallInv, Pass, Go, Called
      <4> QED  BY <3>1, <4>1, PassKeeps
    <3>2. CASE End(c, "respond", "runner_boundary_failed")
      BY <3>2, EndKeeps DEF Refusals
    <3> QED  BY <2>10, <3>1, <3>2 DEF CheckResponse
  <2>11. CASE ValidateResult(c)
    <3>1. CASE Pass(c, "result", "assemble")
      <4>1. /\ request[c].workflow \in Workflows \ changed_before[c]
            /\ request[c].runner \in Runners \ changed_before[c]
            /\ WellFormed(response[c]) /\ Correlated(c, response[c])
        BY <3>1 DEF IInv, CallInv, ResponseInv, Pass, Go, Called
      <4> QED  BY <3>1, <4>1, PassKeeps
    <3>2. CASE \E how \in {"workflow_result_invalid", "raised"} : End(c, "result", how)
      BY <3>2, EndKeeps DEF Refusals
    <3> QED  BY <2>11, <3>1, <3>2 DEF ValidateResult
  <2>12. CASE Assemble(c)
    BY <2>12, AssembleKeeps
  <2> QED  BY <1>1, <2>1, <2>2, <2>3, <2>4, <2>5, <2>6, <2>7, <2>8, <2>9,
              <2>10, <2>11, <2>12, <2>13 DEF CallStep
<1>2. CASE (\E k \in Controls : Cancel(k)) \/ (\E x \in Changing : Change(x))
  BY <1>2, WorldKeeps
<1>3. CASE UNCHANGED vars
  BY <1>3 DEF vars, world, call, history, IInv, TypeOK, CallInv, ResponseInv,
     OnlySizeRefuses, ResultsFitTheCall, CancellationHonoured, RunRecord, Called, WellFormed, Correlated
<1> QED  BY <1>1, <1>2, <1>3 DEF Next

\* The invariant holds in every reachable state.
THEOREM Inductive == Spec => []IInv
<1>1. Init => IInv
  BY InitInv
<1>2. IInv /\ [Next]_vars => IInv'
  BY NextKeeps
<1> QED  BY <1>1, <1>2, PTL DEF Spec

\* The values every variable takes.
THEOREM TypeCorrect == Spec => []TypeOK
<1>1. IInv => TypeOK
  BY DEF IInv
<1> QED  BY <1>1, Inductive, PTL

\* The caller is handed a record about the time and the schema of its own call,
\* however many calls run beside it and whatever the runner answered.
THEOREM ResultsFit == Spec => []ResultsFitTheCall
<1>1. IInv => ResultsFitTheCall
  BY DEF IInv
<1> QED  BY <1>1, Inductive, PTL

\* A cancellation before the runner is called is never lost, and no call ends
\* cancelled whose control was not cancelled.
THEOREM CancellationIsHonoured == Spec => []CancellationHonoured
<1>1. IInv => CancellationHonoured
  BY DEF IInv
<1> QED  BY <1>1, Inductive, PTL

\* What had changed before a call began is not called by it.
THEOREM ChangedIsNeverCalled == Spec => []ChangedNeverCalled
<1>1. IInv => ChangedNeverCalled
  BY DEF IInv, CallInv, ChangedNeverCalled, Called
<1> QED  BY <1>1, Inductive, PTL

\* For every response a runner can make, and every request: what gets past the
\* boundary is lost to the contracts only when it is too large or too deep.
THEOREM OnlySizeCanRefuse == Spec => []OnlySizeRefuses
<1>1. IInv => OnlySizeRefuses
  BY DEF IInv
<1> QED  BY <1>1, Inductive, PTL
=============================================================================
