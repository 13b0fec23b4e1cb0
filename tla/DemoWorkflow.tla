---------------------------- MODULE DemoWorkflow ----------------------------
(***************************************************************************)
(* The workflow of the demo product (products/demo/workflow.py): the core  *)
(* of Workflow with the three product agents and one exploration tool, the *)
(* product's own or a Product Pack's, and the handoff that extracts the    *)
(* verified knowledge from the state a run returned (artifact_handoff.py). *)
(*                                                                         *)
(* The core counts artifacts; here the documents themselves are kept as    *)
(* well.  run_saucedemo_workflow always injects the product agents; the    *)
(* handoff is also offered to runs with other agents, so any role may be   *)
(* foreign: it appends one document per call, as the convention has it.    *)
(* Foreign evidence may be about another workflow; foreign candidates and  *)
(* verdicts carry canonical ids of documents of the run, for the handoff   *)
(* refuses others at once, but what they say and when they say it was      *)
(* verified is theirs.  All times of the product agents are one: a clock a *)
(* run is given is sampled once, and without one nothing that depends on   *)
(* later times is decided here.                                            *)
(***************************************************************************)
EXTENDS Workflow, DemoArtifacts

CONSTANTS
  WorkflowId, ProductId,
  Tools,             \* bound: exploration tools a run may be given
  ForeignRoles,      \* bound: sets of roles that may be foreign
  ForeignEvidence,   \* bound: evidence of a foreign Explorer
  ForeignContents,   \* bound: content of a foreign candidate or snapshot
  ForeignTimes       \* bound: times a foreign verdict carries, besides SampledAt

\* A tool: of the product, with its step limit and the captures its browser
\* may return, none when it raises; or of a Product Pack, with the responses
\* of its bridge, none when the exchange fails.

ASSUME DocumentsAssumption ==
  /\ \A t \in Tools :
       IF t.kind = "product"
       THEN \A capture \in t.captures : \A c \in capture : IsContent(c)
       ELSE \A response \in t.responses : \A r \in response :
              /\ {"request_id", "evidence"} \subseteq DOMAIN r
              /\ \A ev \in r.evidence : "content" \in DOMAIN ev /\ IsContent(ev.content)
  /\ \A ev \in ForeignEvidence : IsContent(ev.content)

VARIABLES
  tool, foreign,         \* fixed for the run
  evidence_docs, candidate_docs, result_docs

documents == <<evidence_docs, candidate_docs, result_docs>>
demo_vars == <<vars, tool, foreign, documents>>

SampledAt   == 1
RequestedAt == 1
ToolId      == "saucedemo_explore"
ActionCount == 4

DemoInit ==
  /\ Init
  /\ tool \in Tools /\ foreign \in ForeignRoles
  /\ evidence_docs = <<>> /\ candidate_docs = <<>> /\ result_docs = <<>>

-----------------------------------------------------------------------------
(* The Explorer and its tool *)

InvocationId == issued[Len(issued)]

\* What the tool answers to a capture: evidence, or a failed result.
CaptureEvidence(capture) ==
  {[evidence_id |-> <<"evidence", WorkflowId, InvocationId>>,
    workflow_id |-> WorkflowId, product_id |-> ProductId,
    tool_id |-> ToolId, capture_id |-> InvocationId,
    captured_at |-> SampledAt, content |-> c] :
     c \in {c \in capture : ActionCount <= tool.maximum_steps /\ CaptureAccepted(c)}}

BridgeRequest ==
  [request_id |-> InvocationId, workflow_id |-> WorkflowId, product_id |-> ProductId,
   pack_id |-> tool.pack_id, tool_id |-> ToolId, requested_at |-> RequestedAt]

\* What a pack sends is about the request it saw, or about the one before.
RequestId(which) ==
  IF which = "same" THEN InvocationId ELSE <<InvocationId[1] - 1, Explorer>>

Addressed(r) ==
  [r EXCEPT !.request_id = RequestId(@),
            !.evidence = {[ev EXCEPT !.capture_id = RequestId(@)] : ev \in @}]

PackEvidence(response) ==
  UNION {r.evidence : r \in {r \in response : /\ ResponseAccepted(r)
                                              /\ ResponseCorrelated(BridgeRequest, r)
                                              /\ r.status = "succeeded"}}

Answers ==
  IF tool.kind = "product" THEN {CaptureEvidence(c) : c \in tool.captures}
  ELSE {PackEvidence({Addressed(r) : r \in response}) : response \in tool.responses}

\* The Explorer's own check of the evidence its tool returned.
EvidenceCorrelated(ev) ==
  /\ CaptureAccepted(ev.content)
  /\ ev.workflow_id = WorkflowId /\ ev.product_id = ProductId
  /\ ev.tool_id = ToolId /\ ev.capture_id = InvocationId

Running(role) == node = "agent" /\ selected_agent = role

Fails(role) == FinishAgent(FailurePatch(role)) /\ UNCHANGED documents

ExplorerAdds(ev) ==
  /\ \E p \in SuccessPatches(Explorer) : FinishAgent(p)
  /\ evidence_docs' = Append(evidence_docs, ev)
  /\ UNCHANGED <<candidate_docs, result_docs>>

Explore ==
  /\ Running(Explorer) /\ Explorer \notin foreign
  /\ \E answer \in Answers :
       LET usable == {ev \in answer : EvidenceCorrelated(ev)}
       IN \/ \E ev \in usable : ExplorerAdds(ev)
          \/ usable = {} /\ Fails(Explorer)

-----------------------------------------------------------------------------
(* Reading the documents of the state, the same in agents and handoff *)

OfThisRun(d) == d.workflow_id = WorkflowId /\ d.product_id = ProductId

EvidenceReadable ==
  /\ \A ev \in Range(evidence_docs) : CaptureAccepted(ev.content) /\ OfThisRun(ev)
  /\ IsInjective([i \in DOMAIN evidence_docs |-> evidence_docs[i].evidence_id])

EvidenceWithId(id) == {ev \in Range(evidence_docs) : ev.evidence_id = id}

\* Every candidate has its own evidence; ids are functions of that evidence.
CandidatesReadable ==
  /\ \A c \in Range(candidate_docs) :
       CandidateAccepted(c) /\ OfThisRun(c) /\ EvidenceWithId(c.source_evidence_id) # {}
  /\ IsInjective([i \in DOMAIN candidate_docs |-> candidate_docs[i].source_evidence_id])

CandidateWithId(id) == {c \in Range(candidate_docs) : c.candidate_id = id}

\* A result names its candidate and that candidate's evidence.
ResultReferences(v) ==
  \E c \in CandidateWithId(v.candidate_id) : c.source_evidence_id = v.source_evidence_id

ResultPairs(v) == CandidateWithId(v.candidate_id) \X EvidenceWithId(v.source_evidence_id)

ResultReferable(v) == ResultAccepted(v) /\ OfThisRun(v) /\ ResultReferences(v)

\* Repeating the validation gives the result again.
ResultConsistent(v) ==
  \A pair \in ResultPairs(v) :
    /\ ~ ValidationRefuses(pair[1], pair[2]) /\ Mappable(pair[2].content)
    /\ v = BuildValidation(pair[1], pair[2], v.validated_at)

ResultsUpToReadable(n) ==
  /\ \A i \in 1 .. n : ResultReferable(result_docs[i]) /\ ResultConsistent(result_docs[i])
  /\ IsInjective([i \in 1 .. n |-> result_docs[i].candidate_id])

ResultsReadable == ResultsUpToReadable(Len(result_docs))

\* The results are good up to one whose repeated validation ends in an error
\* of the mapping.
ResultsRaise ==
  \E i \in DOMAIN result_docs :
    /\ ResultsUpToReadable(i - 1) /\ ResultReferable(result_docs[i])
    /\ \E pair \in ResultPairs(result_docs[i]) : ValidationRaises(pair[1], pair[2])

-----------------------------------------------------------------------------
(* The Knowledge agent and the Validator *)

Unprocessed ==
  {ev \in Range(evidence_docs) :
     \A c \in Range(candidate_docs) : c.source_evidence_id # ev.evidence_id}

KnowledgeSelects ==
  evidence_docs # <<>> /\ EvidenceReadable /\ CandidatesReadable
    /\ Cardinality(Unprocessed) = 1

KnowledgeAdds(c) ==
  /\ \E p \in SuccessPatches(Knowledge) : FinishAgent(p)
  /\ candidate_docs' = Append(candidate_docs, c)
  /\ UNCHANGED <<evidence_docs, result_docs>>

\* Seeded fault: an error of the mapping is not caught.
KnowledgeFailsUncaught ==
  IF KnowledgeSelects
  THEN Raise("agent_error") /\ UNCHANGED <<steps, documents>>
  ELSE Fails(Knowledge)

KnowledgeFails == Fails(Knowledge)

Learn ==
  /\ Running(Knowledge) /\ Knowledge \notin foreign
  /\ IF KnowledgeSelects /\ \A ev \in Unprocessed : Mappable(ev.content)
     THEN \E ev \in Unprocessed : KnowledgeAdds(BuildCandidate(ev))
     ELSE KnowledgeFails

Unvalidated ==
  {c \in Range(candidate_docs) :
     \A v \in Range(result_docs) : v.candidate_id # c.candidate_id}

ReadableToValidator ==
  evidence_docs # <<>> /\ candidate_docs # <<>> /\ EvidenceReadable /\ CandidatesReadable

ValidatorSelects ==
  ReadableToValidator /\ ResultsReadable /\ Cardinality(Unvalidated) = 1

\* The candidate the Validator would select, with its evidence.
Selected == {pair \in Unvalidated \X Range(evidence_docs) :
               pair[2].evidence_id = pair[1].source_evidence_id}

ValidatorAdds(v) ==
  /\ \E p \in SuccessPatches(Validator) :
       p.validation_results = <<v.status>> /\ FinishAgent(p)
  /\ result_docs' = Append(result_docs, v)
  /\ UNCHANGED <<evidence_docs, candidate_docs>>

\* The Validator catches its own errors and not those of the mapping it repeats.
MappingErrorEscapes ==
  /\ ReadableToValidator
  /\ \/ ResultsRaise
     \/ ValidatorSelects /\ \E pair \in Selected : ValidationRaises(pair[1], pair[2])

ValidatorRaises ==
  /\ Running(Validator) /\ Validator \notin foreign
  /\ MappingErrorEscapes
  /\ Raise("agent_error")
  /\ UNCHANGED <<steps, documents>>

Validate ==
  /\ Running(Validator) /\ Validator \notin foreign
  /\ ~ MappingErrorEscapes
  /\ IF ValidatorSelects /\ \A pair \in Selected : ~ ValidationRefuses(pair[1], pair[2])
     THEN \E pair \in Selected :
            ValidatorAdds(BuildValidation(pair[1], pair[2], SampledAt))
     ELSE Fails(Validator)

-----------------------------------------------------------------------------
(* Foreign agents: one document per call *)

ForeignExplore ==
  /\ Running(Explorer) /\ Explorer \in foreign
  /\ \E ev \in ForeignEvidence : ExplorerAdds(ev)

\* A candidate of any evidence of the run with any content, or one that is
\* verified before anybody validated it.
ForeignCandidates ==
  UNION {{[BuildCandidate(ev) EXCEPT !.knowledge.content = MappedContent(c)] :
             c \in ForeignContents \cup {ev.content}}
          \cup {[BuildCandidate(ev) EXCEPT !.knowledge.lifecycles = {VerifiedAt(SampledAt)}]} :
           ev \in Range(evidence_docs)}

ForeignLearn ==
  /\ Running(Knowledge) /\ Knowledge \in foreign
  /\ \E c \in ForeignCandidates : KnowledgeAdds(c)

\* A verdict on any candidate of the run, of any time, passed with any
\* content that is verified at any time.
ForeignResults ==
  LET times == {SampledAt} \cup ForeignTimes
      claimed(c) == {c.knowledge} \cup
                      {[c.knowledge EXCEPT !.content = MappedContent(d)] : d \in ForeignContents}
  IN UNION {{Result(c, "failed", t, {}) : t \in times}
              \cup {Result(c, "passed", t, {VerifiedSnapshot(k, u)}) :
                      k \in claimed(c), t \in times, u \in times} :
            c \in Range(candidate_docs)}

ForeignValidate ==
  /\ Running(Validator) /\ Validator \in foreign
  /\ \E v \in ForeignResults : ValidatorAdds(v)

AgentStep ==
  \/ Explore
  \/ Learn
  \/ Validate
  \/ ValidatorRaises
  \/ ForeignExplore
  \/ ForeignLearn
  \/ ForeignValidate

GraphStep ==
  \/ SuperviseTerminal
  \/ SuperviseFail
  \/ SuperviseReject
  \/ SuperviseComplete
  \/ SuperviseLimit
  \/ SuperviseRoute
  \/ StartAgent
  \/ RecursionLimit

DemoStep ==
  /\ AgentStep \/ (GraphStep /\ UNCHANGED documents)
  /\ UNCHANGED <<tool, foreign>>

-----------------------------------------------------------------------------
(* The handoff *)

\* Evidence, candidates and results correspond one to one, in order.
InOrder ==
  LET sources == [i \in DOMAIN evidence_docs |-> evidence_docs[i].evidence_id]
  IN /\ [i \in DOMAIN candidate_docs |-> candidate_docs[i].source_evidence_id] = sources
     /\ [i \in DOMAIN result_docs |-> result_docs[i].source_evidence_id] = sources
     /\ [i \in DOMAIN result_docs |-> result_docs[i].candidate_id] =
          [i \in DOMAIN candidate_docs |-> candidate_docs[i].candidate_id]

Completed == outcome = "returned" /\ status = "completed"

\* Seeded fault: every verdict must have passed, not only the latest.
VerdictsAcceptedAll == \A v \in Range(result_docs) : v.status = "passed"

VerdictsAccepted == result_docs[Len(result_docs)].status = "passed"

HandoffAccepted ==
  /\ Completed /\ termination_reason = "goal_completed" /\ errors = 0
  /\ result_docs # <<>>
  /\ EvidenceReadable /\ CandidatesReadable /\ ResultsReadable /\ InOrder
  /\ VerdictsAccepted

\* The verified knowledge of the run, if the handoff gives it out.
Extracted ==
  IF HandoffAccepted THEN result_docs[Len(result_docs)].verified_knowledge ELSE {}

-----------------------------------------------------------------------------
(* Properties *)

\* The product agents, whatever the browser or a pack returns, are agents of
\* the core that follow its convention, and none of them lets an exception
\* out: a run of them is a run of Workflow with HonestPatches.
ConventionKept == [][foreign = {} => Next]_vars

\* The handoff gives out only what the last capture of a completed run showed,
\* item for item, whoever the agents were, as verified at the time of the
\* verdict itself: the run's when the Validator is the product's, any time when
\* it is not.  Every earlier verdict of that run failed.  And the capture was
\* made for a call of this run, not before it was asked for, whatever a pack
\* answers.
HandoffSound ==
  \A k \in Extracted :
    /\ status = "completed" /\ Len(evidence_docs) = Len(validation_results)
    /\ LET last    == evidence_docs[Len(evidence_docs)]
           verdict == result_docs[Len(evidence_docs)]
       IN /\ OfThisRun(last)
          /\ k.content = MappedContent(last.content)
          /\ k.lifecycles = Lifecycles(last.content, VerifiedAt(verdict.validated_at))
          /\ Validator \notin foreign => verdict.validated_at = SampledAt
          /\ k.artifact_id = ArtifactId(WorkflowId, ProductId, last.evidence_id)
          /\ Explorer \notin foreign =>
               last.capture_id \in Range(issued) /\ last.captured_at >= RequestedAt
    /\ \A i \in 1 .. Len(evidence_docs) - 1 :
         candidate_docs[i].knowledge.content # MappedContent(evidence_docs[i].content)
           \/ candidate_docs[i].knowledge.lifecycles # Lifecycles(evidence_docs[i].content, New)

\* The handoff refuses no completed run whose verdicts are the product
\* Validator's: what it checks again, the Validator has checked before.
HandoffAccepts == Completed /\ Validator \notin foreign => Extracted # {}

-----------------------------------------------------------------------------
(* The inductive strengthening of ConventionKept and HandoffSound. *)

\* The documents are sequences of documents, whoever added them.
ShapeInv ==
  /\ tool \in Tools
  /\ evidence_docs \in Seq(Range(evidence_docs))
  /\ candidate_docs \in Seq(Range(candidate_docs))
  /\ result_docs \in Seq(Range(result_docs))
  /\ validation_results \in Seq(Verdict)
  /\ \A ev \in Range(evidence_docs) : IsContent(ev.content)
  /\ \A c \in Range(candidate_docs) : IsCandidate(c)

\* The verdicts the supervisor reads are those of the results.
VerdictsInv ==
  /\ Len(result_docs) = Len(validation_results)
  /\ \A i \in DOMAIN result_docs :
       /\ result_docs[i].status = validation_results[i]
       /\ Validator \notin foreign => result_docs[i].validated_at = SampledAt

\* A run ends completed only when all verdicts but the last failed, and
\* nothing is added afterwards.
SettledInv ==
  /\ status \in Terminal => node \in {"supervisor", "end"}
  /\ status = "completed" =>
       \A i \in 1 .. Len(validation_results) - 1 : validation_results[i] = "failed"

\* What the product's Knowledge agent adds was mapped from evidence of the run.
MappedInv ==
  foreign = {} =>
    \A c \in Range(candidate_docs) :
      \E ev \in Range(evidence_docs) : c = BuildCandidate(ev) /\ Mappable(ev.content)

\* What the product's Explorer adds was captured for a call of the run.
CapturedInv ==
  /\ issued \in Seq(Range(issued)) /\ (node = "agent" => issued # <<>>)
  /\ Explorer \notin foreign =>
       \A ev \in Range(evidence_docs) :
         ev.capture_id \in Range(issued) /\ ev.captured_at >= RequestedAt

DemoInv == ShapeInv /\ VerdictsInv /\ SettledInv /\ MappedInv /\ CapturedInv

-----------------------------------------------------------------------------
(* The inductive strengthening of HandoffAccepts. *)

\* The core's counts are those of the documents.
CountsInv ==
  Len(evidence_docs) = evidence /\ Len(candidate_docs) = knowledge_candidates

\* The product Validator's results name the candidates and the evidence in
\* their own places.
OrderInv ==
  Validator \notin foreign =>
    \A i \in DOMAIN result_docs :
      /\ i \in DOMAIN candidate_docs /\ i \in DOMAIN evidence_docs
      /\ candidate_docs[i].source_evidence_id = evidence_docs[i].evidence_id
      /\ result_docs[i].source_evidence_id = evidence_docs[i].evidence_id
      /\ result_docs[i].candidate_id = candidate_docs[i].candidate_id

\* When it has passed a candidate, every document of the run can be read.
PassedInv ==
  Validator \notin foreign /\ ValidationPassed(validation_results) =>
    /\ EvidenceReadable /\ CandidatesReadable /\ ResultsReadable
    /\ result_docs[Len(result_docs)].verified_knowledge # {}

CompletedInv ==
  status = "completed" =>
    /\ termination_reason = "goal_completed" /\ errors = 0
    /\ ValidationPassed(validation_results)

HandoffInv == CountsInv /\ OrderInv /\ PassedInv /\ CompletedInv
=============================================================================
