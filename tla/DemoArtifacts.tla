--------------------------- MODULE DemoArtifacts ---------------------------
(***************************************************************************)
(* What the demo product makes of a capture: exploration evidence          *)
(* (pmqa/models/exploration.py), the knowledge mapped from it              *)
(* (products/demo/knowledge_mapping.py), the validation result with the    *)
(* verified snapshot (validation.py), the answer of a Product Pack         *)
(* (bridge_protocol.py), and the evidence the test generator needs         *)
(* (generator.py).                                                         *)
(*                                                                         *)
(* A capture has pages, elements, locators and interactions, as sequences  *)
(* of records.  Optional documents are sets with at most one member.  An   *)
(* id that is a digest of other ids is the tuple of those ids.             *)
(***************************************************************************)
EXTENDS Integers, Sequences, FiniteSets, Functions

CONSTANTS
  NormalName,       \* attribute name -> its normalized form
  ProhibitedNames   \* normalized names that must not cross the boundary

Ids(items) == [i \in DOMAIN items |-> items[i].id]
Distinct(items) == IsInjective(Ids(items))
IdSet(items) == Range(Ids(items))

Collections == {"pages", "elements", "locators", "interactions"}

\* The shape of a batch, whatever its items are.
IsContent(c) ==
  /\ c = [part \in Collections |-> c[part]]
  /\ \A part \in Collections : c[part] \in Seq(Range(c[part]))

\* Every reference stays within the batch.
ReferencesKept(c) ==
  /\ \A e \in Range(c.elements) : e.page_id \in IdSet(c.pages)
  /\ \A l \in Range(c.locators) : l.element_id \in IdSet(c.elements)
  /\ \A i \in Range(c.interactions) :
       i.source_page_id \in IdSet(c.pages) /\ i.target_element_id \in IdSet(c.elements)

BatchAccepted(c) ==
  /\ \A part \in Collections : Distinct(c[part])
  /\ ReferencesKept(c)
  /\ \A l \in Range(c.locators) : l.priority >= 1

Prohibited(name) == NormalName[name] \in ProhibitedNames

\* The contract of ExplorationEvidence: attribute names differ as written.
CaptureAccepted(c) ==
  /\ BatchAccepted(c)
  /\ \A e \in Range(c.elements) :
       IsInjective(e.attributes) /\ \A name \in Range(e.attributes) : ~ Prohibited(name)

-----------------------------------------------------------------------------
(* Knowledge candidates *)

New           == [state |-> "new", last_verified |-> 0]
VerifiedAt(t) == [state |-> "verified", last_verified |-> t]

\* Attribute names have to differ even after normalization.
AttributesMapped(names) ==
  /\ \A m, n \in names : NormalName[m] = NormalName[n] => m = n
  /\ \A n \in names : ~ Prohibited(n)

Mappable(c) == \A e \in Range(c.elements) : AttributesMapped(Range(e.attributes))

\* Attributes become a dictionary; every item is new.
MappedContent(c) ==
  [c EXCEPT !.elements = [i \in DOMAIN @ |-> [@[i] EXCEPT !.attributes = Range(@)]]]

\* The lifecycles found on the items of a batch, when all have the same.
Lifecycles(c, lifecycle) ==
  IF \A part \in Collections : c[part] = <<>> THEN {} ELSE {lifecycle}

CandidateId(w, p, e)     == <<"candidate", w, p, e>>
ArtifactId(w, p, e)      == <<"knowledge", w, p, e>>
ValidationId(w, p, c, e) == <<"validation", w, p, c, e>>

\* The candidate of mappable evidence.
BuildCandidate(ev) ==
  [candidate_id       |-> CandidateId(ev.workflow_id, ev.product_id, ev.evidence_id),
   workflow_id        |-> ev.workflow_id,
   product_id         |-> ev.product_id,
   source_evidence_id |-> ev.evidence_id,
   knowledge          |->
     [artifact_id          |-> ArtifactId(ev.workflow_id, ev.product_id, ev.evidence_id),
      product_id           |-> ev.product_id,
      reasoning_provenance |-> "mapping",
      lifecycles           |-> Lifecycles(ev.content, New),
      content              |-> MappedContent(ev.content)]]

\* The shape of a candidate.
IsCandidate(c) ==
  c = [candidate_id       |-> c.candidate_id,
       workflow_id        |-> c.workflow_id,
       product_id         |-> c.product_id,
       source_evidence_id |-> c.source_evidence_id,
       knowledge          |->
         [artifact_id          |-> c.knowledge.artifact_id,
          product_id           |-> c.knowledge.product_id,
          reasoning_provenance |-> c.knowledge.reasoning_provenance,
          lifecycles           |-> c.knowledge.lifecycles,
          content              |-> c.knowledge.content]]

KnowledgeAccepted(k) ==
  /\ k.reasoning_provenance = "mapping"
  /\ k.lifecycles \subseteq {New}
  /\ BatchAccepted(k.content)
  /\ \A e \in Range(k.content.elements) : AttributesMapped(e.attributes)

CandidateCorrelated(c) ==
  /\ c.knowledge.product_id = c.product_id
  /\ c.candidate_id = CandidateId(c.workflow_id, c.product_id, c.source_evidence_id)
  /\ c.knowledge.artifact_id = ArtifactId(c.workflow_id, c.product_id, c.source_evidence_id)

CandidateAccepted(c) == KnowledgeAccepted(c.knowledge) /\ CandidateCorrelated(c)

-----------------------------------------------------------------------------
(* Validation results *)

VerifiedSnapshot(k, t) ==
  [k EXCEPT !.lifecycles = Lifecycles(k.content, VerifiedAt(t))]

\* Inputs build_validation_result refuses with its own error.
ValidationRefuses(c, ev) ==
  \/ ~ CandidateAccepted(c) \/ ~ CaptureAccepted(ev.content)
  \/ c.workflow_id # ev.workflow_id \/ c.product_id # ev.product_id
  \/ c.source_evidence_id # ev.evidence_id

\* Inputs on which the mapping it repeats raises an error of the mapping.
ValidationRaises(c, ev) == ~ ValidationRefuses(c, ev) /\ ~ Mappable(ev.content)

\* A result about the candidate c; verified is the snapshot, if there is one.
Result(c, status, t, verified) ==
  [validation_id      |-> ValidationId(c.workflow_id, c.product_id, c.candidate_id,
                                       c.source_evidence_id),
   workflow_id        |-> c.workflow_id,
   product_id         |-> c.product_id,
   candidate_id       |-> c.candidate_id,
   source_evidence_id |-> c.source_evidence_id,
   status             |-> status,
   check              |-> status,
   validated_at       |-> t,
   verified_knowledge |-> verified]

BuildValidation(c, ev, t) ==
  IF c = BuildCandidate(ev)
  THEN Result(c, "passed", t, {VerifiedSnapshot(c.knowledge, t)})
  ELSE Result(c, "failed", t, {})

\* A verified snapshot, taken back to its candidate, is one.
VerifiedAccepted(k, v) ==
  /\ k.lifecycles \subseteq {VerifiedAt(v.validated_at)}
  /\ CandidateAccepted([candidate_id       |-> v.candidate_id,
                        workflow_id        |-> v.workflow_id,
                        product_id         |-> v.product_id,
                        source_evidence_id |-> v.source_evidence_id,
                        knowledge |->
                          [k EXCEPT !.lifecycles = Lifecycles(k.content, New)]])

ResultIdsAccepted(v) ==
  /\ v.candidate_id = CandidateId(v.workflow_id, v.product_id, v.source_evidence_id)
  /\ v.validation_id = ValidationId(v.workflow_id, v.product_id, v.candidate_id,
                                    v.source_evidence_id)

\* What a stored validation result must satisfy on its own.
ResultAccepted(v) ==
  /\ v.status \in {"passed", "failed"} /\ v.check = v.status
  /\ IF v.status = "passed"
     THEN v.verified_knowledge # {} /\ \A k \in v.verified_knowledge : VerifiedAccepted(k, v)
     ELSE v.verified_knowledge = {}
  /\ ResultIdsAccepted(v)

-----------------------------------------------------------------------------
(* The answer of a Product Pack to one exploration request *)

CorrelatedFields == {"request_id", "workflow_id", "product_id", "pack_id", "tool_id"}

ResponseAccepted(r) ==
  IF r.status = "succeeded"
  THEN /\ r.evidence # {} /\ ~ r.failure_code
       /\ \A ev \in r.evidence :
            /\ CaptureAccepted(ev.content)
            /\ \A f \in {"workflow_id", "product_id", "tool_id"} : ev[f] = r[f]
            /\ ev.captured_at <= r.completed_at
  ELSE r.evidence = {} /\ r.failure_code

\* Seeded fault: evidence of an earlier capture will do.
ResponseCorrelatedLoosely(q, r) ==
  /\ \A f \in CorrelatedFields : r[f] = q[f]
  /\ r.completed_at >= q.requested_at

ResponseCorrelated(q, r) ==
  /\ \A f \in CorrelatedFields : r[f] = q[f]
  /\ r.completed_at >= q.requested_at
  /\ \A ev \in r.evidence :
       ev.captured_at >= q.requested_at /\ ev.capture_id = q.request_id

-----------------------------------------------------------------------------
(* Test generation: the relationships a test of the login needs *)

LoginInteractions(c) ==
  {i \in Range(c.interactions) : i.action = "click" /\ i.outcome_type = "navigation"}

Located(c, e) == \E l \in Range(c.locators) : l.element_id = e.id

\* A page whose URL ends with the value; "endings" are the values it ends with.
Destinations(c, value) == {p \in Range(c.pages) : value \in p.endings}

Named(c, page_id, name) ==
  {e \in Range(c.elements) : e.page_id = page_id /\ e.name = name}

Headings(c, page_id) ==
  {e \in Range(c.elements) :
     e.page_id = page_id /\ e.role = "heading" /\ e.text # "" /\ Located(c, e)}

LoginReplayable(c, i) ==
  /\ \E e \in Range(c.elements) :
       e.id = i.target_element_id /\ e.page_id = i.source_page_id /\ Located(c, e)
  /\ i.outcome_value # ""
  /\ \A name \in {"username", "password"} :
       LET named == Named(c, i.source_page_id, name)
       IN Cardinality(named) = 1 /\ \A e \in named : Located(c, e)
  /\ LET pages == Destinations(c, i.outcome_value)
     IN Cardinality(pages) = 1 /\ \A p \in pages : Cardinality(Headings(c, p.id)) = 1

Generable(c) ==
  /\ Cardinality(LoginInteractions(c)) = 1
  /\ \A i \in LoginInteractions(c) : LoginReplayable(c, i)
=============================================================================
