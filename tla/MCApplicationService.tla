------------------------ MODULE MCApplicationService ------------------------
(***************************************************************************)
(* An instance of ApplicationService for TLC: a mock and another runner,   *)
(* a plain workflow and one that wants approval, a request for every       *)
(* check, and responses that each miss one clause of the boundary.         *)
(***************************************************************************)
EXTENDS ApplicationService, TLC

TwoDefinitions ==
  [w \in {"plain", "guarded"} |->
     [input_schema |-> "in", result_schema |-> "out", required |-> {"run"},
      approval |-> IF w = "guarded" THEN "before_execution" ELSE None]]

ThreeRunners ==
  [r \in {"mock", "other", "idle"} |-> IF r = "idle" THEN {} ELSE {"run"}]

Ask(w, r, t) ==
  [workflow |-> w, input_schema |-> "in", runner |-> r, requested_at |-> t,
   inputs |-> 0, depth |-> 0, references |-> 0]

SomeRequests ==
  {Ask("plain", "mock", 1), Ask("plain", "other", 1),
   Ask("plain", "idle", 1), Ask("plain", "unknown", 1),
   Ask("guarded", "other", 1), Ask("unknown", "other", 1),
   [Ask("plain", "other", 1) EXCEPT !.input_schema = "old"],
   [Ask("plain", "other", 2) EXCEPT !.inputs = 900, !.depth = 30, !.references = 2],
   [Ask("plain", "other", 2) EXCEPT !.inputs = 4084],
   [Ask("plain", "other", 2) EXCEPT !.inputs = 31, !.depth = 31]}

Good(t) ==
  [matches |-> TRUE, status |-> "succeeded", started_at |-> t, completed_at |-> 3,
   result |-> "out", errors |-> None, artifacts |-> {t, 3}, unique |-> TRUE,
   contents |-> 20, depth |-> 1]

\* 2 * 2020 + 55 < 4096 < 2 * 2021 + 55; 2 * 1564 + 900 + 12 + 55 < 4096.
Sizes == {1564, 1565, 2020, 2021, 4077, 4078}

SomeResponses ==
  {Good(2), Good(1), [Good(2) EXCEPT !.matches = FALSE],
   [Good(2) EXCEPT !.artifacts = {1}], [Good(2) EXCEPT !.artifacts = {4}],
   [Good(2) EXCEPT !.unique = FALSE], [Good(2) EXCEPT !.result = "other"],
   [Good(2) EXCEPT !.completed_at = 1, !.artifacts = {}],
   [Good(2) EXCEPT !.errors = "plain"],
   [Good(2) EXCEPT !.errors = "plain", !.status = "partially_succeeded"],
   [Good(2) EXCEPT !.errors = "plain", !.status = "failed"],
   [Good(2) EXCEPT !.errors = "plain", !.status = "failed", !.result = None],
   [Good(2) EXCEPT !.errors = "cancelled", !.status = "cancelled", !.result = None],
   [Good(2) EXCEPT !.status = "running", !.completed_at = Never]}
    \cup {[Good(2) EXCEPT !.contents = n] : n \in Sizes}
    \cup {[Good(2) EXCEPT !.contents = 40, !.depth = d] : d \in 29 .. 31}

CallSymmetry == Permutations(Calls)
=============================================================================
