--------------------------- MODULE MCUsageSummary ---------------------------
(***************************************************************************)
(* Selections of up to three records for TLC, one with four.  Amounts are  *)
(* at most four characters long: 9.99 is the longest price, 10 the sum of  *)
(* two whose written form would fit but whose exact sum, 10.00, does not.  *)
(***************************************************************************)
EXTENDS UsageSummary

NoCost ==
  [cost_type |-> "unavailable", amount |-> None, currency |-> None,
   pricing_source_id |-> None, pricing_version |-> None,
   pricing_effective_at |-> None, unavailable_reason |-> "not_reported"]

Reported(amount) ==
  [NoCost EXCEPT !.cost_type = "provider_reported", !.amount = amount,
                 !.currency = "EUR", !.unavailable_reason = None]

Estimated(amount) ==
  [Reported(amount) EXCEPT !.cost_type = "estimated", !.pricing_source_id = "list",
                           !.pricing_version = "v1", !.pricing_effective_at = 1]

NoTokens ==
  [source |-> "unavailable", tokens |-> [f \in {} |-> 0], unavailable_fields |-> TokenField]

SomeTokens(n) ==
  [source |-> "provider_reported", tokens |-> [f \in {"input_tokens"} |-> n],
   unavailable_fields |-> TokenField \ {"input_tokens"}]

Plain ==
  [invocation_id |-> 0, session_id |-> "s1", run_id |-> "r1", provider |-> "p1",
   model |-> "m1", model_unavailable_reason |-> None, status |-> "succeeded",
   error_category |-> None, started_at |-> 1, completed_at |-> 2, duration_ms |-> 1,
   attempt_number |-> 1, retry_of_invocation_id |-> None,
   fallback_from_invocation_id |-> None, usage |-> SomeTokens(3),
   cost |-> Reported(Decimal(5, 1))]

\* Records of either kind of cost, of two models and an unknown one.
Sound ==
  {Plain,
   [Plain EXCEPT !.cost = Reported(Decimal(999, 2)), !.provider = "p2"],
   [Plain EXCEPT !.cost = Reported(Decimal(1, 2)), !.model = "m2"],
   [Plain EXCEPT !.cost = Reported(Decimal(9000, 0)), !.usage = NoTokens],
   [Plain EXCEPT !.cost = Reported(Decimal(500, 1)), !.duration_ms = 3],
   [Plain EXCEPT !.cost = Estimated(Decimal(5, 1)), !.usage = SomeTokens(0)],
   [Plain EXCEPT !.cost = NoCost, !.model = None, !.model_unavailable_reason = "not_reported",
                 !.status = "failed", !.error_category = "internal"],
   [Plain EXCEPT !.cost = Reported(Decimal(0, 0)), !.model = None,
                 !.model_unavailable_reason = "not_supported", !.attempt_number = 2,
                 !.retry_of_invocation_id = 9],
   [Plain EXCEPT !.cost = [NoCost EXCEPT !.cost_type = "subscription_included",
                                         !.unavailable_reason = None],
                 !.status = "cancelled", !.error_category = "cancelled",
                 !.attempt_number = 3, !.fallback_from_invocation_id = 9],
   [Plain EXCEPT !.cost = [Reported(Decimal(50, 1)) EXCEPT !.currency = "USD"],
                 !.usage = SomeTokens(5)]}

\* Records no contract would have let through, each wrong in one way, and
\* records of another session or with an invocation id used before.
Unsound ==
  {[Plain EXCEPT !.cost.currency = None],
   [Plain EXCEPT !.cost.amount = Decimal(9999, 2)],
   [Plain EXCEPT !.cost = [Estimated(Decimal(5, 1)) EXCEPT !.pricing_version = None]],
   [Plain EXCEPT !.cost = [Estimated(Decimal(5, 1)) EXCEPT !.pricing_effective_at = 2]],
   [Plain EXCEPT !.cost = [NoCost EXCEPT !.unavailable_reason = None]],
   [Plain EXCEPT !.attempt_number = 2, !.retry_of_invocation_id = 8,
                 !.fallback_from_invocation_id = 9],
   [Plain EXCEPT !.model_unavailable_reason = "not_reported"],
   [Plain EXCEPT !.usage = [SomeTokens(3) EXCEPT !.unavailable_fields = {}]],
   [Plain EXCEPT !.status = "cancelled", !.error_category = "internal"],
   [Plain EXCEPT !.completed_at = 0],
   [Plain EXCEPT !.session_id = "s2"]}

Numbered(shapes, first) ==
  [i \in DOMAIN shapes |-> [shapes[i] EXCEPT !.invocation_id = first + i]]

Ask(records) == [records |-> records, scope |-> "session_id", scope_id |-> "s1"]

SomeRequests ==
  {Ask(Numbered(shapes, 0)) : shapes \in UNION {[1 .. n -> Sound] : n \in 0 .. 3}}
    \cup {Ask(Numbered(<<r, q>>, 0)) : r \in Sound, q \in Unsound}
    \cup {Ask(<<r, q>>) : r, q \in Sound}
    \cup {Ask(Numbered(<<Plain, Plain, Plain, Plain>>, 0)),
          [Ask(<<Plain>>) EXCEPT !.scope_id = None],
          [Ask(<<Plain>>) EXCEPT !.scope = "run_id"],
          [Ask(<<Plain>>) EXCEPT !.scope = "run_id", !.scope_id = "r1"]}
=============================================================================
