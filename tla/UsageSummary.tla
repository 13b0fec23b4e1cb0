---------------------------- MODULE UsageSummary ----------------------------
(***************************************************************************)
(* DefaultUsageAggregator.summarize (pmqa/usage/summary.py): records in,   *)
(* one summary or one refusal out.  A behaviour is one call.  The summary  *)
(* is built from exact sums and then judged by its own contract, which     *)
(* adds the money of the groups up once more, in another order and after   *)
(* the trailing zeros of every amount are gone.  An error of that contract *)
(* is none of the five the aggregator declares.                            *)
(*                                                                         *)
(* Records are named by their position in the request.  The whole and each *)
(* group are sets of positions; what the code collects in dictionaries are *)
(* functions here: of a group's key, and of the identity of a cost.        *)
(***************************************************************************)
EXTENDS UsageContracts, Sequences, SequencesExt

CONSTANTS
  MaxRecords,       \* MAX_USAGE_SUMMARY_RECORDS
  Precision,        \* digits of the decimal context of the aggregator
  RollUpPrecision,  \* digits of the decimal context of the contract
  Requests          \* bound: [records, scope, scope_id] a caller may pass

\* The contexts of 256 and 512 digits hold any sum of two amounts of 128.
ASSUME SummaryAssumption ==
  /\ MaxRecords \in Nat /\ Precision \in Nat /\ RollUpPrecision \in Nat
  /\ Precision >= 2 * MaxLength /\ RollUpPrecision >= 2 * MaxLength

RecordFields ==
  {"invocation_id", "session_id", "run_id", "provider", "model", "model_unavailable_reason",
   "status", "error_category", "started_at", "completed_at", "duration_ms", "attempt_number",
   "retry_of_invocation_id", "fallback_from_invocation_id", "usage", "cost"}

CostFields ==
  {"cost_type", "amount", "currency", "pricing_source_id", "pricing_version",
   "pricing_effective_at", "unavailable_reason"}

\* An object of the class, whatever its values: not yet an accepted record.
IsRecord(r) ==
  /\ DOMAIN r = RecordFields /\ r.status \in Status
  /\ DOMAIN r.cost = CostFields
  /\ r.cost.amount = None \/ r.cost.amount \in [coef : Nat, scale : Nat]

IsRequest(q) ==
  /\ DOMAIN q = {"records", "scope", "scope_id"}
  /\ Len(q.records) \in Nat /\ DOMAIN q.records = 1 .. Len(q.records)
  /\ \A i \in DOMAIN q.records : IsRecord(q.records[i])

ASSUME RequestAssumption == \A q \in Requests : IsRequest(q)

VARIABLES request, outcome

vars == <<request, outcome>>

Init == request \in Requests /\ outcome = None

-----------------------------------------------------------------------------
(* Metrics of the records at the positions P: of all, or of one group *)

Durations(rs, P) == [i \in P |-> rs[i].duration_ms]

\* The values of one token field that were observed.
Tokens(rs, P, f) ==
  [i \in {j \in P : f \in DOMAIN rs[j].usage.tokens} |-> rs[i].usage.tokens[f]]

\* Seeded fault: the last value is added unchecked.
IntegersOverflowLate(values) ==
  \E i \in DOMAIN values :
    /\ \E last \in DOMAIN values : last > i
    /\ SumFunctionOnSet(values, {j \in DOMAIN values : j <= i}) > MaxInteger

\* Some sum on the way exceeds the bound.
IntegersOverflow(values) ==
  \E i \in DOMAIN values :
    SumFunctionOnSet(values, {j \in DOMAIN values : j <= i}) > MaxInteger

\* What tells the costs of a dictionary apart: all but the amount.
CostIdentity(c) == [c EXCEPT !.amount = None]

CostIdentities(rs, P) == {CostIdentity(rs[i].cost) : i \in P}

Sharing(rs, P, identity) == {i \in P : CostIdentity(rs[i].cost) = identity}

\* The totals of the amounts at the positions P, in their order, each sum
\* taken in a context of "precision" digits.
RunningTotals(amount, P, precision) ==
  LET total[n \in Nat] ==
        IF n = 0 THEN Decimal(0, 0)
        ELSE IF n \in P THEN SumOf(total[n - 1], amount[n], precision)
        ELSE total[n - 1]
  IN total

Amounts(rs) == [i \in DOMAIN rs |-> rs[i].cost.amount]

\* Seeded fault: the ambient context rounds to two digits.
MoneyAmbient(rs, P) == RunningTotals(Amounts(rs), P, 2)

Money(rs, P) == RunningTotals(Amounts(rs), P, Precision)

MoneyOverflows(rs, P) == \E n \in DOMAIN rs : ~ DecimalAccepted(Money(rs, P)[n])

Overflows(rs, P) ==
  \/ IntegersOverflow(Durations(rs, P))
  \/ \E f \in TokenField : IntegersOverflow(Tokens(rs, P, f))
  \/ \E identity \in CostIdentities(rs, P) :
       identity.cost_type \in Monetary /\ MoneyOverflows(rs, Sharing(rs, P, identity))

TokenSummary(rs, P, f) ==
  LET observed == Tokens(rs, P, f)
  IN [total       |-> IF DOMAIN observed = {} THEN None ELSE SumFunction(observed),
      observed    |-> Cardinality(DOMAIN observed),
      unavailable |-> Cardinality(P \ DOMAIN observed)]

Bucket(rs, P, identity) ==
  [invocation_count |-> Cardinality(P),
   amount |-> IF identity.cost_type \in Monetary THEN Money(rs, P)[Len(rs)] ELSE None]

CountFields == {"invocation_count", "succeeded", "failed", "cancelled",
                "retry_of_invocation_id", "fallback_from_invocation_id"}

\* The positions a count counts.
Counted(rs, P, field) ==
  {i \in P : CASE field \in Status       -> rs[i].status = field
               [] field \in Predecessors -> rs[i][field] # None
               [] OTHER                  -> TRUE}

Metrics(rs, P) ==
  [counts   |-> [field \in CountFields |-> Cardinality(Counted(rs, P, field))],
   duration |-> SumFunction(Durations(rs, P)),
   tokens   |-> [f \in TokenField |-> TokenSummary(rs, P, f)],
   costs    |-> [identity \in CostIdentities(rs, P) |->
                   Bucket(rs, Sharing(rs, P, identity), identity)]]

GroupKey(r) == <<r.provider, r.model, r.model_unavailable_reason>>

GroupKeys(rs) == {GroupKey(rs[i]) : i \in DOMAIN rs}

GroupPositions(rs, key) == {i \in DOMAIN rs : GroupKey(rs[i]) = key}

-----------------------------------------------------------------------------
(* The contract of the summary *)

BucketAccepted(identity, b) ==
  /\ CostIdentityAccepted([identity EXCEPT !.amount = b.amount])
  /\ b.invocation_count \in 1 .. MaxRecords
  /\ b.amount # None => DecimalAccepted(b.amount)

TokenSummaryAccepted(t) ==
  /\ (t.total = None) <=> (t.observed = 0)
  /\ t.total # None => t.total <= MaxInteger
  /\ t.observed <= MaxRecords /\ t.unavailable <= MaxRecords

\* The numbers of one group, or of the whole, fit each other.
MetricsAccepted(m) ==
  LET n == m.counts["invocation_count"]
  IN /\ m.counts["succeeded"] + m.counts["failed"] + m.counts["cancelled"] = n
     /\ m.counts["retry_of_invocation_id"] + m.counts["fallback_from_invocation_id"] <= n
     /\ n <= MaxRecords /\ m.duration <= MaxInteger
     /\ \A f \in TokenField : /\ TokenSummaryAccepted(m.tokens[f])
                              /\ m.tokens[f].observed + m.tokens[f].unavailable = n
     /\ \A identity \in DOMAIN m.costs : BucketAccepted(identity, m.costs[identity])
     /\ SumFunction([identity \in DOMAIN m.costs |-> m.costs[identity].invocation_count]) = n

\* A nested bucket after its round trip through text.
SnapshotBucket(b) == [b EXCEPT !.amount = IF @ = None THEN None ELSE Written(@)]

Snapshot(m) ==
  [m EXCEPT !.costs = [identity \in DOMAIN @ |-> SnapshotBucket(@[identity])]]

\* The groups' buckets of one identity, added up in the order of the groups.
MoneyRollsUp(identity, bucket, groups) ==
  LET sharing == {key \in DOMAIN groups : identity \in DOMAIN groups[key].costs}
      order   == SetToSeq(sharing)
      amount  == [n \in DOMAIN order |-> groups[order[n]].costs[identity].amount]
      totals  == RunningTotals(amount, DOMAIN order, RollUpPrecision)
  IN /\ bucket.invocation_count =
          SumFunction([key \in sharing |-> groups[key].costs[identity].invocation_count])
     /\ bucket.amount # None =>
          /\ \A n \in DOMAIN order : DecimalAccepted(totals[n])
          /\ SameValue(bucket.amount, totals[Len(order)])

TokensRollUp(m, groups, f) ==
  LET seen == {key \in DOMAIN groups : groups[key].tokens[f].total # None}
  IN /\ m.tokens[f].observed =
          SumFunction([key \in DOMAIN groups |-> groups[key].tokens[f].observed])
     /\ m.tokens[f].unavailable =
          SumFunction([key \in DOMAIN groups |-> groups[key].tokens[f].unavailable])
     /\ IF m.tokens[f].total = None THEN seen = {}
        ELSE /\ seen # {}
             /\ m.tokens[f].total =
                  SumFunction([key \in seen |-> groups[key].tokens[f].total])

\* The groups add up to the whole.
RollsUp(m, groups) ==
  /\ \A field \in CountFields :
       m.counts[field] = SumFunction([key \in DOMAIN groups |-> groups[key].counts[field]])
  /\ m.duration = SumFunction([key \in DOMAIN groups |-> groups[key].duration])
  /\ \A f \in TokenField : TokensRollUp(m, groups, f)
  /\ DOMAIN m.costs = UNION {DOMAIN groups[key].costs : key \in DOMAIN groups}
  /\ \A identity \in DOMAIN m.costs : MoneyRollsUp(identity, m.costs[identity], groups)

GroupAccepted(key, m) ==
  /\ (key[2] = None) # (key[3] = None)
  /\ MetricsAccepted(m)

-----------------------------------------------------------------------------
(* The call *)

Refusal(code) == [code |-> code, summary |-> None]

\* Judging the summary; the contract may have an error of its own.
Build(whole, groups) ==
  LET after   == [key \in DOMAIN groups |-> Snapshot(groups[key])]
      summary == [metrics |-> Snapshot(whole), groups |-> after]
  IN IF /\ MetricsAccepted(whole) /\ MetricsAccepted(summary.metrics)
        /\ \A key \in DOMAIN groups : /\ GroupAccepted(key, groups[key])
                                      /\ GroupAccepted(key, after[key])
        /\ RollsUp(summary.metrics, after)
     THEN [code |-> "summary", summary |-> summary]
     ELSE Refusal("contract_error")

\* The record reconstructed from its own text.
SnapshotRecord(r) ==
  [r EXCEPT !.cost.amount = IF @ = None THEN None ELSE Written(@)]

InvalidRequest(q) == Len(q.records) > MaxRecords \/ q.scope_id = None

Duplicate(rs) ==
  \E i, j \in DOMAIN rs : i # j /\ rs[i].invocation_id = rs[j].invocation_id

Selection(q) == [i \in DOMAIN q.records |-> SnapshotRecord(q.records[i])]

\* The checks of summarize, in their order.
Summarize(q) ==
  LET rs     == Selection(q)
      groups == [key \in GroupKeys(rs) |-> Metrics(rs, GroupPositions(rs, key))]
  IN IF InvalidRequest(q) THEN Refusal("invalid_request")
     ELSE IF \E i \in DOMAIN rs : ~ RecordAccepted(rs[i]) THEN Refusal("invalid_record")
     ELSE IF Duplicate(rs) THEN Refusal("duplicate_invocation")
     ELSE IF \E i \in DOMAIN rs : rs[i][q.scope] # q.scope_id THEN Refusal("correlation_mismatch")
     ELSE IF \/ Overflows(rs, DOMAIN rs)
             \/ \E key \in GroupKeys(rs) : Overflows(rs, GroupPositions(rs, key))
          THEN Refusal("aggregate_overflow")
     ELSE Build(Metrics(rs, DOMAIN rs), groups)

Call ==
  /\ outcome = None
  /\ outcome' = Summarize(request)
  /\ UNCHANGED request

Spec == Init /\ [][Call]_vars

-----------------------------------------------------------------------------
(* Properties *)

\* Records the aggregator accepts never end in an error it does not declare:
\* whatever the sums, the contract of the summary and its roll-up of the
\* groups, taken over shortened amounts in another order, agree with them
\* (summary.py, _validate_metrics and _validate_group_rollup).
SummaryAccepted == outcome # None => outcome.code # "contract_error"

\* The answer, a refusal included, does not depend on the order in which the
\* caller lists the records (usage-cost-contracts.md:243).
OrderIrrelevant ==
  outcome # None =>
    \A order \in SetToSeqs(DOMAIN request.records) :
      Summarize([request EXCEPT !.records =
                   [i \in DOMAIN order |-> request.records[order[i]]]]) = outcome

\* Exact reference sums over a set of positions, in no order: the amounts in
\* units of the finest scale any of them uses.
Finest(amount, P) ==
  CHOOSE s \in {0} \cup {amount[i].scale : i \in P} : \A i \in P : amount[i].scale <= s

ExactMoney(amount, P) ==
  LET finest == Finest(amount, P)
      units  == [i \in P |-> amount[i].coef * Tens[finest - amount[i].scale]]
  IN Decimal(SumFunction(units), finest)

ExactlyTooMuch(rs) ==
  \/ SumFunction(Durations(rs, DOMAIN rs)) > MaxInteger
  \/ \E f \in TokenField : SumFunction(Tokens(rs, DOMAIN rs, f)) > MaxInteger
  \/ \E identity \in CostIdentities(rs, DOMAIN rs) :
       /\ identity.cost_type \in Monetary
       /\ ~ DecimalAccepted(ExactMoney(Amounts(rs), Sharing(rs, DOMAIN rs, identity)))

\* The amounts of a summary of the records at P are exact.
AmountsExact(rs, P, m) ==
  \A identity \in DOMAIN m.costs :
    LET amount == m.costs[identity].amount
    IN amount # None =>
         SameValue(amount, ExactMoney(Amounts(rs), Sharing(rs, P, identity)))

\* Totals are exact and refused only when they must be: an overflow is
\* reported exactly when a sum of the whole selection passes its bound, and
\* every amount of a summary, the groups' included, is the exact sum of the
\* evidence of its identity (usage-cost-contracts.md:224, :234).
TotalsExact ==
  outcome # None =>
    LET rs == Selection(request)
    IN /\ outcome.code = "aggregate_overflow" => ExactlyTooMuch(rs)
       /\ outcome.code \in {"summary", "contract_error"} => ~ ExactlyTooMuch(rs)
       /\ outcome.code = "summary" =>
            /\ AmountsExact(rs, DOMAIN rs, outcome.summary.metrics)
            /\ \A key \in DOMAIN outcome.summary.groups :
                 AmountsExact(rs, GroupPositions(rs, key), outcome.summary.groups[key])
=============================================================================
