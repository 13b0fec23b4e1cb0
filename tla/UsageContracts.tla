--------------------------- MODULE UsageContracts ---------------------------
(***************************************************************************)
(* The contracts of pmqa/usage/contracts.py: what one AI invocation record *)
(* with its token and cost evidence must satisfy, and the bounded exact    *)
(* decimals its money is written in.                                       *)
(*                                                                         *)
(* A decimal is coef * 10^-scale.  The records a repository or a caller    *)
(* hands over went through text, where trailing zeros are dropped; sums in *)
(* memory keep them.  Token fields that were not observed are outside the  *)
(* domain of "tokens".                                                     *)
(***************************************************************************)
EXTENDS Integers, FiniteSets

CONSTANTS
  None,         \* an optional field that is absent
  MaxInteger,   \* MAX_USAGE_INTEGER
  MaxLength     \* _MAX_DECIMAL_LENGTH

ASSUME UsageAssumption == MaxInteger \in Nat /\ MaxLength \in Nat \ {0}

\* What is absent is neither a number nor a decimal.
ASSUME NoneAssumption == None \notin Nat /\ None \notin [coef : Nat, scale : Nat]

CostType   == {"provider_reported", "estimated", "subscription_included", "unavailable"}
Monetary   == {"provider_reported", "estimated"}
Reason     == {"not_reported", "not_supported", "parsing_failed", "not_collected"}
TokenField == {"input_tokens", "output_tokens", "cached_input_tokens", "total_tokens"}
Source     == {"provider_reported", "parsed_from_cli", "estimated", "unavailable"}
Status     == {"succeeded", "failed", "cancelled"}

-----------------------------------------------------------------------------
(* Decimals *)

Decimal(coef, scale) == [coef |-> coef, scale |-> scale]

\* Powers of ten.
Tens[n \in Nat] == IF n = 0 THEN 1 ELSE 10 * Tens[n - 1]

\* How many digits n is written with.
Digits(n) == CHOOSE k \in 1 .. n + 1 : n < Tens[k] /\ (k = 1 \/ Tens[k - 1] <= n)

\* The length of the decimal written out without an exponent.
WrittenLength(d) ==
  IF d.scale = 0 THEN Digits(d.coef)
  ELSE IF d.scale >= Digits(d.coef) THEN 2 + d.scale
  ELSE Digits(d.coef) + 1

\* Zero is bounded however many zeros it was written with.
DecimalAccepted(d) == d.coef = 0 \/ WrittenLength(d) <= MaxLength

\* Seeded fault: the zeros of whole numbers are dropped as well.
WrittenWithoutZeros(d) ==
  IF d.coef = 0 THEN Decimal(0, 0)
  ELSE LET zeros == CHOOSE k \in 0 .. Digits(d.coef) :
                      /\ d.coef % Tens[k] = 0
                      /\ \A m \in k + 1 .. Digits(d.coef) : d.coef % Tens[m] # 0
       IN Decimal(d.coef \div Tens[zeros], IF zeros > d.scale THEN 0 ELSE d.scale - zeros)

\* What is left of a decimal after a round trip through its text.
Written(d) ==
  IF d.coef = 0 THEN Decimal(0, 0)
  ELSE LET zeros == CHOOSE k \in 0 .. d.scale :
                      /\ d.coef % Tens[k] = 0
                      /\ \A m \in k + 1 .. d.scale : d.coef % Tens[m] # 0
       IN Decimal(d.coef \div Tens[zeros], d.scale - zeros)

SameValue(c, d) == c.coef * Tens[d.scale] = d.coef * Tens[c.scale]

\* n without its last "drop" digits, rounded half to even.
Rounded(n, drop) ==
  LET kept == n \div Tens[drop]
      rest == 2 * (n % Tens[drop])
  IN IF rest > Tens[drop] \/ (rest = Tens[drop] /\ kept % 2 = 1) THEN kept + 1 ELSE kept

\* The sum under a context of "precision" digits.
SumOf(c, d, precision) ==
  LET scale == IF c.scale > d.scale THEN c.scale ELSE d.scale
      coef  == c.coef * Tens[scale - c.scale] + d.coef * Tens[scale - d.scale]
      drop  == IF Digits(coef) > precision THEN Digits(coef) - precision ELSE 0
  IN IF drop <= scale THEN Decimal(Rounded(coef, drop), scale - drop)
     ELSE Decimal(Rounded(coef, drop) * Tens[drop - scale], 0)

-----------------------------------------------------------------------------
(* Evidence and records *)

\* Every missing field is declared, and only the source "unavailable" misses
\* all of them.
TokenUsageAccepted(u) ==
  /\ \A f \in DOMAIN u.tokens : u.tokens[f] \in 0 .. MaxInteger
  /\ u.unavailable_fields = TokenField \ DOMAIN u.tokens
  /\ (u.source = "unavailable") <=> (DOMAIN u.tokens = {})

Pricing(c) == <<c.pricing_source_id, c.pricing_version, c.pricing_effective_at>>

PricingComplete(c) == \A i \in 1 .. 3 : Pricing(c)[i] # None
PricingAbsent(c)   == \A i \in 1 .. 3 : Pricing(c)[i] = None

\* Cost evidence and the buckets of a summary obey the same rules.
CostIdentityAccepted(c) ==
  /\ PricingComplete(c) \/ PricingAbsent(c)
  /\ IF c.cost_type \in Monetary
     THEN /\ c.amount # None /\ c.currency # None /\ c.unavailable_reason = None
          /\ c.cost_type = "estimated" => PricingComplete(c)
     ELSE /\ c.amount = None /\ c.currency = None /\ PricingAbsent(c)
          /\ c.cost_type = "unavailable" => c.unavailable_reason # None
          /\ c.cost_type = "subscription_included" => c.unavailable_reason = None

CostEvidenceAccepted(c) ==
  /\ CostIdentityAccepted(c)
  /\ c.amount # None => DecimalAccepted(c.amount)

Predecessors == {"retry_of_invocation_id", "fallback_from_invocation_id"}

\* A first attempt declares no predecessor, a later one exactly one.
AttemptAccepted(r) ==
  Cardinality({p \in Predecessors : r[p] # None}) =
    IF r.attempt_number > 1 THEN 1 ELSE 0

MetadataAccepted(r) ==
  /\ (r.model = None) # (r.model_unavailable_reason = None)
  /\ \A p \in Predecessors : r[p] # r.invocation_id
  /\ AttemptAccepted(r)

RecordAccepted(r) ==
  /\ r.duration_ms \in 0 .. MaxInteger
  /\ TokenUsageAccepted(r.usage) /\ CostEvidenceAccepted(r.cost)
  /\ r.completed_at >= r.started_at
  /\ r.cost.pricing_effective_at # None => r.cost.pricing_effective_at <= r.started_at
  /\ MetadataAccepted(r)
  /\ CASE r.status = "succeeded" -> r.error_category = None
       [] r.status = "cancelled" -> r.error_category = "cancelled"
       [] r.status = "failed"    -> r.error_category \notin {None, "cancelled"}
=============================================================================
