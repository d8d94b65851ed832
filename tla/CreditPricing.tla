--------------------------- MODULE CreditPricing ---------------------------
(* What a model call costs: the estimate that check_credit_by_user_id      *)
(* requires before the call (utils/credit/utils.py), and the price that    *)
(* CreditDeduct meters while the reply streams and charges at its end      *)
(* (utils/credit/usage.py).                                                *)
(*                                                                         *)
(* The user's balance is exactly what the check requires, the least that   *)
(* passes it.  Prices are multiples of one unit; the token prices of a     *)
(* model are all zero in this code, so tokens only tell an empty reply.    *)
EXTENDS Naturals, Sequences, SequencesExt, FiniteSetsExt

CONSTANTS Sources,      \* places of the body that may hold feature flags
          MinCosts,     \* values of credit.calculate.minimum_cost
          MaxFees,      \* entries of the custom price configuration
          MaxChunks     \* chunks of a reply

CreditPricingAssumption ==
    /\ Sources \subseteq {"features", "metadata", "credit"}
    /\ MinCosts \subseteq Nat /\ MaxFees \in Nat /\ MaxChunks \in Nat

(* A row of the model table: its base model's row, or its own prices. *)
Base   == [call : {0, 2}, min : {0, 3}]
Models == [kind : {"none"}] \cup [kind : {"own"}, price : Base]
             \cup [kind : {"based"}, base : Base]

Features == {"image_generation", "web_search"}
FeaturePrice(fs) == Cardinality(fs)

(* An entry of the configuration and whether its path matches the body. *)
Fees == SeqOf([name : {"x", "y"}, cost : {0, 1}, hit : BOOLEAN], MaxFees)

(* A line of the stream, after clean_response and validation. *)
Chunks ==
    [kind : {"done", "invalid", "error"}] \cup [kind : {"text"}, tokens : 0 .. 1]
       \cup [kind : {"usage"}, tokens : 0 .. 1]

VARIABLES form,         \* [model, flags, fees, embedding]
          minCost, freeEmpty,
          balance,
          tokens,       \* usage.completion_tokens
          official, isError,
          chunks,       \* what the provider has sent
          phase, charge

config == <<form, minCost, freeEmpty>>
meter  == <<tokens, official, isError>>
vars   == <<config, balance, meter, chunks, phase, charge>>

Forms == [model : Models, flags : [Sources -> SUBSET Features], fees : Fees, embedding : BOOLEAN]

Init ==
    /\ form \in Forms /\ minCost \in MinCosts /\ freeEmpty \in BOOLEAN
    /\ balance = 0
    /\ tokens = 0 /\ official = FALSE /\ isError = FALSE
    /\ chunks = <<>> /\ phase = "check" /\ charge = 0

-----------------------------------------------------------------------------
(* get_model_price: no row, no price; a base model's row is used if there  *)
(* is one.                                                                 *)
ModelPrice(m) ==
    CASE m.kind = "none"  -> [call |-> 0, min |-> 0]
      [] m.kind = "own"   -> m.price
      [] m.kind = "based" -> m.base

(* `a or b or c` on flag dictionaries: the first that is present and not   *)
(* empty.                                                                  *)
FirstOf(flags, order) ==
    LET present == SelectSeq(order, LAMBDA s : s \in Sources /\ flags[s] # {})
    IN IF present = <<>> THEN {} ELSE flags[Head(present)]

(* get_custom_price: every matching entry counts. *)
CustomPrice(fees) ==
    FoldSeq(LAMBDA f, sum : IF f.hit THEN sum + f.cost ELSE sum, 0, fees)

(* build_custom_fees: a dictionary by name, so a later entry replaces an   *)
(* earlier one of the same name.                                           *)
CustomFees(fees) ==
    LET counted == {i \in DOMAIN fees : fees[i].hit /\ fees[i].cost > 0}
        last == {i \in counted : \A j \in counted : j > i => fees[j].name # fees[i].name}
    IN MapThenSumSet(LAMBDA i : fees[i].cost, last)

IsFree(f) ==
    /\ ModelPrice(f.model).call = 0
    /\ FeaturePrice(FirstOf(f.flags, <<"features", "metadata", "credit">>)) = 0
    /\ CustomPrice(f.fees) = 0

(* Mutant: the feature fee is not part of the estimate. *)
RequiredMutant(f, min) ==
    IF IsFree(f) THEN 0
    ELSE Max({ModelPrice(f.model).min, ModelPrice(f.model).call + CustomPrice(f.fees), min})

(* check_credit_by_user_id. *)
Required(f, min) ==
    LET features == FirstOf(f.flags, <<"features", "credit", "metadata">>)
        estimated == Max({ModelPrice(f.model).call + FeaturePrice(features) + CustomPrice(f.fees), min})
    IN IF IsFree(f) THEN 0 ELSE Max({ModelPrice(f.model).min, estimated})

Check ==
    /\ phase = "check"
    /\ balance' = Required(form, minCost)
    /\ phase' = "stream"
    /\ UNCHANGED <<config, meter, chunks, charge>>

-----------------------------------------------------------------------------
(* Mutant: text after the provider's usage is counted as well. *)
MeterMutant(c) ==
    /\ isError' = (isError \/ c.kind = "error")
    /\ official' = (official \/ c.kind = "usage")
    /\ tokens' = CASE c.kind = "usage" -> c.tokens
                   [] c.kind = "text"  -> tokens + c.tokens
                   [] OTHER            -> tokens

(* CreditDeduct._run on one line. *)
Meter(c) ==
    /\ isError' = (isError \/ c.kind = "error")
    /\ official' = (official \/ c.kind = "usage")
    /\ tokens' = CASE c.kind = "usage"              -> c.tokens
                   [] c.kind = "text" /\ ~official -> tokens + c.tokens
                   [] OTHER                        -> tokens

Chunk(c) ==
    /\ phase = "stream" /\ Len(chunks) < MaxChunks
    /\ Meter(c)
    /\ chunks' = Append(chunks, c)
    /\ UNCHANGED <<config, balance, phase, charge>>

EmptyNoCost == freeEmpty /\ ~form.embedding

(* total_price. *)
TotalPrice ==
    LET union == UNION {form.flags[s] : s \in Sources}
    IN IF tokens = 0 /\ EmptyNoCost THEN 0
       ELSE Max({ModelPrice(form.model).call + FeaturePrice(union) + CustomFees(form.fees), minCost})

(* __exit__ at the end of the stream. *)
Finish ==
    /\ phase = "stream"
    /\ charge' = IF isError THEN 0 ELSE TotalPrice
    /\ phase' = "done"
    /\ UNCHANGED <<config, balance, meter, chunks>>

(* __exit__ with an exception: the stream broke or was abandoned. *)
Abort ==
    /\ phase = "stream" /\ phase' = "aborted"
    /\ UNCHANGED <<config, balance, meter, chunks, charge>>

Next == Check \/ (\E c \in Chunks : Chunk(c)) \/ Finish \/ Abort

Spec == Init /\ [][Next]_vars

-----------------------------------------------------------------------------
(* A balance that passed the check covers the charge                       *)
(* (check_credit_by_user_id against CreditDeduct.total_price).             *)
CheckCoversCharge == charge <= balance

(* What is metered does not depend on how the stream is cut: the provider's*)
(* last usage counts, else the text; and an error anywhere in the stream   *)
(* makes it free (CreditDeduct._run, __exit__).                            *)
MeteredAsSent ==
    LET usages == SelectSeq(chunks, LAMBDA c : c.kind = "usage")
        texts  == SelectSeq(chunks, LAMBDA c : c.kind = "text")
        errors == SelectSeq(chunks, LAMBDA c : c.kind = "error")
    IN /\ tokens = IF usages # <<>> THEN Last(usages).tokens
                   ELSE FoldSeq(LAMBDA c, n : n + c.tokens, 0, texts)
       /\ errors # <<>> => charge = 0

(* A model without a price, used without features or custom fees, costs    *)
(* nothing (get_model_price).                                              *)
FreeIsFree == IsFree(form) => charge = 0
=============================================================================
