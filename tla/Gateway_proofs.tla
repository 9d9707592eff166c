--------------------------- MODULE Gateway_proofs ---------------------------
(***************************************************************************)
(* Proofs about Gateway: it implements Billing, so that the theorems of    *)
(* Billing_proofs hold of it; failover and automatic release are safe; and *)
(* no handler returns with a hold that only the sweeper would find.        *)
(***************************************************************************)
EXTENDS Gateway, Billing_proofs

-----------------------------------------------------------------------------
(* Gateway implements Billing                                              *)

LEMMA HandlerImplements ==
    ASSUME NEW r \in Requests, Handler(r)
    PROVE  Next \/ UNCHANGED vars
<1>1. r \in Sessions
  BY GatewayAssumption
<1>2. CASE Admit(r)
  BY <1>2 DEF Admit, Next
<1>3. CASE BeginSettle(r) \/ BeginMark(r) \/ BeginRelease(r)
  <2>1. PICK op \in {"settle", "release", "mark"} :
           Open(r, r, op, "reserved") \/ UNCHANGED vars
    BY <1>3 DEF BeginSettle, BeginMark, BeginRelease, BeginFinalize
  <2>2. QED
    BY <1>1, <2>1 DEF Next, OpenStatuses
<1>4. CASE Settle(r) \/ SettleFails(r) \/ Mark(r) \/ Release(r) \/ ReleaseFails(r)
           \/ Crash(r)
  BY <1>4 DEF Settle, SettleFails, Mark, Release, ReleaseFails, Crash, Next,
              Finalizers
<1>5. CASE UNCHANGED vars
  BY <1>5
<1>6. QED
  BY <1>2, <1>3, <1>4, <1>5
  DEF Handler, Refuse, ProviderReturns, RecordAttempt, RecordAttemptFails,
      OutputCheckFails, StreamDone, StreamBroken, StreamAbandoned

LEMMA StepImplements == [GatewayNext]_gatewayVars => [Next]_vars
<1> SUFFICES ASSUME [GatewayNext]_gatewayVars PROVE [Next]_vars
  OBVIOUS
<1>1. CASE \E r \in Requests : Handler(r)
  BY <1>1, HandlerImplements
<1>2. CASE \E o \in Operators : reconcile_request(o)
  <2>1. PICK o \in Operators : reconcile_request(o)
    BY <1>2
  <2>2. o \in Sessions
    BY GatewayAssumption
  <2>3. QED
    BY <2>1, <2>2
    DEF reconcile_request, OperatorOpens, OperatorSettles, OperatorReleases,
        OperatorFails, Next, Finalizers, OpenStatuses
<1>3. CASE \E stale \in SUBSET Requests : run_once(stale)
  BY <1>3 DEF run_once, Next
<1>4. CASE Surroundings
  BY <1>4 DEF Surroundings, Next
<1>5. CASE UNCHANGED gatewayVars
  BY <1>5 DEF gatewayVars
<1>6. QED
  BY <1>1, <1>2, <1>3, <1>4, <1>5 DEF GatewayNext

(* Whatever the handlers, operators, the sweeper and crashes do is a       *)
(* behaviour of Billing.                                                   *)
THEOREM GatewayImplementsBilling == GatewaySpec => ImplementsBilling
<1>1. GatewayInit => Init
  BY DEF GatewayInit
<1>2. QED
  BY <1>1, StepImplements, PTL DEF GatewaySpec, Spec, ImplementsBilling

(* In the whole gateway, with operators and the sweeper overlapping the    *)
(* handlers as they may: the wallet agrees with the journal, the customer  *)
(* loses exactly what the rows say was charged, budgets are hard stops,    *)
(* and no month loses spend.  (That the wallet holds exactly what the open *)
(* requests hold is not among it: overlapping finalizations break it, see  *)
(* HoldTakenBackOnce.)                                                     *)
THEOREM GatewayKeepsTheBooks ==
    GatewaySpec => []( /\ WalletMatchesLedger /\ ChargesAddUp
                       /\ BudgetWithinLimit /\ OneActiveBudget
                       /\ MonthSpendIsComplete )
  BY GatewayImplementsBilling, WalletAgreesWithJournal, ChargesAddUpHolds,
     BudgetIsHardStop, OneActiveBudgetHolds, MonthSpendIsCompleteHolds, PTL
  DEF ImplementsBilling

-----------------------------------------------------------------------------
(* The handler's own state                                                 *)

HandlerType ==
    /\ pc \in [Requests -> Steps]
    /\ index \in [Requests -> 0..Providers]
    /\ outcome \in [Requests -> Outcomes \cup {"none"}]
    /\ attempts \in [Requests -> Seq({"failed", "succeeded", "stream_opened"})]
    /\ billed \in [Requests -> SUBSET (1..Providers)]

(* Nothing is billed while a provider is still to be called, or after a    *)
(* refusal; and what is billed is billed by the provider the handler is    *)
(* at.                                                                     *)
ProviderInv(r) ==
    /\ billed[r] \subseteq {index[r]}
    /\ pc[r] \in {"idle", "call"} => billed[r] = {}
    /\ pc[r] = "record" /\ outcome[r] \in Refusals => billed[r] = {}
    /\ pc[r] \in {"call", "record"} => index[r] >= 1

HandlerInv == HandlerType /\ \A r \in Requests : ProviderInv(r)

LEMMA HandlerInit == GatewayInit => HandlerInv
<1> SUFFICES ASSUME GatewayInit PROVE HandlerInv
  OBVIOUS
<1>1. << >> \in Seq({"failed", "succeeded", "stream_opened"})
  OBVIOUS
<1>2. 0 \in 0..Providers
  BY GatewayAssumption
<1>3. HandlerType
  BY <1>1, <1>2 DEF GatewayInit, HandlerType, Steps
<1>4. QED
  BY <1>3 DEF GatewayInit, HandlerInv, ProviderInv

(* A handler's step leaves the other handlers' state alone.                *)
LEMMA HandlerFrame ==
    ASSUME HandlerType, NEW r \in Requests, Handler(r),
           NEW q \in Requests, q # r
    PROVE  /\ pc'[q] = pc[q] /\ index'[q] = index[q] /\ outcome'[q] = outcome[q]
           /\ attempts'[q] = attempts[q] /\ billed'[q] = billed[q]
  BY DEF HandlerType, Handler, Refuse, Admit, ProviderReturns, RecordAttempt,
         RecordAttemptFails, OutputCheckFails, StreamDone, StreamBroken,
         StreamAbandoned, BeginSettle, BeginMark, BeginRelease, BeginFinalize,
         Settle, SettleFails, Mark, Release, ReleaseFails, Crash, Goto

LEMMA AdmitInv ==
    ASSUME HandlerInv, NEW r \in Requests, Admit(r)
    PROVE  HandlerType' /\ ProviderInv(r)'
<1>1. /\ pc[r] = "idle" /\ pc' = [pc EXCEPT ![r] = "call"]
      /\ index' = [index EXCEPT ![r] = 1]
      /\ UNCHANGED <<outcome, attempts, billed>>
  BY DEF Admit, Goto
<1>2. "call" \in Steps /\ 1 \in 0..Providers
  BY GatewayAssumption DEF Steps
<1>3. QED
  BY <1>1, <1>2 DEF HandlerInv, HandlerType, ProviderInv

LEMMA ProviderReturnsInv ==
    ASSUME HandlerInv, NEW r \in Requests, NEW o \in Outcomes, ProviderReturns(r, o)
    PROVE  HandlerType' /\ ProviderInv(r)'
<1>1. /\ pc[r] = "call"
      /\ outcome' = [outcome EXCEPT ![r] = IF o \in Interruptions THEN "none" ELSE o]
      /\ billed' = IF MayCharge(o)
                   THEN [billed EXCEPT ![r] = @ \cup {index[r]}] ELSE billed
      /\ pc' = [pc EXCEPT ![r] = IF o \in Interruptions THEN "mark" ELSE "record"]
      /\ UNCHANGED <<index, attempts>>
  BY DEF ProviderReturns, Goto
<1>2. "mark" \in Steps /\ "record" \in Steps
  BY DEF Steps
<1>3. index[r] \in 1..Providers /\ billed[r] = {} /\ index[r] \in 0..Providers
  BY <1>1, GatewayAssumption DEF HandlerInv, HandlerType, ProviderInv
<1>4. HandlerType'
  BY <1>1, <1>2, <1>3 DEF HandlerInv, HandlerType
<1>5. /\ billed'[r] = IF MayCharge(o) THEN {index[r]} ELSE {}
      /\ index'[r] = index[r]
      /\ outcome'[r] = IF o \in Interruptions THEN "none" ELSE o
      /\ pc'[r] \in {"mark", "record"}
  BY <1>1, <1>3 DEF HandlerInv, HandlerType
<1>6. "none" \notin Refusals
  BY DEF Refusals
<1>7. index[r] >= 1
  BY <1>3, GatewayAssumption
<1>8. QED
  BY <1>4, <1>5, <1>6, <1>7 DEF ProviderInv, MayCharge

LEMMA RecordAttemptInv ==
    ASSUME HandlerInv, NEW r \in Requests, RecordAttempt(r)
    PROVE  HandlerType' /\ ProviderInv(r)'
<1> DEFINE over == ~request_may_be_billable(outcome[r]) /\ FailsOver(r)
<1>1. /\ pc[r] = "record"
      /\ attempts' = [attempts EXCEPT ![r] = Append(@, AttemptStatus(outcome[r]))]
      /\ index' = IF over THEN [index EXCEPT ![r] = @ + 1] ELSE index
      /\ outcome' = [outcome EXCEPT ![r] = "none"]
      /\ billed' = billed
  BY DEF RecordAttempt
<1>2. PICK step \in {"settle", "stream", "mark", "call", "release"} :
         pc' = [pc EXCEPT ![r] = step] /\ (step = "call" => over)
  <2> DEFINE next == CASE outcome[r] = "ok"                   -> "settle"
                       [] outcome[r] = "opened"               -> "stream"
                       [] request_may_be_billable(outcome[r]) -> "mark"
                       [] FailsOver(r)                        -> "call"
                       [] OTHER                               -> "release"
  <2>1. pc' = [pc EXCEPT ![r] = next]
    BY DEF RecordAttempt, Goto
  <2>2. /\ next \in {"settle", "stream", "mark", "call", "release"}
        /\ next = "call" => over
    BY DEF request_may_be_billable, FailsOver, safe_to_failover, Ambiguous
  <2> HIDE DEF next
  <2>3. QED
    BY <2>1, <2>2
<1>3. step \in Steps
  BY <1>2 DEF Steps
<1>4. AttemptStatus(outcome[r]) \in {"failed", "succeeded", "stream_opened"}
  BY DEF AttemptStatus
<1>5. index[r] \in 0..Providers /\ index[r] >= 1 /\ (over => index[r] < Providers)
  BY <1>1 DEF FailsOver, HandlerInv, HandlerType, ProviderInv
<1>6. over => billed[r] = {}
  BY <1>1 DEF HandlerInv, ProviderInv, FailsOver, safe_to_failover, Refusals
<1> HIDE DEF over
<1>7. /\ index' \in [Requests -> 0..Providers]
      /\ index'[r] = IF over THEN index[r] + 1 ELSE index[r]
  <2>1. over => index[r] + 1 \in 0..Providers
    BY <1>5, GatewayAssumption
  <2>2. QED
    BY <1>1, <1>5, <2>1 DEF HandlerInv, HandlerType
<1>8. attempts' \in [Requests -> Seq({"failed", "succeeded", "stream_opened"})]
  BY <1>1, <1>4 DEF HandlerInv, HandlerType
<1>9. HandlerType'
  BY <1>1, <1>2, <1>3, <1>7, <1>8 DEF HandlerInv, HandlerType
<1>10. pc'[r] = step /\ billed'[r] = billed[r] /\ billed[r] \subseteq {index[r]}
  BY <1>1, <1>2 DEF HandlerInv, HandlerType, ProviderInv
<1>11. QED
  BY <1>2, <1>5, <1>6, <1>7, <1>9, <1>10 DEF ProviderInv

LEMMA CrashInv ==
    ASSUME HandlerInv, NEW r \in Requests, Crash(r)
    PROVE  HandlerType' /\ ProviderInv(r)'
<1>1. /\ billed' = IF pc[r] = "call"
                   THEN [billed EXCEPT ![r] = @ \cup {index[r]}] ELSE billed
      /\ outcome' = [outcome EXCEPT ![r] = "none"]
      /\ pc' = [pc EXCEPT ![r] = "dead"]
      /\ UNCHANGED <<index, attempts>>
  BY DEF Crash, Goto
<1>2. pc[r] = "call" => index[r] \in 1..Providers
  BY GatewayAssumption DEF HandlerInv, HandlerType, ProviderInv
<1>3. "dead" \in Steps
  BY DEF Steps
<1>4. QED
  BY <1>1, <1>2, <1>3 DEF HandlerInv, HandlerType, ProviderInv

(* The remaining steps move the handler on and leave the rest alone.       *)
LEMMA MoveInv ==
    ASSUME HandlerInv, NEW r \in Requests,
           NEW step \in Steps \ {"idle", "call", "record"},
           pc' = [pc EXCEPT ![r] = step],
           outcome' = outcome \/ outcome' = [outcome EXCEPT ![r] = "none"],
           UNCHANGED <<index, attempts, billed>>
    PROVE  HandlerType' /\ ProviderInv(r)'
  BY DEF HandlerInv, HandlerType, ProviderInv

LEMMA HandlerStep ==
    ASSUME HandlerInv, NEW r \in Requests, Handler(r)
    PROVE  HandlerInv'
<1>1. HandlerType' /\ ProviderInv(r)'
  <2>1. CASE Admit(r)
    BY <2>1, AdmitInv
  <2>2. CASE \E o \in Outcomes : ProviderReturns(r, o)
    BY <2>2, ProviderReturnsInv
  <2>3. CASE RecordAttempt(r)
    BY <2>3, RecordAttemptInv
  <2>4. CASE Crash(r)
    BY <2>4, CrashInv
  <2>5. CASE \/ Refuse(r) \/ RecordAttemptFails(r) \/ OutputCheckFails(r)
             \/ StreamDone(r) \/ StreamBroken(r) \/ StreamAbandoned(r)
             \/ BeginSettle(r) \/ Settle(r) \/ SettleFails(r)
             \/ BeginMark(r) \/ Mark(r)
             \/ BeginRelease(r) \/ Release(r) \/ ReleaseFails(r)
    <3>1. PICK step \in Steps \ {"idle", "call", "record"} :
            /\ pc' = [pc EXCEPT ![r] = step]
            /\ outcome' = outcome \/ outcome' = [outcome EXCEPT ![r] = "none"]
            /\ UNCHANGED <<index, attempts, billed>>
      BY <2>5
      DEF Refuse, RecordAttemptFails, OutputCheckFails, StreamDone, StreamBroken,
          StreamAbandoned, BeginSettle, BeginMark, BeginRelease, BeginFinalize,
          Settle, SettleFails, Mark, Release, ReleaseFails, Goto, Steps
    <3>2. QED
      BY <3>1, MoveInv
  <2>6. QED
    BY <2>1, <2>2, <2>3, <2>4, <2>5 DEF Handler
<1>2. ASSUME NEW q \in Requests, q # r
      PROVE  ProviderInv(q)'
  BY <1>2, HandlerFrame DEF HandlerInv, ProviderInv
<1>3. QED
  BY <1>1, <1>2 DEF HandlerInv

LEMMA HandlerInvStep == HandlerInv /\ [GatewayNext]_gatewayVars => HandlerInv'
<1> SUFFICES ASSUME HandlerInv, [GatewayNext]_gatewayVars PROVE HandlerInv'
  OBVIOUS
<1>1. CASE \E r \in Requests : Handler(r)
  BY <1>1, HandlerStep
<1>2. CASE UNCHANGED handlerVars
  BY <1>2 DEF handlerVars, HandlerInv, HandlerType, ProviderInv
<1>3. QED
  BY <1>1, <1>2
  DEF GatewayNext, gatewayVars, reconcile_request, OperatorOpens, OperatorSettles,
      OperatorReleases, OperatorFails, run_once, Surroundings

(* Failover runs no request twice, for every number of providers, requests *)
(* and operators, whatever providers answer and whenever handlers crash.   *)
THEOREM FailoverIsSafe == GatewaySpec => []AtMostOneProviderCharges
<1>1. HandlerInv => AtMostOneProviderCharges
  BY DEF HandlerInv, ProviderInv, AtMostOneProviderCharges
<1>2. QED
  BY <1>1, HandlerInit, HandlerInvStep, PTL DEF GatewaySpec

(* Every variable of the gateway keeps its type.                           *)
THEOREM GatewayTypeCorrect == GatewaySpec => []GatewayTypeOK
<1>1. TypeOK /\ HandlerInv => GatewayTypeOK
  BY DEF HandlerInv, HandlerType, GatewayTypeOK
<1>2. QED
  BY <1>1, GatewayImplementsBilling, TypeCorrect, HandlerInit, HandlerInvStep, PTL
  DEF GatewaySpec, ImplementsBilling

-----------------------------------------------------------------------------
(* Automatic release, and returning without a hold                         *)

AllFailed(r) == \A i \in 1..Len(attempts[r]) : attempts[r][i] = "failed"

(* Every provider tried has refused and is on record.                      *)
Clean(r) == billed[r] = {} /\ Len(attempts[r]) = index[r] /\ AllFailed(r)

TrailInv(r) ==
    /\ pc[r] = "idle" => Len(attempts[r]) = 0 /\ request[r].status = "absent"
    /\ pc[r] \in {"call", "record"} => Len(attempts[r]) = index[r] - 1 /\ AllFailed(r)
    /\ pc[r] = "record" => outcome[r] \in Outcomes \ Interruptions
    /\ pc[r] \in {"release", "releasing"} => Clean(r)
    /\ request[r].status = "failed" => pc[r] = "done" /\ Clean(r)
    /\ pc[r] = "done" => request[r].status # "reserved"

(* A session has one transaction open at a time, a handler's is on its own *)
(* request, and only a handler at its release step has one open that ends  *)
(* in "failed".                                                            *)
OpenInv ==
    /\ \A t, u \in open : t.session = u.session => t = u
    /\ \A t \in open : t.session \in Requests => t.req = t.session
    /\ \A t \in open : t.op = "release" /\ t.from = "reserved" =>
          t.session \in Requests /\ pc[t.session] = "releasing"

TrailsInv == OpenInv /\ \A r \in Requests : TrailInv(r)

(* A change of status that neither opens a request nor fails it.           *)
Harmless(q) ==
    \/ request'[q].status = request[q].status
    \/ /\ request[q].status # "absent"
       /\ request'[q].status \in {"pending_reconciliation", "settled",
                                  "under_reserved", "reconciled_released"}

LEMMA TrailsInit == GatewayInit => TrailsInv
  BY DEF GatewayInit, Init, TrailsInv, OpenInv, TrailInv, Clean, AllFailed, NoRequestRow

LEMMA SettleHarmless ==
    ASSUME TypeOK, CoverInv, NEW t \in open, NEW response, NEW up,
           settle_model_request(t, response, up), NEW q \in Requests
    PROVE  /\ Harmless(q) /\ open' = open \ {t}
           /\ request'[t.req].status \in {"settled", "under_reserved"}
<1> DEFINE old == request[t.req]
           usage == usage_from_response(response, old.input_tokens)
           cost == usage_cost(PriceList[old.price], usage.input, usage.output)
           row == [old EXCEPT !.status = IF cost <= old.hold
                                         THEN "settled" ELSE "under_reserved",
                              !.charged = MinOf(cost, old.hold),
                              !.input_tokens = usage.input,
                              !.output_tokens = usage.output]
<1>1. /\ t.req \in Requests /\ old \in RequestRow /\ old.status # "absent"
      /\ request \in [Requests -> RequestRow]
  BY DEF TypeOK, Transaction, CoverInv, HoldInv
<1>2. request' = [request EXCEPT ![t.req] = row] /\ open' = open \ {t}
  BY DEF settle_model_request, Finalize
<1> HIDE DEF usage, cost
<1>3. row.status \in {"settled", "under_reserved"}
  BY <1>1 DEF RequestRow
<1> HIDE DEF row
<1>4. \A p \in Requests : request'[p] = IF p = t.req THEN row ELSE request[p]
  BY <1>1, <1>2
<1>5. open' = open \ {t}
  BY <1>2
<1>6. QED
  BY <1>1, <1>3, <1>4, <1>5 DEF Harmless

LEMMA ReleaseHarmless ==
    ASSUME TypeOK, CoverInv, NEW t \in open, release_model_request(t),
           NEW q \in Requests
    PROVE  /\ Harmless(q) \/ (q = t.req /\ t.from = "reserved")
           /\ t.op = "release" /\ open' = open \ {t}
           /\ request'[t.req].status \in {"failed", "reconciled_released"}
<1> DEFINE old == request[t.req]
           row == [old EXCEPT !.status = IF t.from = "reserved"
                                         THEN "failed" ELSE "reconciled_released"]
<1>1. /\ t.req \in Requests /\ old \in RequestRow /\ old.status # "absent"
      /\ request \in [Requests -> RequestRow]
  BY DEF TypeOK, Transaction, CoverInv, HoldInv
<1>2. /\ request' = [request EXCEPT ![t.req] = row] /\ open' = open \ {t}
      /\ t.op = "release"
  BY DEF release_model_request, Finalize
<1>3. row.status = IF t.from = "reserved" THEN "failed" ELSE "reconciled_released"
  BY <1>1 DEF RequestRow
<1> HIDE DEF row
<1>4. \A p \in Requests : request'[p] = IF p = t.req THEN row ELSE request[p]
  BY <1>1, <1>2
<1>5. open' = open \ {t} /\ t.op = "release"
  BY <1>2
<1>6. QED
  BY <1>1, <1>3, <1>4, <1>5 DEF Harmless

LEMMA MarkHarmless ==
    ASSUME TypeOK, CoverInv, NEW t \in open, mark_pending_reconciliation(t),
           NEW q \in Requests
    PROVE  /\ Harmless(q) /\ open' = open \ {t}
           /\ request'[t.req].status = "pending_reconciliation"
<1>1. /\ t.req \in Requests /\ request[t.req].status # "absent"
      /\ request \in [Requests -> RequestRow]
  BY DEF TypeOK, Transaction, CoverInv, HoldInv
<1>2. \A p \in Requests :
         request'[p] = IF p = t.req
                       THEN [request[p] EXCEPT !.status = "pending_reconciliation"]
                       ELSE request[p]
  BY <1>1 DEF mark_pending_reconciliation
<1>3. request[q] \in RequestRow /\ request[t.req] \in RequestRow
  BY <1>1
<1>4. open' = open \ {t}
  BY DEF mark_pending_reconciliation
<1>5. Harmless(q) /\ request'[t.req].status = "pending_reconciliation"
  BY <1>1, <1>2, <1>3 DEF RequestRow, Harmless
<1>6. QED
  BY <1>4, <1>5

LEMMA SweepHarmless ==
    ASSUME TypeOK, NEW stale, recover_stale_model_reservations(stale),
           NEW q \in Requests
    PROVE  Harmless(q)
<1>1. request'[q] = IF q \in stale
                    THEN [request[q] EXCEPT !.status = "pending_reconciliation"]
                    ELSE request[q]
  BY DEF recover_stale_model_reservations
<1>2. q \in stale => request[q].status = "reserved"
  BY DEF recover_stale_model_reservations
<1>3. request[q] \in RequestRow
  BY DEF TypeOK
<1>4. QED
  BY <1>1, <1>2, <1>3 DEF RequestRow, Harmless

(* A handler nobody moves keeps its trail under harmless changes.          *)
LEMMA TrailKeeps ==
    ASSUME NEW q \in Requests, TrailInv(q), Harmless(q),
           pc'[q] = pc[q], index'[q] = index[q], outcome'[q] = outcome[q],
           attempts'[q] = attempts[q], billed'[q] = billed[q]
    PROVE  TrailInv(q)'
  BY DEF TrailInv, Harmless, Clean, AllFailed

LEMMA OpenKeeps ==
    ASSUME HandlerType, OpenInv, NEW r \in Requests, NEW step,
           pc' = [pc EXCEPT ![r] = step], open' \subseteq open,
           pc[r] = "releasing" => \A t \in open' : t.session # r
    PROVE  OpenInv'
<1>1. \A q \in Requests : q # r => pc'[q] = pc[q]
  BY DEF HandlerType
<1>2. QED
  BY <1>1 DEF OpenInv

(* The handler moves on without touching its request or its record.        *)
LEMMA TrailMoves ==
    ASSUME HandlerType, TrailsInv, NEW r \in Requests, NEW step,
           pc' = [pc EXCEPT ![r] = step],
           \/ step \in {"mark", "dead", "settle", "settling", "marking", "stream"}
              /\ pc[r] # "done"
           \/ step = "releasing" /\ pc[r] = "release"
           \/ step = "done" /\ request[r].status \notin {"reserved", "failed"},
           request' = request
    PROVE  (index' = index /\ attempts' = attempts /\ billed' = billed)
              => TrailInv(r)'
<1>1. pc'[r] = step
  BY DEF HandlerType
<1>2. TrailInv(r)
  BY DEF TrailsInv
<1>3. QED
  BY <1>1, <1>2 DEF TrailInv, Clean, AllFailed

LEMMA ProviderReturnsTrail ==
    ASSUME HandlerInv, TrailsInv, NEW r \in Requests, NEW o \in Outcomes,
           ProviderReturns(r, o)
    PROVE  TrailInv(r)' /\ OpenInv'
<1> DEFINE step == IF o \in Interruptions THEN "mark" ELSE "record"
<1>1. /\ pc[r] = "call" /\ pc' = [pc EXCEPT ![r] = step]
      /\ request' = request /\ open' = open /\ index' = index /\ attempts' = attempts
  BY DEF ProviderReturns, Goto, vars
<1>2. /\ pc'[r] = step
      /\ outcome'[r] = IF o \in Interruptions THEN "none" ELSE o
  BY <1>1 DEF HandlerInv, HandlerType, ProviderReturns
<1>3. TrailInv(r)
  BY DEF TrailsInv
<1>4. OpenInv'
  BY <1>1, OpenKeeps DEF HandlerInv, TrailsInv
<1>5. step \in {"mark", "record"} /\ (step = "record" => o \notin Interruptions)
  OBVIOUS
<1>6. request'[r] = request[r] /\ index'[r] = index[r] /\ attempts'[r] = attempts[r]
  BY <1>1
<1>7. request[r].status # "failed"
  BY <1>1, <1>3 DEF TrailInv
<1> HIDE DEF step
<1>8. TrailInv(r)'
  BY <1>1, <1>2, <1>3, <1>5, <1>6, <1>7 DEF TrailInv, AllFailed
<1>9. QED
  BY <1>4, <1>8

(* A refusal that is not failed over ends in a release with every attempt  *)
(* on record as failed.                                                    *)
LEMMA RecordAttemptTrail ==
    ASSUME HandlerInv, TrailsInv, NEW r \in Requests, RecordAttempt(r)
    PROVE  TrailInv(r)' /\ OpenInv'
<1> DEFINE status == AttemptStatus(outcome[r])
           over == ~request_may_be_billable(outcome[r]) /\ FailsOver(r)
           step == CASE outcome[r] = "ok"                   -> "settle"
                     [] outcome[r] = "opened"               -> "stream"
                     [] request_may_be_billable(outcome[r]) -> "mark"
                     [] FailsOver(r)                        -> "call"
                     [] OTHER                               -> "release"
<1>1. /\ pc[r] = "record" /\ pc' = [pc EXCEPT ![r] = step]
      /\ request' = request /\ open' = open /\ billed' = billed
      /\ attempts' = [attempts EXCEPT ![r] = Append(@, status)]
      /\ index' = IF over THEN [index EXCEPT ![r] = @ + 1] ELSE index
  BY DEF RecordAttempt, Goto, vars
<1>2. TrailInv(r) /\ ProviderInv(r)
  BY DEF TrailsInv, HandlerInv
<1>3. /\ attempts[r] \in Seq({"failed", "succeeded", "stream_opened"})
      /\ index[r] \in 0..Providers
  BY DEF HandlerInv, HandlerType
<1>4. /\ Len(attempts[r]) = index[r] - 1 /\ AllFailed(r)
      /\ outcome[r] \in Outcomes \ Interruptions /\ request[r].status # "failed"
  BY <1>1, <1>2 DEF TrailInv
<1>5. /\ step \in {"settle", "stream", "mark", "call", "release"}
      /\ step = "call" <=> over
      /\ step \in {"call", "release"} => outcome[r] \in Refusals
  BY <1>4 DEF request_may_be_billable, FailsOver, safe_to_failover, Ambiguous,
              Outcomes, Interruptions, Successes, Refusals
<1>6. outcome[r] \in Refusals => status = "failed" /\ billed[r] = {}
  BY <1>1, <1>2 DEF AttemptStatus, Refusals, ProviderInv
<1>7. pc'[r] = step /\ request'[r] = request[r] /\ billed'[r] = billed[r]
  BY <1>1 DEF HandlerInv, HandlerType
<1>8. attempts'[r] = Append(attempts[r], status)
  BY <1>1 DEF HandlerInv, HandlerType
<1>9. index'[r] = IF over THEN index[r] + 1 ELSE index[r]
  BY <1>1 DEF HandlerInv, HandlerType
<1>10. status \in {"failed", "succeeded", "stream_opened"}
  BY DEF AttemptStatus
<1>11. OpenInv'
  BY <1>1, OpenKeeps DEF HandlerInv, TrailsInv
<1> HIDE DEF status, over, step
<1>12. /\ Len(attempts'[r]) = index[r]
       /\ status = "failed" => AllFailed(r)'
  BY <1>3, <1>4, <1>8, <1>10 DEF AllFailed
<1>13. TrailInv(r)'
  BY <1>3, <1>4, <1>5, <1>6, <1>7, <1>9, <1>12 DEF TrailInv, Clean
<1>14. QED
  BY <1>11, <1>13

LEMMA AdmitTrail ==
    ASSUME TypeOK, HandlerInv, TrailsInv, NEW r \in Requests, Admit(r)
    PROVE  /\ TrailInv(r)' /\ OpenInv'
           /\ \A q \in Requests : q # r => Harmless(q)
<1>1. PICK v \in DOMAIN PriceList : reserve_model_request(r, v)
  BY DEF Admit
<1>2. PICK row : row.status = "reserved" /\ request' = [request EXCEPT ![r] = row]
  <2>1. PICK b :
          request' = [request EXCEPT ![r] =
            [status        |-> "reserved",
             hold          |-> reserve_amount(PriceList[v], Payloads[r]),
             budget        |-> b,
             price         |-> v,
             charged       |-> 0,
             input_tokens  |-> estimate_tokens(Payloads[r].chars),
             output_tokens |-> 0]]
    BY <1>1 DEF reserve_model_request
  <2>2. QED
    BY <2>1
<1>3. /\ pc[r] = "idle" /\ pc' = [pc EXCEPT ![r] = "call"] /\ open' = open
      /\ index' = [index EXCEPT ![r] = 1] /\ attempts' = attempts
  BY <1>1 DEF Admit, Goto, reserve_model_request
<1>4. \A q \in Requests : request'[q] = IF q = r THEN row ELSE request[q]
  BY <1>2 DEF TypeOK
<1>5. pc'[r] = "call" /\ index'[r] = 1 /\ request'[r].status = "reserved"
  BY <1>2, <1>3, <1>4 DEF HandlerInv, HandlerType
<1>6. Len(attempts'[r]) = 0
  BY <1>3 DEF TrailsInv, TrailInv
<1>7. TrailInv(r)'
  BY <1>5, <1>6 DEF TrailInv, AllFailed
<1>8. OpenInv'
  BY <1>3, OpenKeeps DEF HandlerInv, TrailsInv
<1>9. QED
  BY <1>4, <1>7, <1>8 DEF Harmless

LEMMA QuietTrail ==
    ASSUME HandlerInv, TrailsInv, NEW r \in Requests,
           \/ Refuse(r) \/ RecordAttemptFails(r) \/ OutputCheckFails(r)
           \/ StreamDone(r) \/ StreamBroken(r) \/ StreamAbandoned(r)
    PROVE  TrailInv(r)' /\ OpenInv'
<1>1. PICK step :
        /\ pc' = [pc EXCEPT ![r] = step]
        /\ pc[r] \in {"idle", "record", "settle", "stream"}
        /\ step = "done" => pc[r] = "idle"
        /\ step \in {"done", "mark", "dead", "settle"}
        /\ request' = request /\ open' = open
        /\ index' = index /\ attempts' = attempts /\ billed' = billed
  BY DEF Refuse, RecordAttemptFails, OutputCheckFails, StreamDone, StreamBroken,
         StreamAbandoned, Goto, vars
<1>2. pc[r] = "idle" => request[r].status = "absent"
  BY DEF TrailsInv, TrailInv
<1>3. TrailInv(r)'
  <2>1. \/ step \in {"mark", "dead", "settle"} /\ pc[r] # "done"
        \/ step = "done" /\ request[r].status \notin {"reserved", "failed"}
    BY <1>1, <1>2
  <2>2. QED
    BY <1>1, <2>1, TrailMoves DEF HandlerInv
<1>4. OpenInv'
  BY <1>1, OpenKeeps DEF HandlerInv, TrailsInv
<1>5. QED
  BY <1>3, <1>4

LEMMA BeginTrail ==
    ASSUME HandlerInv, TrailsInv, NEW r \in Requests,
           BeginSettle(r) \/ BeginMark(r) \/ BeginRelease(r)
    PROVE  TrailInv(r)' /\ OpenInv' /\ request' = request
<1>1. PICK op \in {"settle", "mark", "release"}, opened \in {"settling", "marking", "releasing"} :
        /\ pc[r] \in {"settle", "mark", "release"}
        /\ op = "release" <=> opened = "releasing"
        /\ op = "release" => pc[r] = "release"
        /\ \/ Open(r, r, op, "reserved") /\ Goto(r, opened)
           \/ request[r].status # "reserved" /\ Goto(r, "done") /\ UNCHANGED vars
        /\ index' = index /\ attempts' = attempts /\ billed' = billed
  BY DEF BeginSettle, BeginMark, BeginRelease, BeginFinalize
<1>2. request' = request
  BY <1>1 DEF Open, vars
<1>3. request[r].status # "failed"
  BY <1>1 DEF TrailsInv, TrailInv
<1>4. CASE Open(r, r, op, "reserved") /\ Goto(r, opened)
  <2> DEFINE new == [session |-> r, op |-> op, req |-> r, from |-> "reserved"]
  <2>1. /\ pc' = [pc EXCEPT ![r] = opened] /\ open' = open \cup {new}
        /\ \A t \in open : t.session # r
    BY <1>4 DEF Open, Goto
  <2>2. TrailInv(r)'
    <3>1. \/ opened \in {"settling", "marking"} /\ pc[r] # "done"
          \/ opened = "releasing" /\ pc[r] = "release"
      BY <1>1
    <3>2. QED
      BY <1>1, <1>2, <2>1, <3>1, TrailMoves DEF HandlerInv
  <2>3. new.session = r /\ new.req = r /\ new.op = op
    OBVIOUS
  <2> HIDE DEF new
  <2>4. \A q \in Requests : pc'[q] = IF q = r THEN opened ELSE pc[q]
    BY <2>1 DEF HandlerInv, HandlerType
  <2>5. OpenInv'
    BY <1>1, <2>1, <2>3, <2>4 DEF TrailsInv, OpenInv
  <2>6. QED
    BY <1>2, <2>2, <2>5
<1>5. CASE request[r].status # "reserved" /\ Goto(r, "done") /\ UNCHANGED vars
  <2>1. pc' = [pc EXCEPT ![r] = "done"] /\ open' = open
    BY <1>5 DEF Goto, vars
  <2>2. TrailInv(r)'
    BY <1>1, <1>2, <1>3, <1>5, <2>1, TrailMoves DEF HandlerInv
  <2>3. OpenInv'
    BY <1>1, <2>1, OpenKeeps DEF HandlerInv, TrailsInv
  <2>4. QED
    BY <1>2, <2>2, <2>3
<1>6. QED
  BY <1>1, <1>4, <1>5

(* The transaction ends without effect: back to marking, or not at all.    *)
LEMMA AbortTrail ==
    ASSUME HandlerInv, TrailsInv, NEW r \in Requests,
           SettleFails(r) \/ ReleaseFails(r) \/ Crash(r)
    PROVE  TrailInv(r)' /\ OpenInv' /\ request' = request
<1>1. PICK step \in {"mark", "dead"} :
        /\ pc[r] \notin {"idle", "done", "dead"}
        /\ pc' = [pc EXCEPT ![r] = step]
        /\ \/ \E t \in open : t.session = r /\ Rollback(t)
           \/ (\A t \in open : t.session # r) /\ UNCHANGED vars
  BY DEF SettleFails, ReleaseFails, Crash, Goto
<1>2. request' = request /\ open' \subseteq open
  BY <1>1 DEF Rollback, vars
<1>3. \A t \in open' : t.session # r
  BY <1>1 DEF Rollback, vars, TrailsInv, OpenInv
<1>4. OpenInv'
  BY <1>1, <1>2, <1>3, OpenKeeps DEF HandlerInv, TrailsInv
<1>5. pc'[r] = step
  BY <1>1 DEF HandlerInv, HandlerType
<1>6. request[r].status # "failed"
  BY <1>1 DEF TrailsInv, TrailInv
<1>7. TrailInv(r)'
  BY <1>1, <1>2, <1>5, <1>6 DEF TrailInv
<1>8. QED
  BY <1>2, <1>4, <1>7

(* Settling and marking leave a status that is neither reserved nor        *)
(* failed.                                                                 *)
LEMMA SettleMarkTrail ==
    ASSUME TypeOK, CoverInv, HandlerInv, TrailsInv, NEW r \in Requests,
           Settle(r) \/ Mark(r)
    PROVE  /\ TrailInv(r)' /\ OpenInv'
           /\ \A q \in Requests : Harmless(q)
<1>1. PICK t \in open : /\ t.session = r
                        /\ \/ \E response \in Responses, up \in UpstreamCosts :
                                 settle_model_request(t, response, up)
                           \/ mark_pending_reconciliation(t)
  BY DEF Settle, Mark
<1>2. /\ pc[r] \in {"settling", "marking"} /\ pc' = [pc EXCEPT ![r] = "done"]
      /\ index' = index /\ attempts' = attempts /\ billed' = billed
  BY DEF Settle, Mark, Goto
<1>3. (\A q \in Requests : Harmless(q)) /\ open' = open \ {t}
  BY <1>1, SettleHarmless, MarkHarmless
<1>4. OpenInv'
  BY <1>2, <1>3, OpenKeeps DEF HandlerInv, TrailsInv
<1>5. TrailInv(r) /\ pc'[r] = "done"
  BY <1>2 DEF TrailsInv, HandlerInv, HandlerType
<1>6. t.req = r
  BY <1>1 DEF TrailsInv, OpenInv
<1>7. request'[r].status \in {"settled", "under_reserved", "pending_reconciliation"}
  BY <1>1, <1>6, SettleHarmless, MarkHarmless
<1>8. QED
  BY <1>3, <1>4, <1>5, <1>7 DEF TrailInv

(* Releasing fails the handler's own request, whose trail is clean.        *)
LEMMA ReleaseTrail ==
    ASSUME TypeOK, CoverInv, HandlerInv, TrailsInv, NEW r \in Requests, Release(r)
    PROVE  /\ TrailInv(r)' /\ OpenInv'
           /\ \A q \in Requests : q # r => Harmless(q)
<1>1. PICK t \in open : t.session = r /\ release_model_request(t)
  BY DEF Release
<1>2. /\ pc[r] = "releasing" /\ pc' = [pc EXCEPT ![r] = "done"]
      /\ index' = index /\ attempts' = attempts /\ billed' = billed
  BY DEF Release, Goto
<1>3. t.req = r
  BY <1>1 DEF TrailsInv, OpenInv
<1>4. /\ \A q \in Requests : q # r => Harmless(q)
      /\ open' = open \ {t}
      /\ request'[r].status \in {"failed", "reconciled_released"}
  BY <1>1, <1>3, ReleaseHarmless
<1>5. \A u \in open' : u.session # r
  BY <1>1, <1>4 DEF TrailsInv, OpenInv
<1>6. OpenInv'
  BY <1>2, <1>4, <1>5, OpenKeeps DEF HandlerInv, TrailsInv
<1>7. pc'[r] = "done" /\ Clean(r)
  BY <1>2 DEF TrailsInv, TrailInv, HandlerInv, HandlerType
<1>8. Clean(r)'
  BY <1>2, <1>7 DEF Clean, AllFailed
<1>9. QED
  BY <1>4, <1>6, <1>7, <1>8 DEF TrailInv

LEMMA HandlerTrail ==
    ASSUME TypeOK, CoverInv, HandlerInv, TrailsInv, NEW r \in Requests, Handler(r)
    PROVE  TrailsInv'
<1>1. /\ TrailInv(r)' /\ OpenInv'
      /\ \A q \in Requests : q # r => Harmless(q)
  <2>1. CASE Admit(r)
    BY <2>1, AdmitTrail
  <2>2. CASE \E o \in Outcomes : ProviderReturns(r, o)
    BY <2>2, ProviderReturnsTrail DEF ProviderReturns, vars, Harmless
  <2>3. CASE RecordAttempt(r)
    BY <2>3, RecordAttemptTrail DEF RecordAttempt, vars, Harmless
  <2>4. CASE \/ Refuse(r) \/ RecordAttemptFails(r) \/ OutputCheckFails(r)
             \/ StreamDone(r) \/ StreamBroken(r) \/ StreamAbandoned(r)
    <3>1. request' = request
      BY <2>4 DEF Refuse, RecordAttemptFails, OutputCheckFails, StreamDone,
                  StreamBroken, StreamAbandoned, vars
    <3>2. QED
      BY <2>4, <3>1, QuietTrail DEF Harmless
  <2>5. CASE BeginSettle(r) \/ BeginMark(r) \/ BeginRelease(r)
    BY <2>5, BeginTrail DEF Harmless
  <2>6. CASE SettleFails(r) \/ ReleaseFails(r) \/ Crash(r)
    BY <2>6, AbortTrail DEF Harmless
  <2>7. CASE Settle(r) \/ Mark(r)
    BY <2>7, SettleMarkTrail
  <2>8. CASE Release(r)
    BY <2>8, ReleaseTrail
  <2>9. QED
    BY <2>1, <2>2, <2>3, <2>4, <2>5, <2>6, <2>7, <2>8 DEF Handler
<1>2. ASSUME NEW q \in Requests, q # r
      PROVE  TrailInv(q)'
  <2>1. TrailInv(q) /\ Harmless(q)
    BY <1>1, <1>2 DEF TrailsInv
  <2>2. /\ pc'[q] = pc[q] /\ index'[q] = index[q] /\ outcome'[q] = outcome[q]
        /\ attempts'[q] = attempts[q] /\ billed'[q] = billed[q]
    BY <1>2, HandlerFrame DEF HandlerInv
  <2>3. QED
    BY <2>1, <2>2, TrailKeeps
<1>3. QED
  BY <1>1, <1>2 DEF TrailsInv

(* Operators, the sweeper and the surroundings move no handler.            *)
LEMMA OthersTrail ==
    ASSUME TypeOK, CoverInv, TrailsInv, UNCHANGED handlerVars,
           OpenInv', \A q \in Requests : Harmless(q)
    PROVE  TrailsInv'
  BY TrailKeeps DEF TrailsInv, handlerVars

LEMMA OperatorTrail ==
    ASSUME TypeOK, CoverInv, TrailsInv, NEW o \in Operators, reconcile_request(o)
    PROVE  TrailsInv'
<1>1. UNCHANGED handlerVars /\ pc' = pc
  BY DEF reconcile_request, OperatorOpens, OperatorSettles, OperatorReleases,
         OperatorFails, handlerVars
<1>2. o \notin Requests
  BY GatewayAssumption
<1>3. CASE \E r \in Requests, op \in {"settle", "release"} : OperatorOpens(o, r, op)
  <2>1. PICK r \in Requests, op \in {"settle", "release"} :
           Open(o, r, op, "pending_reconciliation")
    BY <1>3 DEF OperatorOpens
  <2> DEFINE new == [session |-> o, op |-> op, req |-> r,
                     from |-> "pending_reconciliation"]
  <2>2. /\ open' = open \cup {new} /\ request' = request
        /\ \A t \in open : t.session # o
    BY <2>1 DEF Open
  <2>3. new.session = o /\ new.from # "reserved"
    OBVIOUS
  <2> HIDE DEF new
  <2>4. OpenInv'
    BY <1>1, <1>2, <2>2, <2>3 DEF TrailsInv, OpenInv
  <2>5. QED
    BY <1>1, <2>2, <2>4, OthersTrail DEF Harmless
<1>4. CASE OperatorSettles(o) \/ OperatorReleases(o) \/ OperatorFails(o)
  <2>1. PICK t \in open :
          /\ t.session = o
          /\ \/ \E response \in Responses, up \in UpstreamCosts :
                   settle_model_request(t, response, up)
             \/ release_model_request(t) \/ Rollback(t)
    BY <1>4 DEF OperatorSettles, OperatorReleases, OperatorFails
  <2>2. ~(t.op = "release" /\ t.from = "reserved")
    BY <1>2, <2>1 DEF TrailsInv, OpenInv
  <2>3. open' = open \ {t} /\ \A q \in Requests : Harmless(q)
    <3>1. CASE Rollback(t)
      BY <3>1 DEF Rollback, Harmless
    <3>2. CASE release_model_request(t)
      <4>1. t.op = "release" /\ open' = open \ {t}
        BY <3>2 DEF release_model_request, Finalize
      <4>2. QED
        BY <2>2, <3>2, <4>1, ReleaseHarmless
    <3>3. CASE \E response \in Responses, up \in UpstreamCosts :
                  settle_model_request(t, response, up)
      <4>1. open' = open \ {t}
        BY <3>3 DEF settle_model_request, Finalize
      <4>2. QED
        BY <3>3, <4>1, SettleHarmless
    <3>4. QED
      BY <2>1, <3>1, <3>2, <3>3
  <2>4. OpenInv'
    BY <1>1, <2>3 DEF TrailsInv, OpenInv
  <2>5. QED
    BY <1>1, <2>3, <2>4, OthersTrail
<1>5. QED
  BY <1>3, <1>4 DEF reconcile_request

LEMMA TrailsStep ==
    TypeOK /\ CoverInv /\ HandlerInv /\ TrailsInv /\ [GatewayNext]_gatewayVars
      => TrailsInv'
<1> SUFFICES ASSUME TypeOK, CoverInv, HandlerInv, TrailsInv,
                    [GatewayNext]_gatewayVars
             PROVE  TrailsInv'
  OBVIOUS
<1>1. CASE \E r \in Requests : Handler(r)
  BY <1>1, HandlerTrail
<1>2. CASE \E o \in Operators : reconcile_request(o)
  BY <1>2, OperatorTrail
<1>3. CASE \E stale \in SUBSET Requests : run_once(stale)
  <2>1. PICK stale \in SUBSET Requests : recover_stale_model_reservations(stale)
    BY <1>3 DEF run_once
  <2>2. UNCHANGED handlerVars /\ open' = open
    BY <1>3 DEF run_once, recover_stale_model_reservations
  <2>3. OpenInv'
    BY <2>2 DEF TrailsInv, OpenInv, handlerVars
  <2>4. QED
    BY <2>1, <2>2, <2>3, SweepHarmless, OthersTrail
<1>4. CASE UNCHANGED <<request, open>> /\ UNCHANGED handlerVars
  <2>1. OpenInv'
    BY <1>4 DEF TrailsInv, OpenInv, handlerVars
  <2>2. QED
    BY <1>4, <2>1, OthersTrail DEF Harmless
<1>5. QED
  BY <1>1, <1>2, <1>3, <1>4
  DEF GatewayNext, gatewayVars, vars, Surroundings, create_budget, ChangeAdmission,
      NextMonth, seed_prices

(* The conjunction of all inductive invariants, over the gateway.          *)
LEMMA TrailsAlways == GatewaySpec => [](HandlerInv /\ TrailsInv)
<1>1. GatewaySpec => [](TypeOK /\ CoverInv)
  <2>1. Spec => [](TypeOK /\ CoverInv)
    BY TypeInit, TypeStep, CoverInit, CoverStep, PTL DEF Spec
  <2>2. QED
    BY <2>1, GatewayImplementsBilling, PTL DEF ImplementsBilling
<1>2. QED
  BY <1>1, HandlerInit, HandlerInvStep, TrailsInit, TrailsStep, PTL DEF GatewaySpec

(* The gateway gives a hold back on its own only for requests that every   *)
(* provider tried has refused.                                             *)
THEOREM AutomaticReleaseHolds == GatewaySpec => []AutomaticReleaseIsSafe
<1>1. HandlerInv /\ TrailsInv => AutomaticReleaseIsSafe
  BY DEF TrailsInv, TrailInv, Clean, AllFailed, AutomaticReleaseIsSafe
<1>2. QED
  BY <1>1, TrailsAlways, PTL

(* A handler that returns leaves no hold that only the sweeper would find. *)
THEOREM NoSilentHoldHolds == GatewaySpec => []NoSilentHold
<1>1. HandlerInv /\ TrailsInv => NoSilentHold
  BY DEF TrailsInv, TrailInv, NoSilentHold
<1>2. QED
  BY <1>1, TrailsAlways, PTL

-----------------------------------------------------------------------------
(* A repeated request is not billed twice                                  *)

(* No provider is called for, and none can have charged, a request that    *)
(* was not admitted.                                                       *)
AdmittedInv(r) ==
    billed[r] # {} \/ pc[r] \in {"call", "record"} => request[r].status # "absent"

AdmissionInv == KeyInv /\ \A r \in Requests : AdmittedInv(r)

LEMMA AdmissionInit == GatewayInit => AdmissionInv
  BY KeyInit DEF GatewayInit, AdmissionInv, AdmittedInv

(* Only admission starts the provider calls, and only a call bills.        *)
LEMMA HandlerAdmits ==
    ASSUME TypeOK, HandlerType, NEW r \in Requests, Handler(r)
    PROVE  \/ request'[r].status # "absent"
           \/ /\ pc'[r] \in {"call", "record"} => pc[r] \in {"call", "record"}
              /\ billed'[r] # billed[r] => pc[r] = "call"
<1>1. CASE Admit(r)
  <2>1. PICK v \in DOMAIN PriceList : reserve_model_request(r, v)
    BY <1>1 DEF Admit
  <2>2. request'[r].status = "reserved"
    BY <2>1, ReserveWrites
  <2>3. QED
    BY <2>2
<1>2. CASE (\E o \in Outcomes : ProviderReturns(r, o)) \/ RecordAttempt(r) \/ Crash(r)
  BY <1>2 DEF ProviderReturns, RecordAttempt, Crash, Goto, HandlerType
<1>3. CASE \/ Refuse(r) \/ RecordAttemptFails(r) \/ OutputCheckFails(r)
           \/ StreamDone(r) \/ StreamBroken(r) \/ StreamAbandoned(r)
           \/ BeginSettle(r) \/ Settle(r) \/ SettleFails(r)
           \/ BeginMark(r) \/ Mark(r)
           \/ BeginRelease(r) \/ Release(r) \/ ReleaseFails(r)
  BY <1>3
  DEF Refuse, RecordAttemptFails, OutputCheckFails, StreamDone, StreamBroken,
      StreamAbandoned, BeginSettle, BeginMark, BeginRelease, BeginFinalize,
      Settle, SettleFails, Mark, Release, ReleaseFails, Goto, HandlerType
<1>4. QED
  BY <1>1, <1>2, <1>3 DEF Handler

LEMMA AdmissionStep ==
    TypeOK /\ CoverInv /\ HandlerInv /\ AdmissionInv /\ [GatewayNext]_gatewayVars
      => AdmissionInv'
<1> SUFFICES ASSUME TypeOK, CoverInv, HandlerInv, AdmissionInv,
                    [GatewayNext]_gatewayVars
             PROVE  AdmissionInv'
  OBVIOUS
<1>1. [Next]_vars /\ HoldInv /\ HandlerType
  BY StepImplements DEF CoverInv, HandlerInv
<1>2. KeyInv'
  BY <1>1, KeyStep DEF AdmissionInv
<1>3. \A q \in Requests : request'[q].status = "absent" => request[q].status = "absent"
  BY <1>1, RowsAreKept
<1>4. CASE \E r \in Requests : Handler(r)
  <2>1. PICK r \in Requests : Handler(r)
    BY <1>4
  <2>2. AdmittedInv(r)'
    BY <1>1, <1>3, <2>1, HandlerAdmits DEF AdmissionInv, AdmittedInv
  <2>3. ASSUME NEW q \in Requests, q # r
        PROVE  AdmittedInv(q)'
    <3>1. pc'[q] = pc[q] /\ billed'[q] = billed[q]
      BY <1>1, <2>1, <2>3, HandlerFrame
    <3>2. QED
      BY <1>3, <3>1 DEF AdmissionInv, AdmittedInv
  <2>4. QED
    BY <1>2, <2>2, <2>3 DEF AdmissionInv
<1>5. CASE UNCHANGED handlerVars
  BY <1>2, <1>3, <1>5 DEF handlerVars, AdmissionInv, AdmittedInv
<1>6. QED
  BY <1>4, <1>5
  DEF GatewayNext, gatewayVars, reconcile_request, OperatorOpens, OperatorSettles,
      OperatorReleases, OperatorFails, run_once, Surroundings

(* Of all requests that carry one Idempotency-Key at most one is ever      *)
(* billed by a provider: the key stays taken when its request has failed,  *)
(* was settled or waits for an operator.                                   *)
THEOREM RetryChargesOnceHolds == GatewaySpec => []RetryChargesOnce
<1> DEFINE Inv == TypeOK /\ CoverInv /\ HandlerInv /\ AdmissionInv
<1>1. GatewayInit => Inv
  BY TypeInit, CoverInit, HandlerInit, AdmissionInit DEF GatewayInit
<1>2. Inv /\ [GatewayNext]_gatewayVars => Inv'
  BY StepImplements, TypeStep, CoverStep, HandlerInvStep, AdmissionStep
<1>3. Inv => RetryChargesOnce
  BY DEF AdmissionInv, AdmittedInv, KeyInv, RetryChargesOnce
<1> HIDE DEF Inv
<1>4. QED
  BY <1>1, <1>2, <1>3, PTL DEF GatewaySpec
=============================================================================
