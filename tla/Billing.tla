------------------------------- MODULE Billing -------------------------------
(***************************************************************************)
(* Pre-authorization, settlement and release of model requests             *)
(* (app/services/gateway_billing.py), monthly budgets                      *)
(* (app/services/budget.py) and the stale-hold sweeper                     *)
(* (app/services/reconciliation_maintenance.py), for one customer: every   *)
(* statement of these files filters on one user_id, so customers do not    *)
(* interact here.                                                          *)
(*                                                                         *)
(* Granularity.  The database runs READ COMMITTED.  Reserving a hold and   *)
(* replacing a budget serialize on the customer's wallet row, and the      *)
(* sweeper is one conditional UPDATE: each is one action.  Settling,       *)
(* releasing and marking a request first read its row WITHOUT a lock       *)
(* (session.get) and write it by primary key later, so each is two         *)
(* actions: Open (the read and the status check) and a commit, between     *)
(* which any other transaction may run.  `open' holds the transactions     *)
(* that are between the two.                                               *)
(*                                                                         *)
(* Operators whose name ends in _unchecked, _ignoring_holds and the like,  *)
(* each right before the operator it varies, are seeded faults: the checks *)
(* replace the one by the other to show that a property notices.           *)
(*                                                                         *)
(* This module lets any session call any operation at any time; Gateway    *)
(* restricts the calls to those the HTTP handlers make.                    *)
(***************************************************************************)
EXTENDS Integers, FiniteSets, Functions, Ledger, Pricing

CONSTANTS
    Requests,        \* model_requests.id values
    Sessions,        \* database sessions that finalize requests
    Payloads,        \* the payload each request is admitted with
    IdempotencyKey,  \* the client's Idempotency-Key of each request, or NoKey
    NoKey,
    PriceList,       \* price version -> price; a new version deactivates the old
    BudgetIds,       \* budgets.id values, in creation order
    BudgetLimits,    \* limits a customer asks for
    LastMonth,       \* bound: the last calendar month explored
    Credit,          \* service credit paid in before the first request
    Responses,       \* usage a settlement may be computed from
    UpstreamCosts    \* provider costs a settlement may book

NoBudget == 0

ASSUME ConstantsAssumption ==
    /\ IsFiniteSet(Requests)
    /\ Payloads \in [Requests -> Payload]
    /\ \A r \in Requests : Payloads[r].chars <= Payloads[r].bytes
    /\ BudgetIds \subseteq Nat \ {NoBudget}
    /\ BudgetLimits \subseteq Nat \ {0}
    /\ LastMonth \in Nat \ {0}
    /\ Credit \in Nat \ {0}
    /\ Responses \subseteq Response
    /\ UpstreamCosts \subseteq Nat

ASSUME PriceListAssumption ==
    /\ DOMAIN PriceList \subseteq Nat
    /\ 1 \in DOMAIN PriceList
    /\ \A v \in DOMAIN PriceList : PriceList[v] \in Price

VARIABLES
    admissible,  \* the user and the API key are both active
    wallet,      \* [balance, reserved]
    budget,      \* budget rows
    month,       \* the calendar month the clock is in
    version,     \* the newest active price version
    request,     \* model_requests rows
    ledger,      \* journal sums per account
    posted,      \* ledger idempotency keys model:<id>:<kind>
    open,        \* finalizing transactions that have read, not yet written
    overlapped   \* history: requests two such transactions were open on at once

vars == <<admissible, wallet, budget, month, version, request, ledger,
          posted, open, overlapped>>

OpenStatuses == {"reserved", "pending_reconciliation"}
FinalStatuses == {"settled", "under_reserved", "failed", "reconciled_released"}
Kinds == {"reserve", "settle", "release"}
Months == 1..LastMonth

Transaction ==
    [session : Sessions, op : {"settle", "release", "mark"}, req : Requests,
     from : OpenStatuses]

BudgetRow ==
    [status : {"absent", "active", "superseded"}, limit : Nat, spent : Nat,
     reserved : Nat, month : Nat]

RequestRow ==
    [status : {"absent"} \cup OpenStatuses \cup FinalStatuses, hold : Nat,
     budget : BudgetIds \cup {NoBudget}, price : DOMAIN PriceList,
     charged : Nat, input_tokens : Nat, output_tokens : Nat]

NoBudgetRow ==
    [status |-> "absent", limit |-> 0, spent |-> 0, reserved |-> 0, month |-> 0]
NoRequestRow ==
    [status |-> "absent", hold |-> 0, budget |-> NoBudget, price |-> 1,
     charged |-> 0, input_tokens |-> 0, output_tokens |-> 0]

TypeOK ==
    /\ admissible \in BOOLEAN
    /\ wallet \in [balance : Nat, reserved : Nat]
    /\ budget \in [BudgetIds -> BudgetRow]
    /\ month \in Months
    /\ version \in DOMAIN PriceList
    /\ request \in [Requests -> RequestRow]
    /\ ledger \in [Accounts -> Int]
    /\ posted \subseteq Requests \X Kinds
    /\ open \subseteq Transaction
    /\ overlapped \subseteq Requests

(* The customer's credit was booked by a payment (see PaymentDomain).      *)
Init ==
    /\ admissible = TRUE
    /\ wallet = [balance |-> Credit, reserved |-> 0]
    /\ budget = [b \in BudgetIds |-> NoBudgetRow]
    /\ month = 1
    /\ version = 1
    /\ request = [r \in Requests |-> NoRequestRow]
    /\ ledger = Post(EmptyLedger, [customer_available |-> Credit,
                                   platform_clearing |-> -Credit])
    /\ posted = {}
    /\ open = {}
    /\ overlapped = {}

-----------------------------------------------------------------------------
(* Budgets                                                                 *)

(* b is the newest active budget of month m, or there is none.             *)
newest_active(b, m) ==
    LET active == {c \in BudgetIds : budget[c].status = "active"
                                       /\ budget[c].month = m}
    IN  \/ b = NoBudget /\ active = {}
        \/ b \in active /\ \A c \in active : c <= b

active_budget(b) == newest_active(b, month)

(* A budget may be replaced when nothing is on hold against it, and by a   *)
(* limit not below what is spent.                                          *)
replaceable_ignoring_holds(current, limit) ==
    current # NoBudget => limit >= budget[current].spent

replaceable(current, limit) ==
    current # NoBudget =>
        budget[current].reserved = 0 /\ limit >= budget[current].spent

carried_spend_lost(current) == 0

carried_spend(current) ==
    IF current = NoBudget THEN 0 ELSE budget[current].spent

(* The period is computed before the wallet row is locked, so a call that  *)
(* waits over midnight of the last day still works on the month before.    *)
create_budget(limit, start) ==
    /\ start \in {month, month - 1} \cap Months
    /\ \E new \in BudgetIds, current \in BudgetIds \cup {NoBudget} :
        /\ budget[new].status = "absent"
        /\ \A b \in BudgetIds : b < new => budget[b].status # "absent"
        /\ newest_active(current, start)
        /\ replaceable(current, limit)
        /\ LET row == [status   |-> "active",
                       limit    |-> limit,
                       spent    |-> carried_spend(current),
                       reserved |-> 0,
                       month    |-> start]
           IN  budget' = [b \in BudgetIds |->
                            IF b = new THEN row
                            ELSE IF b = current
                                 THEN [budget[b] EXCEPT !.status = "superseded"]
                                 ELSE budget[b]]
    /\ UNCHANGED <<admissible, wallet, month, version, request, ledger,
                   posted, open, overlapped>>

-----------------------------------------------------------------------------
(* Holds                                                                   *)

ReserveEntries(hold) ==
    [customer_available |-> -hold, customer_reserved |-> hold]

ReleaseEntries(hold) ==
    [customer_reserved |-> -hold, customer_available |-> hold]

SettleEntries_uncapped(hold, cost, upstream_cost) ==
    [customer_reserved         |-> -hold,
     customer_available        |-> hold - cost,
     platform_revenue          |-> cost,
     platform_provider_expense |-> upstream_cost,
     platform_provider_payable |-> -upstream_cost]

(* The customer pays for at most the hold; the rest of the revenue is the  *)
(* platform's risk.                                                        *)
SettleEntries(hold, cost, upstream_cost) ==
    LET charged == MinOf(cost, hold)
    IN  [customer_reserved         |-> -hold,
         customer_available        |-> hold - charged,
         platform_revenue          |-> cost,
         platform_risk             |-> charged - cost,
         platform_provider_expense |-> upstream_cost,
         platform_provider_payable |-> -upstream_cost]

(* Whether the budget, if there is one, has room for another hold.         *)
covers_ignoring_holds(b, hold) ==
    b # NoBudget => budget[b].limit - budget[b].spent >= hold

covers(b, hold) ==
    b # NoBudget =>
        budget[b].limit - budget[b].spent - budget[b].reserved >= hold

(* The select on the idempotency key, backed by its unique constraint.     *)
key_unused_by_open(r) ==
    \A q \in Requests :
        /\ request[q].status \in OpenStatuses
        /\ IdempotencyKey[q] = IdempotencyKey[r]
        => IdempotencyKey[r] = NoKey

key_unused(r) ==
    \A q \in Requests :
        /\ request[q].status # "absent"
        /\ IdempotencyKey[q] = IdempotencyKey[r]
        => IdempotencyKey[r] = NoKey

wallet_covers_with_holds(hold) == wallet.balance + wallet.reserved >= hold

(* The conditional UPDATE of the wallet.                                   *)
wallet_covers(hold) == wallet.balance >= hold

(* Pre-authorization.  A refusal (unknown price, reused idempotency key,   *)
(* inactive user or key, insufficient balance or budget) rolls back and    *)
(* changes nothing.  The price row is read before the user, key and wallet *)
(* rows are locked, so v may have been replaced while it waited for them.  *)
reserve_model_request(r, v) ==
    LET hold == reserve_amount(PriceList[v], Payloads[r])
    IN  /\ v \in {version - 1, version}
        /\ request[r].status = "absent"
        /\ key_unused(r)
        /\ admissible
        /\ wallet_covers(hold)
        /\ \E b \in BudgetIds \cup {NoBudget} :
            /\ active_budget(b)
            /\ covers(b, hold)
            /\ budget' = [c \in BudgetIds |->
                            IF c = b
                            THEN [budget[c] EXCEPT !.reserved = @ + hold]
                            ELSE budget[c]]
            /\ request' = [request EXCEPT ![r] =
                 [status        |-> "reserved",
                  hold          |-> hold,
                  budget        |-> b,
                  price         |-> v,
                  charged       |-> 0,
                  input_tokens  |-> estimate_tokens(Payloads[r].chars),
                  output_tokens |-> 0]]
        /\ wallet' = [balance  |-> wallet.balance - hold,
                      reserved |-> wallet.reserved + hold]
        /\ ledger' = Post(ledger, ReserveEntries(hold))
        /\ posted' = posted \cup {<<r, "reserve">>}
        /\ UNCHANGED <<admissible, month, version, open, overlapped>>

Open_unchecked(s, r, op, from) ==
    /\ \A t \in open : t.session # s
    /\ request[r].status # "absent"
    /\ open' = open \cup {[session |-> s, op |-> op, req |-> r, from |-> from]}
    /\ overlapped' = overlapped \cup {q \in {r} : \E t \in open : t.req = q}
    /\ UNCHANGED <<admissible, wallet, budget, month, version, request,
                   ledger, posted>>

(* The first half of settle_model_request, release_model_request and       *)
(* mark_pending_reconciliation: read the row, go on only if its status is  *)
(* the one this caller may finalize from.                                  *)
Open(s, r, op, from) ==
    /\ \A t \in open : t.session # s
    /\ request[r].status = from
    /\ from \in OpenStatuses
    /\ op = "mark" => from = "reserved"
    /\ open' = open \cup {[session |-> s, op |-> op, req |-> r, from |-> from]}
    /\ overlapped' = overlapped \cup {q \in {r} : \E t \in open : t.req = q}
    /\ UNCHANGED <<admissible, wallet, budget, month, version, request,
                   ledger, posted>>

CanFinalize_by_any_key(t) ==
    LET row == request[t.req]
    IN  /\ wallet.reserved >= row.hold
        /\ row.budget # NoBudget => budget[row.budget].reserved >= row.hold

(* The guards of the second half: the conditional UPDATEs of the wallet    *)
(* and of the budget, then the unique ledger key.                          *)
CanFinalize(t) ==
    LET row == request[t.req]
    IN  /\ wallet.reserved >= row.hold
        /\ row.budget # NoBudget => budget[row.budget].reserved >= row.hold
        /\ <<t.req, t.op>> \notin posted

(* What the second half does to the wallet, the budget and the journal.    *)
(* The status is written by primary key, whatever it has become meanwhile. *)
Finalize(t, charged, entries, row) ==
    LET old == request[t.req]
    IN  /\ CanFinalize(t)
        /\ wallet' = [balance  |-> wallet.balance + (old.hold - charged),
                      reserved |-> wallet.reserved - old.hold]
        /\ budget' = [b \in BudgetIds |->
                        IF b = old.budget
                        THEN [budget[b] EXCEPT !.reserved = @ - old.hold,
                                               !.spent = @ + charged]
                        ELSE budget[b]]
        /\ Balanced(entries)
        /\ ledger' = Post(ledger, entries)
        /\ posted' = posted \cup {<<t.req, t.op>>}
        /\ request' = [request EXCEPT ![t.req] = row]
        /\ open' = open \ {t}
        /\ UNCHANGED <<admissible, month, version, overlapped>>

settle_model_request(t, response, upstream_cost) ==
    LET old == request[t.req]
        usage == usage_from_response(response, old.input_tokens)
        cost == usage_cost(PriceList[old.price], usage.input, usage.output)
        charged == MinOf(cost, old.hold)
    IN  /\ t.op = "settle"
        /\ Finalize(t, charged, SettleEntries(old.hold, cost, upstream_cost),
             [old EXCEPT !.status = IF cost <= old.hold
                                    THEN "settled" ELSE "under_reserved",
                         !.charged = charged,
                         !.input_tokens = usage.input,
                         !.output_tokens = usage.output])

release_model_request(t) ==
    LET old == request[t.req]
    IN  /\ t.op = "release"
        /\ Finalize(t, 0, ReleaseEntries(old.hold),
             [old EXCEPT !.status = IF t.from = "reserved"
                                    THEN "failed" ELSE "reconciled_released"])

mark_pending_reconciliation(t) ==
    /\ t.op = "mark"
    /\ request' = [request EXCEPT ![t.req].status = "pending_reconciliation"]
    /\ open' = open \ {t}
    /\ UNCHANGED <<admissible, wallet, budget, month, version, ledger, posted,
                   overlapped>>

(* A refused UPDATE, a duplicate ledger key, or a lost connection: the     *)
(* transaction leaves nothing behind.                                      *)
Rollback(t) ==
    /\ open' = open \ {t}
    /\ UNCHANGED <<admissible, wallet, budget, month, version, request,
                   ledger, posted, overlapped>>

recover_stale_as_failed(stale) ==
    /\ stale # {}
    /\ \A r \in stale : request[r].status = "reserved"
    /\ request' = [r \in Requests |->
                     IF r \in stale
                     THEN [request[r] EXCEPT !.status = "failed"]
                     ELSE request[r]]
    /\ UNCHANGED <<admissible, wallet, budget, month, version, ledger, posted,
                   open, overlapped>>

(* The sweeper: one UPDATE over the holds that have outlived their lease.  *)
recover_stale_model_reservations(stale) ==
    /\ stale # {}
    /\ \A r \in stale : request[r].status = "reserved"
    /\ request' = [r \in Requests |->
                     IF r \in stale
                     THEN [request[r] EXCEPT !.status = "pending_reconciliation"]
                     ELSE request[r]]
    /\ UNCHANGED <<admissible, wallet, budget, month, version, ledger, posted,
                   open, overlapped>>

-----------------------------------------------------------------------------
(* The surroundings                                                        *)

(* Freezing or unfreezing the user, revoking the key.                      *)
ChangeAdmission ==
    /\ admissible' = ~admissible
    /\ UNCHANGED <<wallet, budget, month, version, request, ledger, posted,
                   open, overlapped>>

NextMonth ==
    /\ month < LastMonth
    /\ month' = month + 1
    /\ UNCHANGED <<admissible, wallet, budget, version, request, ledger,
                   posted, open, overlapped>>

(* A restart with another configured price deactivates the current row and *)
(* inserts the next version.                                               *)
seed_prices ==
    /\ version + 1 \in DOMAIN PriceList
    /\ version' = version + 1
    /\ UNCHANGED <<admissible, wallet, budget, month, request, ledger,
                   posted, open, overlapped>>

Finalizers(t) ==
    \/ \E response \in Responses, upstream_cost \in UpstreamCosts :
          settle_model_request(t, response, upstream_cost)
    \/ release_model_request(t)
    \/ mark_pending_reconciliation(t)
    \/ Rollback(t)

Next ==
    \/ \E r \in Requests, v \in DOMAIN PriceList : reserve_model_request(r, v)
    \/ \E s \in Sessions, r \in Requests, op \in {"settle", "release", "mark"},
          from \in OpenStatuses : Open(s, r, op, from)
    \/ \E t \in open : Finalizers(t)
    \/ \E stale \in SUBSET Requests : recover_stale_model_reservations(stale)
    \/ \E limit \in BudgetLimits, start \in Months : create_budget(limit, start)
    \/ ChangeAdmission
    \/ NextMonth
    \/ seed_prices

Spec == Init /\ [][Next]_vars

-----------------------------------------------------------------------------
(* Properties                                                              *)

HoldOf == [r \in Requests |-> request[r].hold]
ChargeOf == [r \in Requests |-> request[r].charged]
OpenRequests == {r \in Requests : request[r].status \in OpenStatuses}
Finalized(r) == <<r, "settle">> \in posted \/ <<r, "release">> \in posted

(* The wallet row is a cache of the journal: in every committed state its  *)
(* two columns are the sums of the customer's two accounts, and the whole  *)
(* journal cancels.  Every writer of gateway_billing.py moves both in one  *)
(* transaction.                                                            *)
WalletMatchesLedger ==
    /\ wallet.balance = ledger[CUSTOMER_AVAILABLE]
    /\ wallet.reserved = ledger[CUSTOMER_RESERVED]
    /\ TotalOf(ledger) = 0

(* A budget is a hard stop: what is spent and held against it never passes *)
(* its limit, whatever is settled late, after it was replaced or after its *)
(* month ended.                                                            *)
BudgetWithinLimit ==
    \A b \in BudgetIds : budget[b].spent + budget[b].reserved <= budget[b].limit

(* Replacing a budget and admitting a request serialize on the wallet row: *)
(* a month has at most one active budget, and a superseded one never holds *)
(* anything again.                                                         *)
OneActiveBudget ==
    /\ \A b, c \in BudgetIds :
          /\ budget[b].status = "active" /\ budget[c].status = "active"
          /\ budget[b].month = budget[c].month
          => b = c
    /\ \A b \in BudgetIds : budget[b].status # "active" => budget[b].reserved = 0

(* Replacing the month's budget loses no spend: the active budget carries  *)
(* every charge of every request that was held against a budget of its     *)
(* month, also the ones replaced since.                                    *)
MonthSpendIsComplete ==
    \A b \in BudgetIds : budget[b].status = "active" =>
        budget[b].spent =
          SumFunctionOnSet(ChargeOf,
            {r \in Requests : request[r].budget # NoBudget
                                /\ budget[request[r].budget].month
                                     = budget[b].month})

(* The pre-authorization is enough: the platform carries a loss only for a *)
(* request whose reported usage passed the bound it was admitted with, and *)
(* never because prices were changed between hold and settlement.          *)
UnderReservedOnlyByOverrun ==
    \A r \in Requests : request[r].status = "under_reserved" =>
        \/ request[r].input_tokens > input_token_reservation_upper_bound(Payloads[r])
        \/ request[r].output_tokens > Payloads[r].max_output

(* The status check suffices when finalizing transactions of one request   *)
(* do not overlap: the hold is then taken back exactly once, and the       *)
(* status says whether it was.                                             *)
SerialFinalization ==
    \A r \in Requests \ overlapped :
        /\ ~(<<r, "settle">> \in posted /\ <<r, "release">> \in posted)
        /\ request[r].status \in FinalStatuses <=> Finalized(r)

(* ... so that the wallet and the budgets then hold exactly the open       *)
(* requests, and no hold is left behind or taken twice.                    *)
HoldsAccountedFor ==
    overlapped = {} =>
        /\ wallet.reserved = SumFunctionOnSet(HoldOf, OpenRequests)
        /\ \A b \in BudgetIds : budget[b].reserved =
              SumFunctionOnSet(HoldOf, {r \in OpenRequests : request[r].budget = b})

(* The customer's credit shrinks by exactly what the rows say was charged, *)
(* whatever transactions overlap: also when two sessions settle one        *)
(* request, or a late mark reopens a settled one and it is settled again.  *)
(* The status check does not see to that, nor do the conditional UPDATEs,  *)
(* which another request's hold satisfies; only the unique ledger key of a *)
(* settlement does.                                                        *)
ChargesAddUp ==
    wallet.balance + wallet.reserved + SumFunctionOnSet(ChargeOf, Requests)
      = Credit
=============================================================================
