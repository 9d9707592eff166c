------------------------------- MODULE Gateway -------------------------------
(***************************************************************************)
(* POST /v1/chat/completions (app/__init__.py, chat_completions), the      *)
(* provider adapters (app/providers.py), the operator's reconciliation     *)
(* route and the maintenance process, over the tables of Billing.          *)
(*                                                                         *)
(* Each request has one handler.  The handler holds no transaction while   *)
(* it waits for a provider; its database work is a series of short         *)
(* transactions, so every pc below is a point where another process may    *)
(* run, the client may go away or the gateway may crash.                   *)
(***************************************************************************)
EXTENDS Billing, Sequences

CONSTANTS
    Operators,        \* operators working on the reconciliation queue
    Providers,        \* number of providers eligible for the model
    StreamRequested,  \* requests whose client asked for a stream
    ContentSafety     \* requests served with a content-safety service configured

ASSUME GatewayAssumption ==
    /\ Requests \cap Operators = {}
    /\ Sessions = Requests \cup Operators
    /\ Providers \in Nat \ {0}
    /\ StreamRequested \subseteq Requests
    /\ ContentSafety \subseteq Requests

VARIABLES
    pc,        \* where each handler is
    index,     \* the provider it is at, from 1
    outcome,   \* what the last provider call ended with, until it is recorded
    attempts,  \* provider_attempts rows, in ordinal order
    billed     \* history: the providers that may charge for the request

handlerVars == <<pc, index, outcome, attempts, billed>>
gatewayVars == <<vars, handlerVars>>

direct_upstream_stream(r) == r \in StreamRequested \ ContentSafety

(* How a provider call can end for the handler.                            *)
Refusals == {"connect_failure", "rate_limited", "rejected"}
Ambiguous == {"server_error", "ambiguous_timeout", "invalid_response"}
Interruptions == {"cancelled", "unexpected"}
Successes == {"ok", "opened"}
Outcomes == Refusals \cup Ambiguous \cup Interruptions \cup Successes

(* The adapters' classification of a ProviderError.                        *)
safe_to_failover(o) == o \in {"connect_failure", "rate_limited"}
request_may_be_billable_unless_timeout(o) == o \in Ambiguous \ {"ambiguous_timeout"}
request_may_be_billable(o) == o \in Ambiguous

(* The providers' side: only a refused request is certainly not charged.   *)
MayCharge(o) == o \notin Refusals

Steps == {"idle", "call", "record", "stream", "settle", "settling", "mark",
          "marking", "release", "releasing", "done", "dead"}

GatewayTypeOK ==
    /\ TypeOK
    /\ pc \in [Requests -> Steps]
    /\ index \in [Requests -> 0..Providers]
    /\ outcome \in [Requests -> Outcomes \cup {"none"}]
    /\ attempts \in [Requests -> Seq({"failed", "succeeded", "stream_opened"})]
    /\ billed \in [Requests -> SUBSET (1..Providers)]

GatewayInit ==
    /\ Init
    /\ pc = [r \in Requests |-> "idle"]
    /\ index = [r \in Requests |-> 0]
    /\ outcome = [r \in Requests |-> "none"]
    /\ attempts = [r \in Requests |-> <<>>]
    /\ billed = [r \in Requests |-> {}]

Goto(r, step) == pc' = [pc EXCEPT ![r] = step]

-----------------------------------------------------------------------------
(* Admission                                                               *)

(* Validation and the input safety check come first and may turn the       *)
(* request away before any hold exists; so may reserve_model_request.      *)
Refuse(r) ==
    /\ pc[r] = "idle"
    /\ Goto(r, "done")
    /\ UNCHANGED <<vars, index, outcome, attempts, billed>>

Admit(r) ==
    /\ pc[r] = "idle"
    /\ \E v \in DOMAIN PriceList : reserve_model_request(r, v)
    /\ Goto(r, "call")
    /\ index' = [index EXCEPT ![r] = 1]
    /\ UNCHANGED <<outcome, attempts, billed>>

-----------------------------------------------------------------------------
(* The provider loop                                                       *)

ProviderReturns_retrying(r, o) ==
    /\ pc[r] = "call"
    /\ o = "opened" => direct_upstream_stream(r)
    /\ o = "ok" => ~direct_upstream_stream(r)
    /\ outcome' = [outcome EXCEPT ![r] = IF o \in Interruptions THEN "none" ELSE o]
    /\ billed' = IF MayCharge(o)
                 THEN [billed EXCEPT ![r] = @ \cup {index[r]}] ELSE billed
    /\ IF o = "unexpected" /\ index[r] < Providers
       THEN Goto(r, "call") /\ index' = [index EXCEPT ![r] = @ + 1]
       ELSE Goto(r, IF o \in Interruptions THEN "mark" ELSE "record")
            /\ UNCHANGED index
    /\ UNCHANGED <<vars, attempts>>

(* One provider call, from sending the request to what the adapter returns *)
(* or raises.  A cancelled client or an exception no adapter classifies    *)
(* goes straight to reconciliation, without an attempt row.  A direct      *)
(* stream is opened or fails: every client of app/providers.py has         *)
(* open_stream (only a client injected from outside could lack it).        *)
ProviderReturns(r, o) ==
    /\ pc[r] = "call"
    /\ o = "opened" => direct_upstream_stream(r)
    /\ o = "ok" => ~direct_upstream_stream(r)
    /\ outcome' = [outcome EXCEPT ![r] = IF o \in Interruptions THEN "none" ELSE o]
    /\ billed' = IF MayCharge(o)
                 THEN [billed EXCEPT ![r] = @ \cup {index[r]}] ELSE billed
    /\ Goto(r, IF o \in Interruptions THEN "mark" ELSE "record")
    /\ UNCHANGED <<vars, index, attempts>>

AttemptStatus(o) ==
    CASE o = "ok"     -> "succeeded"
      [] o = "opened" -> "stream_opened"
      [] OTHER        -> "failed"

FailsOver_past_last(r) == safe_to_failover(outcome[r])

(* Whether a failed call is retried with the next provider.                *)
FailsOver(r) == safe_to_failover(outcome[r]) /\ index[r] < Providers

(* record_attempt and the branch taken on the outcome afterwards.          *)
RecordAttempt(r) ==
    /\ pc[r] = "record"
    /\ attempts' = [attempts EXCEPT ![r] = Append(@, AttemptStatus(outcome[r]))]
    /\ Goto(r, CASE outcome[r] = "ok"                      -> "settle"
                 [] outcome[r] = "opened"                  -> "stream"
                 [] request_may_be_billable(outcome[r])    -> "mark"
                 [] FailsOver(r)                           -> "call"
                 [] OTHER                                  -> "release")
    /\ index' = IF ~request_may_be_billable(outcome[r]) /\ FailsOver(r)
                THEN [index EXCEPT ![r] = @ + 1] ELSE index
    /\ outcome' = [outcome EXCEPT ![r] = "none"]
    /\ UNCHANGED <<vars, billed>>

(* The attempt row cannot be written.  After a success the handler's       *)
(* catch-all sends the request to reconciliation; inside the ProviderError *)
(* clause the exception escapes and the hold is left to the sweeper.       *)
RecordAttemptFails(r) ==
    /\ pc[r] = "record"
    /\ Goto(r, IF outcome[r] \in Successes THEN "mark" ELSE "dead")
    /\ outcome' = [outcome EXCEPT ![r] = "none"]
    /\ UNCHANGED <<vars, index, attempts, billed>>

(* The client disconnects while the output safety check is awaited, or its *)
(* audit row cannot be written.                                            *)
OutputCheckFails(r) ==
    /\ r \in ContentSafety
    /\ pc[r] = "settle"
    /\ Goto(r, "mark")
    /\ UNCHANGED <<vars, index, outcome, attempts, billed>>

(* forward_stream: [DONE] was seen.                                        *)
StreamDone(r) ==
    /\ pc[r] = "stream"
    /\ Goto(r, "settle")
    /\ UNCHANGED <<vars, index, outcome, attempts, billed>>

StreamBroken_unmarked(r) ==
    /\ pc[r] = "stream"
    /\ Goto(r, "done")
    /\ UNCHANGED <<vars, index, outcome, attempts, billed>>

(* It ended without [DONE], broke the protocol, or was cancelled while the *)
(* upstream was awaited.                                                   *)
StreamBroken(r) ==
    /\ pc[r] = "stream"
    /\ Goto(r, "mark")
    /\ UNCHANGED <<vars, index, outcome, attempts, billed>>

(* The generator is closed while it is suspended at its yield (or was      *)
(* never started): GeneratorExit is none of the exceptions it catches, so  *)
(* only the upstream connection is closed.                                 *)
StreamAbandoned(r) ==
    /\ pc[r] = "stream"
    /\ Goto(r, "dead")
    /\ UNCHANGED <<vars, index, outcome, attempts, billed>>

-----------------------------------------------------------------------------
(* Ending a request                                                        *)

(* The handler reads the row.  If it is no longer reserved, release and    *)
(* mark return silently; settle raises BillingError, and the mark that     *)
(* follows in the same session sees the same row and returns.              *)
BeginFinalize(r, step, op, opened) ==
    /\ pc[r] = step
    /\ \/ Open(r, r, op, "reserved") /\ Goto(r, opened)
       \/ /\ request[r].status # "reserved"
          /\ Goto(r, "done")
          /\ UNCHANGED vars
    /\ UNCHANGED <<index, outcome, attempts, billed>>

BeginSettle(r) == BeginFinalize(r, "settle", "settle", "settling")
BeginMark_unchecked(r) ==
    /\ pc[r] = "mark"
    /\ request' = [request EXCEPT ![r].status = "pending_reconciliation"]
    /\ Goto(r, "done")
    /\ UNCHANGED <<admissible, wallet, budget, month, version, ledger, posted,
                   open, overlapped, index, outcome, attempts, billed>>
BeginMark(r) == BeginFinalize(r, "mark", "mark", "marking")
BeginRelease(r) == BeginFinalize(r, "release", "release", "releasing")

Settle(r) ==
    /\ pc[r] = "settling"
    /\ \E t \in open, response \in Responses, upstream_cost \in UpstreamCosts :
          t.session = r /\ settle_model_request(t, response, upstream_cost)
    /\ Goto(r, "done")
    /\ UNCHANGED <<index, outcome, attempts, billed>>

(* BillingError (wallet or budget does not cover the hold), a duplicate    *)
(* ledger key or a database error: roll back, then mark the request.       *)
SettleFails(r) ==
    /\ pc[r] = "settling"
    /\ \E t \in open : t.session = r /\ Rollback(t)
    /\ Goto(r, "mark")
    /\ UNCHANGED <<index, outcome, attempts, billed>>

Mark(r) ==
    /\ pc[r] = "marking"
    /\ \E t \in open : t.session = r /\ mark_pending_reconciliation(t)
    /\ Goto(r, "done")
    /\ UNCHANGED <<index, outcome, attempts, billed>>

Release(r) ==
    /\ pc[r] = "releasing"
    /\ \E t \in open : t.session = r /\ release_model_request(t)
    /\ Goto(r, "done")
    /\ UNCHANGED <<index, outcome, attempts, billed>>

(* The same errors in release_model_request are raised inside the          *)
(* ProviderError clause, where nothing catches them.                       *)
ReleaseFails(r) ==
    /\ pc[r] = "releasing"
    /\ \E t \in open : t.session = r /\ Rollback(t)
    /\ Goto(r, "dead")
    /\ UNCHANGED <<index, outcome, attempts, billed>>

(* The gateway dies, or an exception escapes the handler (a database error *)
(* while marking): the database aborts the handler's transaction.  A       *)
(* provider that was being called may have accepted the request.           *)
Crash(r) ==
    /\ pc[r] \notin {"idle", "done", "dead"}
    /\ \/ \E t \in open : t.session = r /\ Rollback(t)
       \/ (\A t \in open : t.session # r) /\ UNCHANGED vars
    /\ billed' = IF pc[r] = "call"
                 THEN [billed EXCEPT ![r] = @ \cup {index[r]}] ELSE billed
    /\ outcome' = [outcome EXCEPT ![r] = "none"]
    /\ Goto(r, "dead")
    /\ UNCHANGED <<index, attempts>>

Handler(r) ==
    \/ Refuse(r) \/ Admit(r)
    \/ \E o \in Outcomes : ProviderReturns(r, o)
    \/ RecordAttempt(r) \/ RecordAttemptFails(r)
    \/ OutputCheckFails(r)
    \/ StreamDone(r) \/ StreamBroken(r) \/ StreamAbandoned(r)
    \/ BeginSettle(r) \/ Settle(r) \/ SettleFails(r)
    \/ BeginMark(r) \/ Mark(r)
    \/ BeginRelease(r) \/ Release(r) \/ ReleaseFails(r)
    \/ Crash(r)

-----------------------------------------------------------------------------
(* POST /ops/reconciliation/{request_id}, the maintenance process, and the *)
(* rest of the system                                                      *)

OperatorOpens(o, r, op) ==
    /\ Open(o, r, op, "pending_reconciliation")
    /\ UNCHANGED handlerVars

OperatorSettles(o) ==
    /\ \E t \in open, response \in Responses, upstream_cost \in UpstreamCosts :
          /\ t.session = o /\ ~response.estimated
          /\ settle_model_request(t, response, upstream_cost)
    /\ UNCHANGED handlerVars

OperatorReleases(o) ==
    /\ \E t \in open : t.session = o /\ release_model_request(t)
    /\ UNCHANGED handlerVars

(* Refused with 409 or 500, or the connection is lost.                     *)
OperatorFails(o) ==
    /\ \E t \in open : t.session = o /\ Rollback(t)
    /\ UNCHANGED handlerVars

reconcile_request(o) ==
    \/ \E r \in Requests, op \in {"settle", "release"} : OperatorOpens(o, r, op)
    \/ OperatorSettles(o) \/ OperatorReleases(o) \/ OperatorFails(o)

run_once_uncommitted(stale) ==
    /\ stale # {}
    /\ \A r \in stale : request[r].status = "reserved"
    /\ UNCHANGED gatewayVars

run_once(stale) ==
    /\ recover_stale_model_reservations(stale)
    /\ UNCHANGED handlerVars

Surroundings ==
    /\ \/ \E limit \in BudgetLimits, start \in Months : create_budget(limit, start)
       \/ ChangeAdmission \/ NextMonth \/ seed_prices
    /\ UNCHANGED handlerVars

GatewayNext ==
    \/ \E r \in Requests : Handler(r)
    \/ \E o \in Operators : reconcile_request(o)
    \/ \E stale \in SUBSET Requests : run_once(stale)
    \/ Surroundings

GatewaySpec == GatewayInit /\ [][GatewayNext]_gatewayVars

(* The maintenance process runs for ever and time passes, so a hold that   *)
(* stays reserved is older than the lease in some round.  Nothing is       *)
(* assumed of handlers, providers, clients or operators.                   *)
MaintenanceRuns ==
    \A r \in Requests :
        WF_gatewayVars(\E stale \in SUBSET Requests : r \in stale /\ run_once(stale))

FairGatewaySpec == GatewaySpec /\ MaintenanceRuns

-----------------------------------------------------------------------------
(* Properties                                                              *)

(* Failover never runs a request twice: at most one provider may charge    *)
(* for it, whatever providers, clients and crashes do.                     *)
AtMostOneProviderCharges ==
    \A r \in Requests : \A i, j \in billed[r] : i = j

(* A client that repeats a request with the same Idempotency-Key, at any   *)
(* time and while the first is in whatever state, is not charged for by a  *)
(* second provider.                                                        *)
RetryChargesOnce ==
    \A q, r \in Requests :
        /\ IdempotencyKey[q] = IdempotencyKey[r] /\ IdempotencyKey[r] # NoKey
        /\ billed[q] # {} /\ billed[r] # {}
        => q = r

(* The gateway gives a hold back by itself only when no provider can have  *)
(* charged for the request and every provider tried is on record as        *)
(* failed; everything uncertain goes to an operator.                       *)
AutomaticReleaseIsSafe ==
    \A r \in Requests : request[r].status = "failed" =>
        /\ billed[r] = {}
        /\ Len(attempts[r]) = index[r]
        /\ \A i \in 1..Len(attempts[r]) : attempts[r][i] = "failed"

(* No path through the handler that ends by returning leaves a hold that   *)
(* only the sweeper would find.                                            *)
NoSilentHold ==
    \A r \in Requests : pc[r] = "done" => request[r].status # "reserved"

(* The handlers, operators and maintenance only ever do what Billing lets  *)
(* any session do, so all that holds of Billing holds here.                *)
ImplementsBilling == Spec

(* A hold is settled or released, never both.  (The code reads the row     *)
(* without a lock and posts the two under different ledger keys.)          *)
HoldTakenBackOnce ==
    \A r \in Requests :
        ~(<<r, "settle">> \in posted /\ <<r, "release">> \in posted)

(* A request that was settled or released is not reopened.  (mark reads    *)
(* the row without a lock and writes its status by primary key: an         *)
(* operator may have finalized it in between.)                             *)
FinalStaysFinal ==
    [][\A r \in Requests :
          request[r].status \in FinalStatuses
            => request'[r].status \in FinalStatuses]_vars

(* Every hold leaves the state in which only its handler knows of it, even *)
(* if that handler has crashed, was abandoned, or waits for ever.          *)
EveryHoldSurfaces ==
    \A r \in Requests :
        request[r].status = "reserved" ~> request[r].status # "reserved"
=============================================================================
