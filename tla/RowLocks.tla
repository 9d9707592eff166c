------------------------------ MODULE RowLocks ------------------------------
(***************************************************************************)
(* The row locks of one customer's transactions, in the order each takes   *)
(* them: who can end up waiting for whom.  The other modules show a        *)
(* transaction as a step or two; here it is nothing but its locks.         *)
(*                                                                         *)
(* PostgreSQL (external).  A SELECT FOR UPDATE excludes every other lock   *)
(* on the row, a plain UPDATE ("write") every other but a reference, and   *)
(* an INSERT that refers to the row by a foreign key only SELECT FOR       *)
(* UPDATE.  Locks are kept to the end of the transaction; of transactions  *)
(* that wait for each other in a circle one is aborted.                    *)
(*                                                                         *)
(* A plan lists the locks in the order of the statements, those of ORM     *)
(* objects where they are flushed (autoflush is off: in post_transaction   *)
(* or at the commit).  A lock on a row that the transaction already holds  *)
(* as strongly is not listed, nor are rows it has inserted itself.  An     *)
(* operator named after another with a suffix, right before it, is a       *)
(* seeded fault.                                                           *)
(***************************************************************************)
EXTENDS Naturals, Sequences, FiniteSets, Functions

CONSTANTS
    Workers,   \* database connections
    Orders,    \* payment orders of the customer
    Requests   \* model requests of the customer

ASSUME RowLocksAssumption == IsFiniteSet(Requests)

(* The rows: one for each of the customer's tables, orders, refunds (at    *)
(* most one per order) and requests apart.                                 *)
Row(table, id) == <<table, id>>
update(table, id) == <<"update", Row(table, id)>>
write(table, id) == <<"write", Row(table, id)>>
refer(table, id) == <<"refer", Row(table, id)>>
Own == "own"
ASSUME OwnAssumption == Own \notin Orders

-----------------------------------------------------------------------------
(* Plans                                                                   *)

user_first == <<update("user", Own)>>

(* Admission, and what ends a hold: settle_model_request and               *)
(* release_model_request alike.                                            *)
reserve_model_request ==
    user_first \o <<update("key", Own), write("wallet", Own), write("budget", Own)>>
finalize_model_request(r) ==
    <<write("wallet", Own), write("budget", Own), refer("user", Own), write("request", r)>>
mark_pending_reconciliation(r) == <<write("request", r)>>
recover_stale(scan) == [i \in DOMAIN scan |-> write("request", scan[i])]

create_budget_budget_first ==
    <<write("budget", Own), write("wallet", Own), refer("user", Own)>>
create_budget ==
    <<write("wallet", Own), write("budget", Own), refer("user", Own)>>

(* create_order has the user row only, as have create_key and unfreeze.    *)
create_order == user_first
prepare_checkout(o) == user_first \o <<update("order", o)>>

(* It writes provider_transaction_id, which has a unique index: a lock as  *)
(* strong as FOR UPDATE.                                                   *)
checkout_answered(o) == <<update("order", o)>>

apply_webhook_open(o) == <<update("order", o)>>
apply_webhook_paid(o) == <<update("order", o), update("wallet", Own), refer("user", Own)>>
prepare_refund(o) == <<update("order", o), refer("user", Own)>>
prepare_refund_again(o) == <<write("refund", o)>>
refund_unresolved(o) == <<write("order", o), write("refund", o)>>

webhook_refund_wallet_first(o) ==
    <<update("order", o), update("wallet", Own), update("user", Own), update("refund", o)>>

(* "The webhook path may already own the order lock, but still acquires    *)
(* User before Wallet".  Both write provider_refund_id, which has a unique *)
(* index too.                                                              *)
webhook_refund(o) ==
    <<update("order", o), update("user", Own), update("wallet", Own), update("refund", o)>>
apply_refund(o) ==
    <<update("user", Own), update("order", o), update("wallet", Own), update("refund", o)>>
resolve_refund_risk(o) ==
    <<update("refund", o), update("order", o), update("wallet", Own), refer("user", Own)>>

(* Credentials.                                                            *)
credentials ==
    <<write("key", Own), write("session", Own), write("verification", Own),
      write("password_reset", Own)>>
apply_user_freeze == user_first \o credentials
reset_password ==
    user_first \o <<update("password_reset", Own), write("session", Own), write("key", Own)>>
request_password_reset == user_first \o <<write("password_reset", Own)>>
consume_email_verification == user_first \o <<write("verification", Own)>>
issue_email_verification == <<write("verification", Own), refer("user", Own)>>
login == <<refer("user", Own)>>
logout_all == <<write("session", Own)>>
require_api_key == <<write("key", Own)>>
safety_audit == <<refer("user", Own), refer("key", Own)>>

-----------------------------------------------------------------------------
(* Transactions                                                            *)

T(kind, about, plan) == [kind |-> kind, about |-> about, todo |-> plan]
Idle == T("idle", Own, <<>>)

Admission == T("admission", Own, reserve_model_request)
Scans == {scan \in [1..Cardinality(Requests) -> Requests] : Range(scan) = Requests}
Sweeps == {T("sweep", Own, recover_stale(scan)) : scan \in Scans}
Refunds(o) == {T("refund", o, webhook_refund(o)), T("refund", o, apply_refund(o))}
Disposition(o) == T("disposition", o, resolve_refund_risk(o))
AboutOrder(o) ==
    {T("order", o, plan) : plan \in
        {prepare_checkout(o), checkout_answered(o), apply_webhook_open(o),
         apply_webhook_paid(o), prepare_refund(o), prepare_refund_again(o),
         refund_unresolved(o)}}
Others ==
    {T("other", Own, plan) : plan \in
        {create_budget, create_order, apply_user_freeze, reset_password,
         request_password_reset, consume_email_verification,
         issue_email_verification, login, logout_all, require_api_key, safety_audit}
          \cup UNION {{finalize_model_request(r), mark_pending_reconciliation(r)} :
                         r \in Requests}}
Transactions ==
    {Admission} \cup Others \cup Sweeps
      \cup UNION {Refunds(o) \cup {Disposition(o)} \cup AboutOrder(o) : o \in Orders}

VARIABLES
    txn,     \* the transaction of each worker, with the locks it still needs
    held,    \* the locks each worker has
    refunded \* "no", "yes", or "at_risk": with the credit already spent

lockVars == <<txn, held, refunded>>

LocksInit ==
    /\ txn = [w \in Workers |-> Idle]
    /\ held = [w \in Workers |-> {}]
    /\ refunded = [o \in Orders |-> "no"]

conflicts(m, n) == "update" \in {m, n} \/ (m = "write" /\ n = "write")

Waiting(w) == txn[w].todo # <<>>
WaitsFor(w) ==
    {v \in Workers \ {w} : Waiting(w) /\
        \E lock \in held[v] :
            LET next == Head(txn[w].todo)
            IN  lock[2] = next[2] /\ conflicts(next[1], lock[1])}

advisory_lock_ignored == TRUE

(* pg_try_advisory_xact_lock: one sweep at a time, another is skipped.     *)
advisory_lock_free == \A v \in Workers : txn[v].kind # "sweep"

begin(w) ==
    /\ txn[w] = Idle
    /\ \E t \in Transactions :
          /\ t.kind = "sweep" => advisory_lock_free
          /\ txn' = [txn EXCEPT ![w] = t]
    /\ UNCHANGED <<held, refunded>>

(* What a locked row may tell: of a refunded order nothing but the         *)
(* disposition of a risk goes on, and that only with a refund at risk.     *)
ends_here(t, lock) ==
    \/ /\ t.kind # "disposition"
       /\ t.about \in Orders /\ lock[2] = Row("order", t.about)
       /\ refunded[t.about] # "no"
    \/ /\ t.kind = "disposition"
       /\ lock[2] = Row("refund", t.about)
       /\ refunded[t.about] # "at_risk"

(* A refund that finds the credit spent freezes the account.               *)
finds_shortfall(t, lock) == t.kind = "refund" /\ lock = update("wallet", Own)

acquire(w) ==
    LET t == txn[w]
        lock == Head(t.todo)
        rest == [t EXCEPT !.todo = Tail(@)]
    IN  /\ Waiting(w)
        /\ WaitsFor(w) = {}
        /\ held' = [held EXCEPT ![w] = @ \cup {lock}]
        /\ \/ ~ends_here(t, lock) /\ txn' = [txn EXCEPT ![w] = rest]
           \/ ends_here(t, lock) /\ txn' = [txn EXCEPT ![w] = T("ended", t.about, <<>>)]
           \/ /\ finds_shortfall(t, lock)
              /\ txn' = [txn EXCEPT ![w] =
                   [rest EXCEPT !.kind = "shortfall", !.todo = credentials \o @]]
        /\ UNCHANGED refunded

Ends(w) ==
    /\ txn' = [txn EXCEPT ![w] = Idle]
    /\ held' = [held EXCEPT ![w] = {}]

commit(w) ==
    /\ txn[w] # Idle /\ ~Waiting(w)
    /\ Ends(w)
    /\ refunded' = [o \in Orders |->
         CASE txn[w].about = o /\ txn[w].kind \in {"refund", "disposition"} -> "yes"
           [] txn[w].about = o /\ txn[w].kind = "shortfall" -> "at_risk"
           [] OTHER -> refunded[o]]

(* Refused, interrupted, or chosen by the deadlock detector.               *)
abort(w) ==
    /\ Waiting(w)
    /\ Ends(w)
    /\ UNCHANGED refunded

LocksNext == \E w \in Workers : begin(w) \/ acquire(w) \/ commit(w) \/ abort(w)

LocksSpec == LocksInit /\ [][LocksNext]_lockVars

-----------------------------------------------------------------------------
(* Properties                                                              *)

(* A smallest set of transactions none of which can go on before another   *)
(* of them ends: the circle of waits the deadlock detector breaks.         *)
Stuck(ws) == ws # {} /\ \A w \in ws : WaitsFor(w) \cap ws # {}
Circle(ws) == Stuck(ws) /\ \A vs \in SUBSET ws : Stuck(vs) => vs = ws

(* What the comment in apply_refund promises ("preventing the User/Wallet  *)
(* inversion with model reservations"), for either entry, and with         *)
(* whatever transaction stands between: a refund and the admission of a    *)
(* request are never in one circle of waits.                               *)
RefundsAndAdmissionsDoNotCross ==
    \A ws \in SUBSET Workers : Circle(ws) =>
        ~({"admission"} \subseteq {txn[w].kind : w \in ws}
          /\ {txn[w].kind : w \in ws} \cap {"refund", "shortfall"} # {})

(* Where transactions do wait in a circle, it is over the user row: wallet,*)
(* budget, order, refund, request and credential rows are taken in an      *)
(* order that all agree on, or under the user row.                         *)
CirclesPassTheUserRow ==
    \A ws \in SUBSET Workers : Circle(ws) =>
        \E w \in ws : Head(txn[w].todo)[2] = Row("user", Own)

(* The maintenance, which is to find what others have left behind, is in   *)
(* no circle, though it locks requests in no particular order.             *)
SweepIsInNoCircle ==
    \A ws \in SUBSET Workers : Circle(ws) =>
        \A w \in ws : txn[w].kind # "sweep"
=============================================================================
