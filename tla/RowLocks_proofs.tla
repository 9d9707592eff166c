---------------------------- MODULE RowLocks_proofs ----------------------------
(***************************************************************************)
(* Proofs about RowLocks: for every number of connections, orders and      *)
(* requests, which transactions can wait for each other in a circle.       *)
(***************************************************************************)
EXTENDS RowLocks, SequenceTheorems, FiniteSetTheorems, TLAPS

-----------------------------------------------------------------------------
(* How far a transaction is in its plan                                    *)

UserRow == update("user", Own)
Credential == {"key", "session", "verification", "password_reset"}
Tables == Credential \cup {"user", "wallet", "budget", "request", "order", "refund"}
Locks ==
    {"update", "write", "refer"} \X (Tables \X ({Own} \cup Orders \cup Requests))
Table(lock) == lock[2][1]
Kinds ==
    {"idle", "admission", "sweep", "refund", "shortfall", "disposition", "order", "other",
     "ended"}

Record == [kind : Kinds, about : {Own} \cup Orders, todo : Seq(Locks)]

(* A refund that finds the credit spent has frozen the credentials before  *)
(* it goes on.                                                             *)
webhook_shortfall(o) ==
    <<update("order", o), update("user", Own), update("wallet", Own),
      write("key", Own), write("session", Own), write("verification", Own),
      write("password_reset", Own), update("refund", o)>>
apply_shortfall(o) ==
    <<update("user", Own), update("order", o), update("wallet", Own),
      write("key", Own), write("session", Own), write("verification", Own),
      write("password_reset", Own), update("refund", o)>>
Shortfalls(o) ==
    {T("shortfall", o, webhook_shortfall(o)), T("shortfall", o, apply_shortfall(o))}

Planned == {Idle} \cup Transactions \cup UNION {Shortfalls(o) : o \in Orders}

(* A transaction that is now at step k of the plan of t, with k of its     *)
(* locks, and one that has ended before its plan did.                      *)
IsAt(now, locks, t, k) ==
    /\ now = T(t.kind, t.about, now.todo)
    /\ now.todo \in Seq(Locks)
    /\ Len(now.todo) = Len(t.todo) - k
    /\ \A i \in 1..Len(now.todo) : now.todo[i] = t.todo[k + i]
    /\ locks = {t.todo[i] : i \in 1..k}

HasEnded(now) == \E about \in Orders : now = T("ended", about, <<>>)

Progress(now, locks) ==
    \/ HasEnded(now)
    \/ \E t \in Planned : \E k \in 0..Len(t.todo) : IsAt(now, locks, t, k)

ProgressInv ==
    /\ txn \in [Workers -> Record]
    /\ held \in [Workers -> SUBSET Locks]
    /\ refunded \in [Orders -> {"no", "yes", "at_risk"}]
    /\ \A w \in Workers : Progress(txn[w], held[w])

(* Locks exclude each other as they should; there is one sweep.            *)
ExclusionInv ==
    /\ \A v, w \in Workers : v # w =>
          \A l \in held[v], m \in held[w] : l[2] = m[2] => ~conflicts(l[1], m[1])
    /\ \A v, w \in Workers : txn[v].kind = "sweep" /\ txn[w].kind = "sweep" => v = w

(* What the transactions that go on have read stays true under their lock. *)
Locked(locks, row) == \E l \in locks : l[2] = row

ReadsHold(now, locks, status) ==
    /\ now.kind \in {"order", "refund", "shortfall"}
         /\ Locked(locks, Row("order", now.about)) => status[now.about] = "no"
    /\ now.kind = "disposition"
         /\ Locked(locks, Row("refund", now.about)) => status[now.about] = "at_risk"

ReadInv == \A w \in Workers : ReadsHold(txn[w], held[w], refunded)

LocksInv == ProgressInv /\ ExclusionInv /\ ReadInv

-----------------------------------------------------------------------------
(* What every plan has in common                                           *)

(* The user row is locked for update before step i of the plan.            *)
UnderUser(q, i) ==
    \/ q[1] = UserRow /\ i > 1
    \/ q[2] = UserRow /\ i > 2

Orderly(t, i, j) ==
    LET earlier == Table(t.todo[i])
        later == Table(t.todo[j])
    IN  /\ earlier = "budget" => later \in {"user", "request"}
        /\ earlier = "wallet" =>
              later \in Credential \cup {"budget", "user", "refund", "request"}
        /\ earlier = "order" => later \in Credential \cup {"user", "wallet", "refund"}
        /\ earlier = "refund" =>
              t.kind = "disposition" /\ later \in {"order", "wallet", "user"}
        /\ earlier = "request" => t.kind = "sweep" /\ later = "request"
        /\ earlier \in Credential => later = "user" \/ UnderUser(t.todo, i)
        /\ later \in Credential => earlier = "user" \/ UnderUser(t.todo, j)
        /\ later = "refund" =>
              /\ t.kind \in {"order", "refund", "shortfall"}
              /\ \/ t.todo[1][2] = Row("order", t.about)
                 \/ t.todo[2][2] = Row("order", t.about) /\ j > 2
        /\ later = "order" =>
              \/ UnderUser(t.todo, j)
              \/ t.kind = "disposition" /\ j = 2

OfItsKind(t, i) ==
    LET lock == t.todo[i]
    IN  /\ Table(lock) \in {"order", "refund"} =>
              t.about \in Orders /\ lock[2] = Row(Table(lock), t.about)
        /\ Table(lock) = "user" => lock[2] = Row("user", Own)
        /\ t.kind = "sweep" => Table(lock) = "request"
        /\ t.kind = "admission" =>
              /\ t.todo[1] = UserRow
              /\ Table(lock) \in {"user", "key", "wallet", "budget"}
        /\ t.kind \in {"refund", "shortfall"} =>
              lock = UserRow \/ UnderUser(t.todo, i) \/ lock = update("order", t.about)
        /\ t.kind = "disposition" /\ Table(lock) = "refund" =>
              i = 1 /\ lock = update("refund", t.about)

WellMade(t) ==
    /\ t = T(t.kind, t.about, t.todo)
    /\ t.kind \in Kinds \ {"ended"}
    /\ t.about \in {Own} \cup Orders
    /\ t.todo \in Seq(Locks)
    /\ t.kind = "idle" => t = Idle
    /\ t.kind \in {"refund", "shortfall", "disposition", "order"} => t.about \in Orders
    /\ t.kind \in {"refund", "shortfall", "disposition"} =>
          \E i, j \in DOMAIN t.todo :
             t.todo[i] = update("order", t.about) /\ t.todo[j][2] = Row("refund", t.about)
    /\ t.kind = "disposition" => Len(t.todo) > 1 /\ t.todo[1] = update("refund", t.about)
    /\ \A i \in DOMAIN t.todo : OfItsKind(t, i)
    /\ \A i, j \in DOMAIN t.todo : i < j => Orderly(t, i, j)

-----------------------------------------------------------------------------
(* The plans                                                               *)

(* The locks are what the plans list, each on a row of its table.          *)
LEMMA LockFacts ==
    /\ \A table \in Tables, id \in {Own} \cup Orders \cup Requests :
          /\ update(table, id) \in Locks /\ write(table, id) \in Locks
          /\ refer(table, id) \in Locks
    /\ \A table, id :
          /\ Table(update(table, id)) = table /\ update(table, id)[2] = Row(table, id)
          /\ Table(write(table, id)) = table /\ write(table, id)[2] = Row(table, id)
          /\ Table(refer(table, id)) = table /\ refer(table, id)[2] = Row(table, id)
    /\ UserRow \in Locks /\ Table(UserRow) = "user"
<1>1. ASSUME NEW table \in Tables, NEW id \in {Own} \cup Orders \cup Requests
      PROVE  /\ update(table, id) \in Locks /\ write(table, id) \in Locks
             /\ refer(table, id) \in Locks
  BY DEF Locks, update, write, refer, Row
<1>2. "user" \in Tables /\ Own \in {Own} \cup Orders \cup Requests
  BY DEF Tables
<1>3. UserRow \in Locks
  BY <1>1, <1>2 DEF UserRow
<1>4. QED
  BY <1>1, <1>3 DEF update, write, refer, Row, Table, UserRow

(* A concatenation, element by element.                                    *)
LEMMA Joined ==
    ASSUME NEW s1 \in Seq(Locks), NEW s2 \in Seq(Locks), NEW s \in Seq(Locks),
           Len(s) = Len(s1) + Len(s2),
           \A i \in 1..Len(s1) : s[i] = s1[i],
           \A i \in 1..Len(s2) : s[Len(s1) + i] = s2[i]
    PROVE  s1 \o s2 = s
<1>1. /\ s1 \o s2 \in Seq(Locks) /\ Len(s1 \o s2) = Len(s1) + Len(s2)
      /\ \A i \in 1..(Len(s1) + Len(s2)) :
            (s1 \o s2)[i] = IF i <= Len(s1) THEN s1[i] ELSE s2[i - Len(s1)]
  BY ConcatProperties
<1>2. ASSUME NEW i \in 1..Len(s)
      PROVE  (s1 \o s2)[i] = s[i]
  <2>1. CASE i <= Len(s1)
    BY <1>1, <2>1
  <2>2. CASE ~(i <= Len(s1))
    <3>1. i - Len(s1) \in 1..Len(s2) /\ Len(s1) + (i - Len(s1)) = i
      BY <2>2
    <3>2. s[i] = s2[i - Len(s1)]
      BY <3>1
    <3>3. QED
      BY <1>1, <2>2, <3>2
  <2>3. QED
    BY <2>1, <2>2
<1>3. QED
  BY <1>1, <1>2, SeqEqual

(* Locks after the user row.                                               *)
LEMMA AfterUser1 ==
    ASSUME NEW a \in Locks
    PROVE  user_first \o <<a>> = <<UserRow, a>>
<1> DEFINE s1 == <<UserRow>>
           s2 == <<a>>
           s == <<UserRow, a>>
<1>1. UserRow \in Locks /\ user_first = s1
  BY LockFacts DEF user_first, UserRow
<1>2. /\ s1 \in Seq(Locks) /\ s2 \in Seq(Locks) /\ s \in Seq(Locks)
      /\ Len(s1) = 1 /\ Len(s2) = 1 /\ Len(s) = 2
  BY <1>1
<1>3. s[1] = s1[1] /\ s[2] = s2[1]
  OBVIOUS
<1> HIDE DEF s1, s2, s
<1>4. \A i \in 1..1 : s[1 + i] = s2[i]
  BY <1>3
<1>5. /\ Len(s) = Len(s1) + Len(s2)
      /\ \A i \in 1..Len(s1) : s[i] = s1[i]
      /\ \A i \in 1..Len(s2) : s[Len(s1) + i] = s2[i]
  BY <1>2, <1>3, <1>4
<1>6. s1 \o s2 = s
  BY <1>2, <1>5, Joined
<1>7. QED
  BY <1>1, <1>6 DEF s2, s

(* Three locks after the user row, as in an admission.                     *)
LEMMA AfterUser3 ==
    ASSUME NEW a \in Locks, NEW b \in Locks, NEW c \in Locks
    PROVE  user_first \o <<a, b, c>> = <<UserRow, a, b, c>>
<1> DEFINE s1 == <<UserRow>>
           s2 == <<a, b, c>>
           s == <<UserRow, a, b, c>>
<1>1. UserRow \in Locks /\ user_first = s1
  BY LockFacts DEF user_first, UserRow
<1>2. /\ s1 \in Seq(Locks) /\ s2 \in Seq(Locks) /\ s \in Seq(Locks)
      /\ Len(s1) = 1 /\ Len(s2) = 3 /\ Len(s) = 4
  BY <1>1
<1>3. s[1] = s1[1] /\ s[2] = s2[1] /\ s[3] = s2[2] /\ s[4] = s2[3]
  OBVIOUS
<1> HIDE DEF s1, s2, s
<1>4. \A i \in 1..3 : s[1 + i] = s2[i]
  BY <1>3
<1>5. /\ Len(s) = Len(s1) + Len(s2)
      /\ \A i \in 1..Len(s1) : s[i] = s1[i]
      /\ \A i \in 1..Len(s2) : s[Len(s1) + i] = s2[i]
  BY <1>2, <1>3, <1>4
<1>6. s1 \o s2 = s
  BY <1>2, <1>5, Joined
<1>7. QED
  BY <1>1, <1>6 DEF s2, s

(* Four locks after the user row, as when an account is frozen.            *)
LEMMA AfterUser4 ==
    ASSUME NEW a \in Locks, NEW b \in Locks, NEW c \in Locks, NEW d \in Locks
    PROVE  user_first \o <<a, b, c, d>> = <<UserRow, a, b, c, d>>
<1> DEFINE s1 == <<UserRow>>
           s2 == <<a, b, c, d>>
           s == <<UserRow, a, b, c, d>>
<1>1. UserRow \in Locks /\ user_first = s1
  BY LockFacts DEF user_first, UserRow
<1>2. /\ s1 \in Seq(Locks) /\ s2 \in Seq(Locks) /\ s \in Seq(Locks)
      /\ Len(s1) = 1 /\ Len(s2) = 4 /\ Len(s) = 5
  BY <1>1
<1>3. s[1] = s1[1] /\ s[2] = s2[1] /\ s[3] = s2[2] /\ s[4] = s2[3] /\ s[5] = s2[4]
  OBVIOUS
<1> HIDE DEF s1, s2, s
<1>4. \A i \in 1..4 : s[1 + i] = s2[i]
  BY <1>3
<1>5. /\ Len(s) = Len(s1) + Len(s2)
      /\ \A i \in 1..Len(s1) : s[i] = s1[i]
      /\ \A i \in 1..Len(s2) : s[Len(s1) + i] = s2[i]
  BY <1>2, <1>3, <1>4
<1>6. s1 \o s2 = s
  BY <1>2, <1>5, Joined
<1>7. QED
  BY <1>1, <1>6 DEF s2, s

(* What is to be shown of a plan.                                          *)
LEMMA Made ==
    ASSUME NEW t, t = T(t.kind, t.about, t.todo),
           t.kind \in {"admission", "order", "other"},
           t.about \in {Own} \cup Orders, t.kind = "order" => t.about \in Orders,
           NEW n \in Nat, t.todo \in Seq(Locks), DOMAIN t.todo = 1..n,
           \A i \in 1..n : OfItsKind(t, i),
           \A i, j \in 1..n : i < j => Orderly(t, i, j)
    PROVE  WellMade(t)
  BY DEF WellMade, Kinds

(* The same of a plan that decides over a refund: it locks the rows of the *)
(* order and of the refund.                                                *)
LEMMA RefundMade ==
    ASSUME NEW t, t = T(t.kind, t.about, t.todo),
           t.kind \in {"refund", "shortfall", "disposition"}, t.about \in Orders,
           NEW n \in Nat \ {0, 1}, t.todo \in Seq(Locks), DOMAIN t.todo = 1..n,
           NEW k \in 1..n, t.todo[k] = update("order", t.about),
           NEW m \in 1..n, t.todo[m][2] = Row("refund", t.about),
           t.kind = "disposition" => t.todo[1] = update("refund", t.about),
           \A i \in 1..n : OfItsKind(t, i),
           \A i, j \in 1..n : i < j => Orderly(t, i, j)
    PROVE  WellMade(t)
  BY DEF WellMade, Kinds

(* The same of a plan with a single lock.                                  *)
LEMMA SingleMade ==
    ASSUME NEW kind \in {"order", "other"},
           NEW about \in {Own} \cup Orders, kind = "order" => about \in Orders,
           NEW lock \in Locks,
           Table(lock) \in {"order", "refund"} =>
              about \in Orders /\ lock[2] = Row(Table(lock), about),
           Table(lock) = "user" => lock[2] = Row("user", Own)
    PROVE  WellMade(T(kind, about, <<lock>>))
<1> DEFINE q == <<lock>>
           t == T(kind, about, q)
<1>1. q \in Seq(Locks) /\ DOMAIN q = 1..1 /\ q[1] = lock
  OBVIOUS
<1> HIDE DEF q
<1>2. t.kind = kind /\ t.about = about /\ t.todo = q
  BY DEF T
<1>3. t = T(t.kind, t.about, t.todo)
  BY <1>2
<1> HIDE DEF t
<1>4. \A i, j \in 1..1 : i = 1 /\ ~(i < j)
  OBVIOUS
<1>5. OfItsKind(t, 1)
  BY <1>1, <1>2 DEF OfItsKind
<1>6. WellMade(t)
  BY <1>1, <1>2, <1>3, <1>4, <1>5, Made
<1>7. QED
  BY <1>6 DEF t, q

(* The plan of reserve_model_request.                                      *)
LEMMA AdmissionMade ==
    WellMade(T("admission", Own, reserve_model_request))
<1> DEFINE q == reserve_model_request
           t == T("admission", Own, q)
<1>1. q = <<UserRow, update("key", Own),
            write("wallet", Own), write("budget", Own)>>
  <2>1. /\ update("key", Own) \in Locks /\ write("wallet", Own) \in Locks
        /\ write("budget", Own) \in Locks
    BY LockFacts DEF Tables, Credential
  <2>2. QED
    BY <2>1, AfterUser3 DEF reserve_model_request
<1>2. q \in Seq(Locks) /\ DOMAIN q = 1..4 /\ Len(q) = 4
  BY <1>1, LockFacts DEF Tables, Credential
<1>3. /\ Table(q[1]) = "user" /\ Table(q[2]) = "key" /\ Table(q[3]) = "wallet"
      /\ Table(q[4]) = "budget" /\ q[1][2] = Row("user", Own) /\ q[1] = UserRow
  BY <1>1, LockFacts DEF UserRow
<1> HIDE DEF q
<1>4. t.kind = "admission" /\ t.about = Own /\ t.todo = q
  BY DEF T
<1> HIDE DEF t
<1>5. \A i \in 1..4 : OfItsKind(t, i)
  BY <1>3, <1>4 DEF OfItsKind, UnderUser
<1>6. \A i, j \in 1..4 : i < j => Orderly(t, i, j)
  BY <1>3, <1>4 DEF Orderly, UnderUser, Credential
<1>7. t = T(t.kind, t.about, t.todo)
  BY <1>4 DEF t
<1>8. WellMade(t)
  BY <1>2, <1>4, <1>5, <1>6, <1>7, Made
<1>9. QED
  BY <1>8 DEF t, q

(* The plan of settle_model_request and release_model_request.             *)
LEMMA FinalizeMade ==
    ASSUME NEW r \in Requests
    PROVE  WellMade(T("other", Own, finalize_model_request(r)))
<1> DEFINE q == finalize_model_request(r)
           t == T("other", Own, q)
<1>1. q = <<write("wallet", Own), write("budget", Own),
            refer("user", Own), write("request", r)>>
  BY DEF finalize_model_request
<1>2. q \in Seq(Locks) /\ DOMAIN q = 1..4 /\ Len(q) = 4
  BY <1>1, LockFacts DEF Tables, Credential
<1>3. /\ Table(q[1]) = "wallet" /\ Table(q[2]) = "budget"
      /\ Table(q[3]) = "user" /\ Table(q[4]) = "request"
      /\ q[3][2] = Row("user", Own)
  BY <1>1, LockFacts
<1> HIDE DEF q
<1>4. t.kind = "other" /\ t.about = Own /\ t.todo = q
  BY DEF T
<1> HIDE DEF t
<1>5. \A i \in 1..4 : OfItsKind(t, i)
  BY <1>3, <1>4 DEF OfItsKind, UnderUser
<1>6. \A i, j \in 1..4 : i < j => Orderly(t, i, j)
  BY <1>3, <1>4 DEF Orderly, UnderUser, Credential
<1>7. t = T(t.kind, t.about, t.todo)
  BY <1>4 DEF t
<1>8. WellMade(t)
  BY <1>2, <1>4, <1>5, <1>6, <1>7, Made
<1>9. QED
  BY <1>8 DEF t, q

(* The plan of create_budget.                                              *)
LEMMA BudgetMade ==
    WellMade(T("other", Own, create_budget))
<1> DEFINE q == create_budget
           t == T("other", Own, q)
<1>1. q = <<write("wallet", Own), write("budget", Own), refer("user", Own)>>
  BY DEF create_budget
<1>2. q \in Seq(Locks) /\ DOMAIN q = 1..3 /\ Len(q) = 3
  BY <1>1, LockFacts DEF Tables, Credential
<1>3. /\ Table(q[1]) = "wallet" /\ Table(q[2]) = "budget"
      /\ Table(q[3]) = "user" /\ q[3][2] = Row("user", Own)
  BY <1>1, LockFacts
<1> HIDE DEF q
<1>4. t.kind = "other" /\ t.about = Own /\ t.todo = q
  BY DEF T
<1> HIDE DEF t
<1>5. \A i \in 1..3 : OfItsKind(t, i)
  BY <1>3, <1>4 DEF OfItsKind, UnderUser
<1>6. \A i, j \in 1..3 : i < j => Orderly(t, i, j)
  BY <1>3, <1>4 DEF Orderly, UnderUser, Credential
<1>7. t = T(t.kind, t.about, t.todo)
  BY <1>4 DEF t
<1>8. WellMade(t)
  BY <1>2, <1>4, <1>5, <1>6, <1>7, Made
<1>9. QED
  BY <1>8 DEF t, q

(* The plan of apply_user_freeze.                                          *)
LEMMA FreezeMade ==
    WellMade(T("other", Own, apply_user_freeze))
<1> DEFINE q == apply_user_freeze
           t == T("other", Own, q)
<1>1. q = <<UserRow, write("key", Own), write("session", Own),
            write("verification", Own), write("password_reset", Own)>>
  <2>1. /\ write("key", Own) \in Locks /\ write("session", Own) \in Locks
        /\ write("verification", Own) \in Locks
        /\ write("password_reset", Own) \in Locks
    BY LockFacts DEF Tables, Credential
  <2>2. QED
    BY <2>1, AfterUser4 DEF apply_user_freeze, credentials
<1>2. q \in Seq(Locks) /\ DOMAIN q = 1..5 /\ Len(q) = 5
  BY <1>1, LockFacts DEF Tables, Credential
<1>3. /\ Table(q[1]) = "user" /\ Table(q[2]) = "key" /\ Table(q[3]) = "session"
      /\ Table(q[4]) = "verification" /\ Table(q[5]) = "password_reset"
      /\ q[1][2] = Row("user", Own) /\ q[1] = UserRow
  BY <1>1, LockFacts DEF UserRow
<1> HIDE DEF q
<1>4. t.kind = "other" /\ t.about = Own /\ t.todo = q
  BY DEF T
<1> HIDE DEF t
<1>5. \A i \in 1..5 : OfItsKind(t, i)
  BY <1>3, <1>4 DEF OfItsKind, UnderUser
<1>6. \A i, j \in 1..5 : i < j => Orderly(t, i, j)
  BY <1>3, <1>4 DEF Orderly, UnderUser, Credential
<1>7. t = T(t.kind, t.about, t.todo)
  BY <1>4 DEF t
<1>8. WellMade(t)
  BY <1>2, <1>4, <1>5, <1>6, <1>7, Made
<1>9. QED
  BY <1>8 DEF t, q

(* The plan of reset_password.                                             *)
LEMMA ResetMade ==
    WellMade(T("other", Own, reset_password))
<1> DEFINE q == reset_password
           t == T("other", Own, q)
<1>1. q = <<UserRow, update("password_reset", Own),
            write("session", Own), write("key", Own)>>
  <2>1. /\ update("password_reset", Own) \in Locks
        /\ write("session", Own) \in Locks /\ write("key", Own) \in Locks
    BY LockFacts DEF Tables, Credential
  <2>2. QED
    BY <2>1, AfterUser3 DEF reset_password
<1>2. q \in Seq(Locks) /\ DOMAIN q = 1..4 /\ Len(q) = 4
  BY <1>1, LockFacts DEF Tables, Credential
<1>3. /\ Table(q[1]) = "user" /\ Table(q[2]) = "password_reset"
      /\ Table(q[3]) = "session" /\ Table(q[4]) = "key"
      /\ q[1][2] = Row("user", Own) /\ q[1] = UserRow
  BY <1>1, LockFacts DEF UserRow
<1> HIDE DEF q
<1>4. t.kind = "other" /\ t.about = Own /\ t.todo = q
  BY DEF T
<1> HIDE DEF t
<1>5. \A i \in 1..4 : OfItsKind(t, i)
  BY <1>3, <1>4 DEF OfItsKind, UnderUser
<1>6. \A i, j \in 1..4 : i < j => Orderly(t, i, j)
  BY <1>3, <1>4 DEF Orderly, UnderUser, Credential
<1>7. t = T(t.kind, t.about, t.todo)
  BY <1>4 DEF t
<1>8. WellMade(t)
  BY <1>2, <1>4, <1>5, <1>6, <1>7, Made
<1>9. QED
  BY <1>8 DEF t, q

(* The plan of request_password_reset.                                     *)
LEMMA ResetLinkMade ==
    WellMade(T("other", Own, request_password_reset))
<1> DEFINE q == request_password_reset
           t == T("other", Own, q)
<1>1. q = <<UserRow, write("password_reset", Own)>>
  <2>1. write("password_reset", Own) \in Locks
    BY LockFacts DEF Tables, Credential
  <2>2. QED
    BY <2>1, AfterUser1 DEF request_password_reset
<1>2. q \in Seq(Locks) /\ DOMAIN q = 1..2 /\ Len(q) = 2
  BY <1>1, LockFacts DEF Tables, Credential
<1>3. /\ Table(q[1]) = "user" /\ Table(q[2]) = "password_reset"
      /\ q[1][2] = Row("user", Own) /\ q[1] = UserRow
  BY <1>1, LockFacts DEF UserRow
<1> HIDE DEF q
<1>4. t.kind = "other" /\ t.about = Own /\ t.todo = q
  BY DEF T
<1> HIDE DEF t
<1>5. \A i \in 1..2 : OfItsKind(t, i)
  BY <1>3, <1>4 DEF OfItsKind, UnderUser
<1>6. \A i, j \in 1..2 : i < j => Orderly(t, i, j)
  BY <1>3, <1>4 DEF Orderly, UnderUser, Credential
<1>7. t = T(t.kind, t.about, t.todo)
  BY <1>4 DEF t
<1>8. WellMade(t)
  BY <1>2, <1>4, <1>5, <1>6, <1>7, Made
<1>9. QED
  BY <1>8 DEF t, q

(* The plan of consume_email_verification.                                 *)
LEMMA VerifyMade ==
    WellMade(T("other", Own, consume_email_verification))
<1> DEFINE q == consume_email_verification
           t == T("other", Own, q)
<1>1. q = <<UserRow, write("verification", Own)>>
  <2>1. write("verification", Own) \in Locks
    BY LockFacts DEF Tables, Credential
  <2>2. QED
    BY <2>1, AfterUser1 DEF consume_email_verification
<1>2. q \in Seq(Locks) /\ DOMAIN q = 1..2 /\ Len(q) = 2
  BY <1>1, LockFacts DEF Tables, Credential
<1>3. /\ Table(q[1]) = "user" /\ Table(q[2]) = "verification"
      /\ q[1][2] = Row("user", Own) /\ q[1] = UserRow
  BY <1>1, LockFacts DEF UserRow
<1> HIDE DEF q
<1>4. t.kind = "other" /\ t.about = Own /\ t.todo = q
  BY DEF T
<1> HIDE DEF t
<1>5. \A i \in 1..2 : OfItsKind(t, i)
  BY <1>3, <1>4 DEF OfItsKind, UnderUser
<1>6. \A i, j \in 1..2 : i < j => Orderly(t, i, j)
  BY <1>3, <1>4 DEF Orderly, UnderUser, Credential
<1>7. t = T(t.kind, t.about, t.todo)
  BY <1>4 DEF t
<1>8. WellMade(t)
  BY <1>2, <1>4, <1>5, <1>6, <1>7, Made
<1>9. QED
  BY <1>8 DEF t, q

(* The plan of issue_email_verification.                                   *)
LEMMA IssueMade ==
    WellMade(T("other", Own, issue_email_verification))
<1> DEFINE q == issue_email_verification
           t == T("other", Own, q)
<1>1. q = <<write("verification", Own), refer("user", Own)>>
  BY DEF issue_email_verification
<1>2. q \in Seq(Locks) /\ DOMAIN q = 1..2 /\ Len(q) = 2
  BY <1>1, LockFacts DEF Tables, Credential
<1>3. /\ Table(q[1]) = "verification" /\ Table(q[2]) = "user"
      /\ q[2][2] = Row("user", Own)
  BY <1>1, LockFacts
<1> HIDE DEF q
<1>4. t.kind = "other" /\ t.about = Own /\ t.todo = q
  BY DEF T
<1> HIDE DEF t
<1>5. \A i \in 1..2 : OfItsKind(t, i)
  BY <1>3, <1>4 DEF OfItsKind, UnderUser
<1>6. \A i, j \in 1..2 : i < j => Orderly(t, i, j)
  BY <1>3, <1>4 DEF Orderly, UnderUser, Credential
<1>7. t = T(t.kind, t.about, t.todo)
  BY <1>4 DEF t
<1>8. WellMade(t)
  BY <1>2, <1>4, <1>5, <1>6, <1>7, Made
<1>9. QED
  BY <1>8 DEF t, q

(* The plan of the safety audit.                                           *)
LEMMA AuditMade ==
    WellMade(T("other", Own, safety_audit))
<1> DEFINE q == safety_audit
           t == T("other", Own, q)
<1>1. q = <<refer("user", Own), refer("key", Own)>>
  BY DEF safety_audit
<1>2. q \in Seq(Locks) /\ DOMAIN q = 1..2 /\ Len(q) = 2
  BY <1>1, LockFacts DEF Tables, Credential
<1>3. /\ Table(q[1]) = "user" /\ Table(q[2]) = "key"
      /\ q[1][2] = Row("user", Own)
  BY <1>1, LockFacts
<1> HIDE DEF q
<1>4. t.kind = "other" /\ t.about = Own /\ t.todo = q
  BY DEF T
<1> HIDE DEF t
<1>5. \A i \in 1..2 : OfItsKind(t, i)
  BY <1>3, <1>4 DEF OfItsKind, UnderUser
<1>6. \A i, j \in 1..2 : i < j => Orderly(t, i, j)
  BY <1>3, <1>4 DEF Orderly, UnderUser, Credential
<1>7. t = T(t.kind, t.about, t.todo)
  BY <1>4 DEF t
<1>8. WellMade(t)
  BY <1>2, <1>4, <1>5, <1>6, <1>7, Made
<1>9. QED
  BY <1>8 DEF t, q

(* The plan of prepare_checkout.                                           *)
LEMMA CheckoutMade ==
    ASSUME NEW o \in Orders
    PROVE  WellMade(T("order", o, prepare_checkout(o)))
<1> DEFINE q == prepare_checkout(o)
           t == T("order", o, q)
<1>1. q = <<UserRow, update("order", o)>>
  <2>1. update("order", o) \in Locks
    BY LockFacts DEF Tables, Credential
  <2>2. QED
    BY <2>1, AfterUser1 DEF prepare_checkout
<1>2. q \in Seq(Locks) /\ DOMAIN q = 1..2 /\ Len(q) = 2
  BY <1>1, LockFacts DEF Tables, Credential
<1>3. /\ Table(q[1]) = "user" /\ Table(q[2]) = "order"
      /\ q[1][2] = Row("user", Own) /\ q[2][2] = Row("order", o)
      /\ q[1] = UserRow
  BY <1>1, LockFacts DEF UserRow
<1> HIDE DEF q
<1>4. t.kind = "order" /\ t.about = o /\ t.todo = q
  BY DEF T
<1> HIDE DEF t
<1>5. \A i \in 1..2 : OfItsKind(t, i)
  BY <1>3, <1>4 DEF OfItsKind, UnderUser
<1>6. \A i, j \in 1..2 : i < j => Orderly(t, i, j)
  BY <1>3, <1>4 DEF Orderly, UnderUser, Credential
<1>7. t = T(t.kind, t.about, t.todo)
  BY <1>4 DEF t
<1>8. WellMade(t)
  BY <1>2, <1>4, <1>5, <1>6, <1>7, Made
<1>9. QED
  BY <1>8 DEF t, q

(* The plan of apply_webhook for a payment.                                *)
LEMMA PaidMade ==
    ASSUME NEW o \in Orders
    PROVE  WellMade(T("order", o, apply_webhook_paid(o)))
<1> DEFINE q == apply_webhook_paid(o)
           t == T("order", o, q)
<1>1. q = <<update("order", o), update("wallet", Own), refer("user", Own)>>
  BY DEF apply_webhook_paid
<1>2. q \in Seq(Locks) /\ DOMAIN q = 1..3 /\ Len(q) = 3
  BY <1>1, LockFacts DEF Tables, Credential
<1>3. /\ Table(q[1]) = "order" /\ Table(q[2]) = "wallet"
      /\ Table(q[3]) = "user" /\ q[1][2] = Row("order", o)
      /\ q[3][2] = Row("user", Own)
  BY <1>1, LockFacts
<1> HIDE DEF q
<1>4. t.kind = "order" /\ t.about = o /\ t.todo = q
  BY DEF T
<1> HIDE DEF t
<1>5. \A i \in 1..3 : OfItsKind(t, i)
  BY <1>3, <1>4 DEF OfItsKind, UnderUser
<1>6. \A i, j \in 1..3 : i < j => Orderly(t, i, j)
  BY <1>3, <1>4 DEF Orderly, UnderUser, Credential
<1>7. t = T(t.kind, t.about, t.todo)
  BY <1>4 DEF t
<1>8. WellMade(t)
  BY <1>2, <1>4, <1>5, <1>6, <1>7, Made
<1>9. QED
  BY <1>8 DEF t, q

(* The plan of prepare_refund.                                             *)
LEMMA PrepareRefundMade ==
    ASSUME NEW o \in Orders
    PROVE  WellMade(T("order", o, prepare_refund(o)))
<1> DEFINE q == prepare_refund(o)
           t == T("order", o, q)
<1>1. q = <<update("order", o), refer("user", Own)>>
  BY DEF prepare_refund
<1>2. q \in Seq(Locks) /\ DOMAIN q = 1..2 /\ Len(q) = 2
  BY <1>1, LockFacts DEF Tables, Credential
<1>3. /\ Table(q[1]) = "order" /\ Table(q[2]) = "user"
      /\ q[1][2] = Row("order", o) /\ q[2][2] = Row("user", Own)
  BY <1>1, LockFacts
<1> HIDE DEF q
<1>4. t.kind = "order" /\ t.about = o /\ t.todo = q
  BY DEF T
<1> HIDE DEF t
<1>5. \A i \in 1..2 : OfItsKind(t, i)
  BY <1>3, <1>4 DEF OfItsKind, UnderUser
<1>6. \A i, j \in 1..2 : i < j => Orderly(t, i, j)
  BY <1>3, <1>4 DEF Orderly, UnderUser, Credential
<1>7. t = T(t.kind, t.about, t.todo)
  BY <1>4 DEF t
<1>8. WellMade(t)
  BY <1>2, <1>4, <1>5, <1>6, <1>7, Made
<1>9. QED
  BY <1>8 DEF t, q

(* The plan that leaves a refund unresolved.                               *)
LEMMA UnresolvedMade ==
    ASSUME NEW o \in Orders
    PROVE  WellMade(T("order", o, refund_unresolved(o)))
<1> DEFINE q == refund_unresolved(o)
           t == T("order", o, q)
<1>1. q = <<write("order", o), write("refund", o)>>
  BY DEF refund_unresolved
<1>2. q \in Seq(Locks) /\ DOMAIN q = 1..2 /\ Len(q) = 2
  BY <1>1, LockFacts DEF Tables, Credential
<1>3. /\ Table(q[1]) = "order" /\ Table(q[2]) = "refund"
      /\ q[1][2] = Row("order", o) /\ q[2][2] = Row("refund", o)
  BY <1>1, LockFacts
<1> HIDE DEF q
<1>4. t.kind = "order" /\ t.about = o /\ t.todo = q
  BY DEF T
<1> HIDE DEF t
<1>5. \A i \in 1..2 : OfItsKind(t, i)
  BY <1>3, <1>4 DEF OfItsKind, UnderUser
<1>6. \A i, j \in 1..2 : i < j => Orderly(t, i, j)
  BY <1>3, <1>4 DEF Orderly, UnderUser, Credential
<1>7. t = T(t.kind, t.about, t.todo)
  BY <1>4 DEF t
<1>8. WellMade(t)
  BY <1>2, <1>4, <1>5, <1>6, <1>7, Made
<1>9. QED
  BY <1>8 DEF t, q

(* The plan of the webhook's refund.                                       *)
LEMMA WebhookRefundMade ==
    ASSUME NEW o \in Orders
    PROVE  WellMade(T("refund", o, webhook_refund(o)))
<1> DEFINE q == webhook_refund(o)
           t == T("refund", o, q)
<1>1. q = <<update("order", o), update("user", Own),
            update("wallet", Own), update("refund", o)>>
  BY DEF webhook_refund
<1>2. q \in Seq(Locks) /\ DOMAIN q = 1..4 /\ Len(q) = 4
  BY <1>1, LockFacts DEF Tables, Credential
<1>3. /\ Table(q[1]) = "order" /\ Table(q[2]) = "user"
      /\ Table(q[3]) = "wallet" /\ Table(q[4]) = "refund"
      /\ q[1][2] = Row("order", o) /\ q[2][2] = Row("user", Own)
      /\ q[4][2] = Row("refund", o) /\ q[2] = UserRow
      /\ q[1] = update("order", o)
  BY <1>1, LockFacts DEF UserRow
<1> HIDE DEF q
<1>4. t.kind = "refund" /\ t.about = o /\ t.todo = q
  BY DEF T
<1> HIDE DEF t
<1>5. \A i \in 1..4 : OfItsKind(t, i)
  BY <1>3, <1>4 DEF OfItsKind, UnderUser
<1>6. \A i, j \in 1..4 : i < j => Orderly(t, i, j)
  BY <1>3, <1>4 DEF Orderly, UnderUser, Credential
<1>7. t = T(t.kind, t.about, t.todo)
  BY <1>4 DEF t
<1>8. WellMade(t)
  <2>1. 1 \in 1..4 /\ 4 \in 1..4 /\ 4 \in Nat \ {0, 1}
    OBVIOUS
  <2>2. t.todo[1] = update("order", t.about) /\ t.todo[4][2] = Row("refund", t.about)
    BY <1>3, <1>4
  <2>3. QED
    BY <1>2, <1>3, <1>4, <1>5, <1>6, <1>7, <2>1, <2>2, RefundMade
<1>9. QED
  BY <1>8 DEF t, q

(* The plan of apply_refund.                                               *)
LEMMA ApplyRefundMade ==
    ASSUME NEW o \in Orders
    PROVE  WellMade(T("refund", o, apply_refund(o)))
<1> DEFINE q == apply_refund(o)
           t == T("refund", o, q)
<1>1. q = <<update("user", Own), update("order", o),
            update("wallet", Own), update("refund", o)>>
  BY DEF apply_refund
<1>2. q \in Seq(Locks) /\ DOMAIN q = 1..4 /\ Len(q) = 4
  BY <1>1, LockFacts DEF Tables, Credential
<1>3. /\ Table(q[1]) = "user" /\ Table(q[2]) = "order"
      /\ Table(q[3]) = "wallet" /\ Table(q[4]) = "refund"
      /\ q[1][2] = Row("user", Own) /\ q[2][2] = Row("order", o)
      /\ q[4][2] = Row("refund", o) /\ q[1] = UserRow
      /\ q[2] = update("order", o)
  BY <1>1, LockFacts DEF UserRow
<1> HIDE DEF q
<1>4. t.kind = "refund" /\ t.about = o /\ t.todo = q
  BY DEF T
<1> HIDE DEF t
<1>5. \A i \in 1..4 : OfItsKind(t, i)
  BY <1>3, <1>4 DEF OfItsKind, UnderUser
<1>6. \A i, j \in 1..4 : i < j => Orderly(t, i, j)
  BY <1>3, <1>4 DEF Orderly, UnderUser, Credential
<1>7. t = T(t.kind, t.about, t.todo)
  BY <1>4 DEF t
<1>8. WellMade(t)
  <2>1. 2 \in 1..4 /\ 4 \in 1..4 /\ 4 \in Nat \ {0, 1}
    OBVIOUS
  <2>2. t.todo[2] = update("order", t.about) /\ t.todo[4][2] = Row("refund", t.about)
    BY <1>3, <1>4
  <2>3. QED
    BY <1>2, <1>3, <1>4, <1>5, <1>6, <1>7, <2>1, <2>2, RefundMade
<1>9. QED
  BY <1>8 DEF t, q

(* The webhook's refund when it finds the credit spent.                    *)
LEMMA WebhookShortfallMade ==
    ASSUME NEW o \in Orders
    PROVE  WellMade(T("shortfall", o, webhook_shortfall(o)))
<1> DEFINE q == webhook_shortfall(o)
           t == T("shortfall", o, q)
<1>1. q = <<update("order", o), update("user", Own), update("wallet", Own), write("key", Own),
            write("session", Own), write("verification", Own),
            write("password_reset", Own), update("refund", o)>>
  BY DEF webhook_shortfall
<1>2. q \in Seq(Locks) /\ DOMAIN q = 1..8 /\ Len(q) = 8
  BY <1>1, LockFacts DEF Tables, Credential
<1>3. /\ Table(q[1]) = "order" /\ Table(q[2]) = "user"
      /\ Table(q[3]) = "wallet" /\ Table(q[4]) = "key"
      /\ Table(q[5]) = "session" /\ Table(q[6]) = "verification"
      /\ Table(q[7]) = "password_reset" /\ Table(q[8]) = "refund"
      /\ q[1][2] = Row("order", o) /\ q[2][2] = Row("user", Own)
      /\ q[8][2] = Row("refund", o) /\ q[2] = UserRow
      /\ q[1] = update("order", o)
  BY <1>1, LockFacts DEF UserRow
<1> HIDE DEF q
<1>4. t.kind = "shortfall" /\ t.about = o /\ t.todo = q
  BY DEF T
<1> HIDE DEF t
<1>5. \A i \in 1..8 : OfItsKind(t, i)
  BY <1>3, <1>4 DEF OfItsKind, UnderUser
<1>6. \A i, j \in 1..8 : i < j => Orderly(t, i, j)
  BY <1>3, <1>4 DEF Orderly, UnderUser, Credential
<1>7. t = T(t.kind, t.about, t.todo)
  BY <1>4 DEF t
<1>8. WellMade(t)
  <2>1. 1 \in 1..8 /\ 8 \in 1..8 /\ 8 \in Nat \ {0, 1}
    OBVIOUS
  <2>2. t.todo[1] = update("order", t.about) /\ t.todo[8][2] = Row("refund", t.about)
    BY <1>3, <1>4
  <2>3. QED
    BY <1>2, <1>3, <1>4, <1>5, <1>6, <1>7, <2>1, <2>2, RefundMade
<1>9. QED
  BY <1>8 DEF t, q

(* apply_refund when it finds the credit spent.                            *)
LEMMA RefundShortfallMade ==
    ASSUME NEW o \in Orders
    PROVE  WellMade(T("shortfall", o, apply_shortfall(o)))
<1> DEFINE q == apply_shortfall(o)
           t == T("shortfall", o, q)
<1>1. q = <<update("user", Own), update("order", o), update("wallet", Own), write("key", Own),
            write("session", Own), write("verification", Own),
            write("password_reset", Own), update("refund", o)>>
  BY DEF apply_shortfall
<1>2. q \in Seq(Locks) /\ DOMAIN q = 1..8 /\ Len(q) = 8
  BY <1>1, LockFacts DEF Tables, Credential
<1>3. /\ Table(q[1]) = "user" /\ Table(q[2]) = "order"
      /\ Table(q[3]) = "wallet" /\ Table(q[4]) = "key"
      /\ Table(q[5]) = "session" /\ Table(q[6]) = "verification"
      /\ Table(q[7]) = "password_reset" /\ Table(q[8]) = "refund"
      /\ q[1][2] = Row("user", Own) /\ q[2][2] = Row("order", o)
      /\ q[8][2] = Row("refund", o) /\ q[1] = UserRow
      /\ q[2] = update("order", o)
  BY <1>1, LockFacts DEF UserRow
<1> HIDE DEF q
<1>4. t.kind = "shortfall" /\ t.about = o /\ t.todo = q
  BY DEF T
<1> HIDE DEF t
<1>5. \A i \in 1..8 : OfItsKind(t, i)
  BY <1>3, <1>4 DEF OfItsKind, UnderUser
<1>6. \A i, j \in 1..8 : i < j => Orderly(t, i, j)
  BY <1>3, <1>4 DEF Orderly, UnderUser, Credential
<1>7. t = T(t.kind, t.about, t.todo)
  BY <1>4 DEF t
<1>8. WellMade(t)
  <2>1. 2 \in 1..8 /\ 8 \in 1..8 /\ 8 \in Nat \ {0, 1}
    OBVIOUS
  <2>2. t.todo[2] = update("order", t.about) /\ t.todo[8][2] = Row("refund", t.about)
    BY <1>3, <1>4
  <2>3. QED
    BY <1>2, <1>3, <1>4, <1>5, <1>6, <1>7, <2>1, <2>2, RefundMade
<1>9. QED
  BY <1>8 DEF t, q

(* The plan of resolve_refund_risk.                                        *)
LEMMA DispositionMade ==
    ASSUME NEW o \in Orders
    PROVE  WellMade(T("disposition", o, resolve_refund_risk(o)))
<1> DEFINE q == resolve_refund_risk(o)
           t == T("disposition", o, q)
<1>1. q = <<update("refund", o), update("order", o),
            update("wallet", Own), refer("user", Own)>>
  BY DEF resolve_refund_risk
<1>2. q \in Seq(Locks) /\ DOMAIN q = 1..4 /\ Len(q) = 4
  BY <1>1, LockFacts DEF Tables, Credential
<1>3. /\ Table(q[1]) = "refund" /\ Table(q[2]) = "order"
      /\ Table(q[3]) = "wallet" /\ Table(q[4]) = "user"
      /\ q[1][2] = Row("refund", o) /\ q[2][2] = Row("order", o)
      /\ q[4][2] = Row("user", Own) /\ q[1] = update("refund", o)
      /\ q[2] = update("order", o)
  BY <1>1, LockFacts
<1> HIDE DEF q
<1>4. t.kind = "disposition" /\ t.about = o /\ t.todo = q
  BY DEF T
<1> HIDE DEF t
<1>5. \A i \in 1..4 : OfItsKind(t, i)
  BY <1>3, <1>4 DEF OfItsKind, UnderUser
<1>6. \A i, j \in 1..4 : i < j => Orderly(t, i, j)
  BY <1>3, <1>4 DEF Orderly, UnderUser, Credential
<1>7. t = T(t.kind, t.about, t.todo)
  BY <1>4 DEF t
<1>8. WellMade(t)
  <2>1. 2 \in 1..4 /\ 1 \in 1..4 /\ 4 \in Nat \ {0, 1}
    OBVIOUS
  <2>2. t.todo[2] = update("order", t.about) /\ t.todo[1][2] = Row("refund", t.about)
    BY <1>3, <1>4
  <2>3. QED
    BY <1>2, <1>3, <1>4, <1>5, <1>6, <1>7, <2>1, <2>2, RefundMade
<1>9. QED
  BY <1>8 DEF t, q

(* Between transactions there is nothing to lock.                          *)
LEMMA IdleMade == WellMade(Idle)
<1>1. Idle.kind = "idle" /\ Idle.about = Own /\ Idle.todo = <<>>
  BY DEF Idle, T
<1>2. Idle = T(Idle.kind, Idle.about, Idle.todo)
  BY <1>1 DEF Idle
<1>3. <<>> \in Seq(Locks) /\ DOMAIN <<>> = {}
  OBVIOUS
<1>4. QED
  BY <1>1, <1>2, <1>3 DEF WellMade, Kinds

(* The sweep locks requests, in whatever order the scan returns them.      *)
LEMMA SweepMade ==
    ASSUME NEW scan \in Scans
    PROVE  WellMade(T("sweep", Own, recover_stale(scan)))
<1> DEFINE q == recover_stale(scan)
           t == T("sweep", Own, q)
           n == Cardinality(Requests)
<1>1. n \in Nat
  BY RowLocksAssumption, FS_CardinalityType
<1>2. scan \in [1..n -> Requests]
  BY DEF Scans
<1>3. q = [i \in 1..n |-> write("request", scan[i])]
  BY <1>2 DEF recover_stale
<1> HIDE DEF n
<1>4. \A i \in 1..n : q[i] = write("request", scan[i]) /\ q[i] \in Locks
  <2>1. SUFFICES ASSUME NEW i \in 1..n
                 PROVE  q[i] = write("request", scan[i]) /\ q[i] \in Locks
    OBVIOUS
  <2>2. q[i] = write("request", scan[i]) /\ scan[i] \in Requests
    BY <1>2, <1>3
  <2>3. \A r \in Requests : write("request", r) \in Locks
    BY LockFacts DEF Tables
  <2>4. QED
    BY <2>2, <2>3
<1>5. q \in Seq(Locks) /\ DOMAIN q = 1..n
  BY <1>1, <1>3, <1>4
<1>6. \A i \in 1..n : Table(q[i]) = "request"
  BY <1>4, LockFacts
<1> HIDE DEF q
<1>7. t.kind = "sweep" /\ t.about = Own /\ t.todo = q
  BY DEF T
<1>8. t = T(t.kind, t.about, t.todo)
  BY <1>7
<1> HIDE DEF t
<1>9. \A i \in 1..n : OfItsKind(t, i)
  BY <1>6, <1>7 DEF OfItsKind
<1>10. \A i, j \in 1..n : Orderly(t, i, j)
  BY <1>6, <1>7 DEF Orderly, Credential
<1>11. WellMade(t)
  BY <1>5, <1>7, <1>8, <1>9, <1>10 DEF WellMade, Kinds
<1>12. QED
  BY <1>11 DEF t, q

(* Transactions of a single lock.                                          *)
LEMMA SinglesMade ==
    /\ \A plan \in {create_order, login, logout_all, require_api_key} :
          WellMade(T("other", Own, plan))
    /\ \A r \in Requests : WellMade(T("other", Own, mark_pending_reconciliation(r)))
    /\ \A o \in Orders :
          /\ WellMade(T("order", o, checkout_answered(o)))
          /\ WellMade(T("order", o, apply_webhook_open(o)))
          /\ WellMade(T("order", o, prepare_refund_again(o)))
<1>1. ASSUME NEW lock \in {update("user", Own), refer("user", Own),
                           write("session", Own), write("key", Own)}
      PROVE  WellMade(T("other", Own, <<lock>>))
  <2>1. /\ lock \in Locks /\ Table(lock) \in {"user", "session", "key"}
        /\ Table(lock) = "user" => lock[2] = Row("user", Own)
    BY LockFacts DEF Tables, Credential
  <2>2. QED
    BY <2>1, SingleMade
<1>2. \A plan \in {create_order, login, logout_all, require_api_key} :
         WellMade(T("other", Own, plan))
  BY <1>1 DEF create_order, user_first, login, logout_all, require_api_key
<1>3. ASSUME NEW r \in Requests
      PROVE  WellMade(T("other", Own, mark_pending_reconciliation(r)))
  <2>1. write("request", r) \in Locks /\ Table(write("request", r)) = "request"
    BY LockFacts DEF Tables
  <2>2. QED
    BY <2>1, SingleMade DEF mark_pending_reconciliation
<1>4. ASSUME NEW o \in Orders, NEW lock \in {update("order", o), write("refund", o)}
      PROVE  WellMade(T("order", o, <<lock>>))
  <2>1. lock \in Locks /\ lock[2] = Row(Table(lock), o) /\ Table(lock) # "user"
    <3>1. /\ update("order", o) \in Locks /\ write("refund", o) \in Locks
          /\ Table(update("order", o)) = "order" /\ Table(write("refund", o)) = "refund"
      BY LockFacts DEF Tables
    <3>2. QED
      BY <3>1 DEF update, write
  <2>2. QED
    BY <2>1, SingleMade
<1>5. QED
  BY <1>2, <1>3, <1>4 DEF checkout_answered, apply_webhook_open, prepare_refund_again

(* Every plan is made as the following proofs need it.                     *)
LEMMA PlansAreWellMade == \A t \in Planned : WellMade(t)
<1>1. \A t \in Others : WellMade(t)
  BY BudgetMade, FreezeMade, ResetMade, ResetLinkMade, VerifyMade, IssueMade, AuditMade,
     FinalizeMade, SinglesMade DEF Others
<1>2. \A t \in Sweeps : WellMade(t)
  BY SweepMade DEF Sweeps
<1>3. ASSUME NEW o \in Orders
      PROVE  \A t \in Refunds(o) \cup {Disposition(o)} \cup AboutOrder(o) \cup Shortfalls(o) :
                WellMade(t)
  <2>1. \A t \in Refunds(o) : WellMade(t)
    BY WebhookRefundMade, ApplyRefundMade DEF Refunds
  <2>2. WellMade(Disposition(o))
    BY DispositionMade DEF Disposition
  <2>3. \A t \in Shortfalls(o) : WellMade(t)
    BY WebhookShortfallMade, RefundShortfallMade DEF Shortfalls
  <2>4. \A t \in AboutOrder(o) : WellMade(t)
    BY CheckoutMade, PaidMade, PrepareRefundMade, UnresolvedMade, SinglesMade DEF AboutOrder
  <2>5. QED
    BY <2>1, <2>2, <2>3, <2>4
<1>4. QED
  BY <1>1, <1>2, <1>3, AdmissionMade, IdleMade DEF Planned, Transactions, Admission

-----------------------------------------------------------------------------
(* What a waiting transaction has and needs                                *)

LEMMA WaitsAt ==
    ASSUME ProgressInv, NEW w \in Workers, Waiting(w)
    PROVE  \E t \in Planned : \E k \in 0..Len(t.todo) :
              /\ WellMade(t) /\ IsAt(txn[w], held[w], t, k) /\ k + 1 \in DOMAIN t.todo
              /\ Head(txn[w].todo) = t.todo[k + 1]
              /\ Len(txn[w].todo) \in Nat \ {0}
<1>1. ~HasEnded(txn[w])
  <2>1. SUFFICES ASSUME NEW about \in Orders, txn[w] = T("ended", about, <<>>)
                 PROVE  txn[w].todo = <<>>
    BY DEF HasEnded, Waiting
  <2>2. QED
    BY <2>1 DEF T
<1>2. PICK t \in Planned : \E k \in 0..Len(t.todo) : IsAt(txn[w], held[w], t, k)
  BY <1>1 DEF ProgressInv, Progress
<1>3. PICK k \in 0..Len(t.todo) : IsAt(txn[w], held[w], t, k)
  BY <1>2
<1>4. WellMade(t) /\ t.todo \in Seq(Locks)
  BY PlansAreWellMade DEF WellMade
<1>5. Len(txn[w].todo) \in Nat \ {0}
  BY <1>3 DEF IsAt, Waiting
<1>6. k + 1 \in DOMAIN t.todo
  BY <1>3, <1>4, <1>5 DEF IsAt
<1>7. Head(txn[w].todo) = t.todo[k + 1]
  BY <1>3, <1>5 DEF IsAt
<1>8. QED
  BY <1>3, <1>4, <1>5, <1>6, <1>7

(* The lock it waits for.                                                  *)
LEMMA NextLock ==
    ASSUME ProgressInv, NEW w \in Workers, Waiting(w)
    PROVE  LET t == txn[w]
               next == Head(txn[w].todo)
           IN  /\ next \in Locks
               /\ Table(next) \in {"order", "refund"} =>
                     t.about \in Orders /\ next[2] = Row(Table(next), t.about)
               /\ Table(next) = "user" => next[2] = Row("user", Own)
               /\ t.kind = "sweep" => Table(next) = "request"
               /\ t.kind = "admission" => Table(next) \in {"user", "key", "wallet", "budget"}
<1>1. PICK t \in Planned : \E k \in 0..Len(t.todo) :
         /\ WellMade(t) /\ IsAt(txn[w], held[w], t, k) /\ k + 1 \in DOMAIN t.todo
         /\ Head(txn[w].todo) = t.todo[k + 1]
  BY WaitsAt
<1>2. PICK k \in 0..Len(t.todo) :
         /\ WellMade(t) /\ IsAt(txn[w], held[w], t, k) /\ k + 1 \in DOMAIN t.todo
         /\ Head(txn[w].todo) = t.todo[k + 1]
  BY <1>1
<1>3. txn[w].kind = t.kind /\ txn[w].about = t.about
  BY <1>2 DEF IsAt, T
<1>4. t.todo[k + 1] \in Locks
  BY <1>2 DEF WellMade
<1>5. OfItsKind(t, k + 1)
  BY <1>2 DEF WellMade
<1>6. QED
  BY <1>2, <1>3, <1>4, <1>5 DEF OfItsKind

(* The locks it has, each with the one it waits for.                       *)
LEMMA HeldLock ==
    ASSUME ProgressInv, NEW w \in Workers, Waiting(w), NEW lock \in held[w]
    PROVE  LET t == txn[w]
               later == Table(Head(txn[w].todo))
               earlier == Table(lock)
           IN  /\ earlier = "budget" => later \in {"user", "request"}
               /\ earlier = "wallet" =>
                     later \in Credential \cup {"budget", "user", "refund", "request"}
               /\ earlier = "order" =>
                     later \in Credential \cup {"user", "wallet", "refund"}
               /\ earlier = "refund" =>
                     t.kind = "disposition" /\ later \in {"order", "wallet", "user"}
               /\ earlier = "request" => t.kind = "sweep" /\ later = "request"
               /\ earlier \in Credential => later = "user" \/ UserRow \in held[w]
               /\ later \in Credential => earlier = "user" \/ UserRow \in held[w]
               /\ later = "refund" =>
                     /\ t.kind \in {"order", "refund", "shortfall"}
                     /\ Locked(held[w], Row("order", t.about))
               /\ later = "order" =>
                     \/ UserRow \in held[w]
                     \/ t.kind = "disposition" /\ Locked(held[w], Row("refund", t.about))
               /\ earlier \in {"order", "refund"} =>
                     t.about \in Orders /\ lock[2] = Row(earlier, t.about)
               /\ t.kind = "admission" => UserRow \in held[w]
               /\ t.kind \in {"refund", "shortfall"} =>
                     UserRow \in held[w] \/ lock = update("order", t.about)
<1>1. PICK t \in Planned : \E k \in 0..Len(t.todo) :
         /\ WellMade(t) /\ IsAt(txn[w], held[w], t, k) /\ k + 1 \in DOMAIN t.todo
         /\ Head(txn[w].todo) = t.todo[k + 1]
  BY WaitsAt
<1>2. PICK k \in 0..Len(t.todo) :
         /\ WellMade(t) /\ IsAt(txn[w], held[w], t, k) /\ k + 1 \in DOMAIN t.todo
         /\ Head(txn[w].todo) = t.todo[k + 1]
  BY <1>1
<1>3. /\ txn[w].kind = t.kind /\ txn[w].about = t.about
      /\ held[w] = {t.todo[i] : i \in 1..k}
  BY <1>2 DEF IsAt, T
<1>4. PICK i \in 1..k : lock = t.todo[i]
  BY <1>3
<1>5. /\ k \in Nat /\ i \in Nat /\ i < k + 1 /\ i >= 1
      /\ i \in DOMAIN t.todo
  BY <1>2 DEF WellMade
<1>6. OfItsKind(t, i) /\ Orderly(t, i, k + 1)
  BY <1>2, <1>5 DEF WellMade
<1>7. UnderUser(t.todo, i) => UserRow \in held[w]
  BY <1>3, <1>5 DEF UnderUser
<1>8. UnderUser(t.todo, k + 1) => UserRow \in held[w]
  BY <1>3, <1>5 DEF UnderUser
<1>9. t.todo[1] \in held[w] /\ (k + 1 > 2 => t.todo[2] \in held[w])
  BY <1>3, <1>5
<1>10. t.kind = "disposition" => t.todo[1][2] = Row("refund", t.about)
  BY <1>2, LockFacts DEF WellMade
<1> DEFINE later == Table(Head(txn[w].todo))
           earlier == Table(lock)
<1>11. /\ earlier = Table(t.todo[i]) /\ later = Table(t.todo[k + 1])
  BY <1>2, <1>4
<1>12. /\ later = "refund" => Locked(held[w], Row("order", txn[w].about))
       /\ later = "order" /\ UserRow \notin held[w] =>
             t.kind = "disposition" /\ Locked(held[w], Row("refund", txn[w].about))
  BY <1>3, <1>5, <1>6, <1>8, <1>9, <1>10, <1>11 DEF Orderly, Locked
<1>13. /\ earlier \in {"order", "refund"} =>
             txn[w].about \in Orders /\ lock[2] = Row(earlier, txn[w].about)
       /\ t.kind = "admission" => UserRow \in held[w]
       /\ t.kind \in {"refund", "shortfall"} =>
             UserRow \in held[w] \/ lock = update("order", txn[w].about)
  BY <1>3, <1>4, <1>6, <1>7, <1>9, <1>11 DEF OfItsKind
<1> HIDE DEF later, earlier
<1>14. /\ earlier = "budget" => later \in {"user", "request"}
       /\ earlier = "wallet" =>
             later \in Credential \cup {"budget", "user", "refund", "request"}
       /\ earlier = "order" => later \in Credential \cup {"user", "wallet", "refund"}
       /\ earlier = "refund" =>
             t.kind = "disposition" /\ later \in {"order", "wallet", "user"}
       /\ earlier = "request" => t.kind = "sweep" /\ later = "request"
       /\ earlier \in Credential => later = "user" \/ UserRow \in held[w]
       /\ later \in Credential => earlier = "user" \/ UserRow \in held[w]
       /\ later = "refund" => t.kind \in {"order", "refund", "shortfall"}
  BY <1>6, <1>7, <1>8, <1>11 DEF Orderly
<1>15. QED
  BY <1>3, <1>12, <1>13, <1>14 DEF later, earlier

-----------------------------------------------------------------------------
(* Who waits for whom                                                      *)

(* The row that a transaction waits for.                                   *)
Wanted(w) == Head(txn[w].todo)[2]
WantedTable(w) == Table(Head(txn[w].todo))

(* Who is waited for has a lock on the row.                                *)
LEMMA InTheWay ==
    ASSUME NEW w \in Workers, NEW v \in WaitsFor(w)
    PROVE  /\ v \in Workers /\ v # w /\ Waiting(w)
           /\ \E lock \in held[v] : lock[2] = Wanted(w) /\ Table(lock) = WantedTable(w)
  BY DEF WaitsFor, Wanted, WantedTable, Table

(* Only one has the user row for update.                                   *)
LEMMA OneHasTheUser ==
    ASSUME ExclusionInv, NEW v \in Workers, NEW w \in Workers,
           UserRow \in held[v], UserRow \in held[w]
    PROVE  v = w
  BY LockFacts DEF ExclusionInv, conflicts, UserRow, update

(* A transaction that has the order and one that disposes of a risk have   *)
(* read different things of the same refund.                               *)
LEMMA OrderOrDisposition ==
    ASSUME ReadInv, NEW v \in Workers, NEW w \in Workers,
           txn[v].kind \in {"order", "refund", "shortfall"},
           Locked(held[v], Row("order", txn[v].about)),
           txn[w].kind = "disposition", Locked(held[w], Row("refund", txn[w].about))
    PROVE  txn[v].about # txn[w].about
  BY DEF ReadInv, ReadsHold

(* In a set of transactions that only wait for each other, and none of     *)
(* them for the user row, there is no row left that one could wait for.    *)
LEMMA SomeoneWantsTheUser ==
    ASSUME LocksInv, NEW ws \in SUBSET Workers, Stuck(ws)
    PROVE  \E w \in ws : WantedTable(w) = "user"
<1> SUFFICES ASSUME \A w \in ws : WantedTable(w) # "user"
             PROVE  FALSE
  OBVIOUS
<1> USE DEF LocksInv
<1>1. \A w \in ws : Waiting(w)
  BY InTheWay DEF Stuck
<1>2. ASSUME NEW w \in ws
      PROVE  \E v \in ws : /\ v # w
                           /\ \E lock \in held[v] : /\ lock[2] = Wanted(w)
                                                    /\ Table(lock) = WantedTable(w)
  BY InTheWay DEF Stuck
<1>3. ASSUME NEW w \in ws, WantedTable(w) = "request"
      PROVE  FALSE
  <2>1. PICK v \in ws : v # w /\ \E lock \in held[v] : Table(lock) = "request"
    BY <1>2, <1>3
  <2>2. txn[v].kind = "sweep" /\ WantedTable(v) = "request"
    BY <1>1, <2>1, HeldLock DEF WantedTable
  <2>3. PICK x \in ws : x # v /\ \E lock \in held[x] : Table(lock) = "request"
    BY <1>2, <2>2
  <2>4. txn[x].kind = "sweep"
    BY <1>1, <2>3, HeldLock
  <2>5. QED
    BY <2>2, <2>3, <2>4 DEF ExclusionInv
<1>4. ASSUME NEW w \in ws, WantedTable(w) = "budget"
      PROVE  FALSE
  <2>1. PICK v \in ws : v # w /\ \E lock \in held[v] : Table(lock) = "budget"
    BY <1>2, <1>4
  <2>2. WantedTable(v) \in {"user", "request"}
    BY <1>1, <2>1, HeldLock DEF WantedTable
  <2>3. QED
    BY <1>3, <2>2
<1>5. ASSUME NEW w \in ws, WantedTable(w) \in Credential, UserRow \in held[w]
      PROVE  FALSE
  <2>1. PICK v \in ws : v # w /\ \E lock \in held[v] : Table(lock) \in Credential
    BY <1>2, <1>5
  <2>2. WantedTable(v) = "user" \/ UserRow \in held[v]
    BY <1>1, <2>1, HeldLock DEF WantedTable
  <2>3. QED
    BY <1>5, <2>1, <2>2, OneHasTheUser
<1>6. ASSUME NEW w \in ws, WantedTable(w) = "refund", held[w] # {}
      PROVE  FALSE
  <2>1. PICK mine \in held[w] : TRUE
    BY <1>6
  <2>2. /\ txn[w].kind \in {"order", "refund", "shortfall"}
        /\ Locked(held[w], Row("order", txn[w].about))
    BY <1>1, <1>6, <2>1, HeldLock DEF WantedTable
  <2>3. Wanted(w) = Row("refund", txn[w].about)
    BY <1>1, <1>6, NextLock DEF Wanted, WantedTable
  <2>4. PICK v \in ws : \E lock \in held[v] : lock[2] = Wanted(w) /\ Table(lock) = "refund"
    BY <1>2, <1>6
  <2>5. PICK lock \in held[v] : lock[2] = Wanted(w) /\ Table(lock) = "refund"
    BY <2>4
  <2>6. txn[v].kind = "disposition" /\ lock[2] = Row("refund", txn[v].about)
    BY <1>1, <2>5, HeldLock
  <2>7. txn[v].about = txn[w].about
    BY <2>3, <2>5, <2>6 DEF Row
  <2>8. Locked(held[v], Row("refund", txn[v].about))
    BY <2>6 DEF Locked
  <2>9. QED
    BY <2>2, <2>6, <2>7, <2>8, OrderOrDisposition
<1>7. ASSUME NEW w \in ws, WantedTable(w) = "wallet"
      PROVE  FALSE
  <2>1. PICK v \in ws : \E lock \in held[v] : Table(lock) = "wallet"
    BY <1>2, <1>7
  <2>2. PICK lock \in held[v] : Table(lock) = "wallet"
    BY <2>1
  <2>3. WantedTable(v) \in Credential \cup {"budget", "user", "refund", "request"}
    BY <1>1, <2>2, HeldLock DEF WantedTable
  <2>4. WantedTable(v) \in Credential => UserRow \in held[v]
    BY <1>1, <2>2, HeldLock DEF WantedTable
  <2>5. QED
    BY <1>3, <1>4, <1>5, <1>6, <2>2, <2>3, <2>4
<1>8. ASSUME NEW w \in ws, WantedTable(w) = "order"
      PROVE  FALSE
  <2>1. PICK v \in ws : \E lock \in held[v] : Table(lock) = "order"
    BY <1>2, <1>8
  <2>2. PICK lock \in held[v] : Table(lock) = "order"
    BY <2>1
  <2>3. WantedTable(v) \in Credential \cup {"user", "wallet", "refund"}
    BY <1>1, <2>2, HeldLock DEF WantedTable
  <2>4. WantedTable(v) \in Credential => UserRow \in held[v]
    BY <1>1, <2>2, HeldLock DEF WantedTable
  <2>5. QED
    BY <1>5, <1>6, <1>7, <2>2, <2>3, <2>4
<1>9. ASSUME NEW w \in ws, WantedTable(w) = "refund"
      PROVE  FALSE
  <2>1. PICK v \in ws : \E lock \in held[v] : Table(lock) = "refund"
    BY <1>2, <1>9
  <2>2. WantedTable(v) \in {"order", "wallet", "user"}
    BY <1>1, <2>1, HeldLock DEF WantedTable
  <2>3. QED
    BY <1>7, <1>8, <2>2
<1>10. ASSUME NEW w \in ws, WantedTable(w) \in Credential
       PROVE  FALSE
  <2>1. PICK v \in ws : \E lock \in held[v] : Table(lock) \in Credential
    BY <1>2, <1>10
  <2>2. UserRow \in held[v]
    BY <1>1, <2>1, HeldLock DEF WantedTable
  <2>3. WantedTable(v) \in Tables
    BY <1>1, NextLock DEF WantedTable, Locks, Table
  <2>4. QED
    BY <1>3, <1>4, <1>5, <1>7, <1>8, <1>9, <2>2, <2>3 DEF Tables
<1>11. PICK w \in ws : TRUE
  BY DEF Stuck
<1>12. WantedTable(w) \in Tables
  BY <1>1, NextLock DEF WantedTable, Locks, Table
<1>13. QED
  BY <1>3, <1>4, <1>7, <1>8, <1>9, <1>10, <1>12 DEF Tables

(* Hence every circle of waits passes the user row.                        *)
LEMMA CirclesAtTheUser == LocksInv => CirclesPassTheUserRow
<1> SUFFICES ASSUME LocksInv, NEW ws \in SUBSET Workers, Circle(ws)
             PROVE  \E w \in ws : Head(txn[w].todo)[2] = Row("user", Own)
  BY DEF CirclesPassTheUserRow
<1>1. PICK w \in ws : WantedTable(w) = "user"
  BY SomeoneWantsTheUser DEF Circle
<1>2. Waiting(w)
  BY InTheWay DEF Circle, Stuck
<1>3. QED
  BY <1>1, <1>2, NextLock DEF WantedTable, LocksInv

(* A sweep waits for requests only, and for requests no circle can wait.   *)
LEMMA SweepWaitsAlone == LocksInv => SweepIsInNoCircle
<1> SUFFICES ASSUME LocksInv, NEW ws \in SUBSET Workers, Circle(ws), NEW w \in ws,
                    txn[w].kind = "sweep"
             PROVE  FALSE
  BY DEF SweepIsInNoCircle
<1>1. \A v \in ws : Waiting(v)
  BY InTheWay DEF Circle, Stuck
<1>2. WantedTable(w) = "request"
  BY <1>1, NextLock DEF WantedTable, LocksInv
<1>3. PICK v \in ws : v # w /\ \E lock \in held[v] : Table(lock) = "request"
  BY <1>2, InTheWay DEF Circle, Stuck
<1>4. txn[v].kind = "sweep"
  BY <1>1, <1>3, HeldLock DEF LocksInv
<1>5. QED
  BY <1>3, <1>4 DEF LocksInv, ExclusionInv

(* In a circle everyone is waited for: without one whom nobody waits for,  *)
(* the others would be stuck as well.                                      *)
LEMMA EveryoneIsInTheWay ==
    ASSUME NEW ws \in SUBSET Workers, Circle(ws), NEW w \in ws
    PROVE  \E v \in ws : v # w /\ w \in WaitsFor(v)
<1> SUFFICES ASSUME \A v \in ws : v # w => w \notin WaitsFor(v)
             PROVE  FALSE
  OBVIOUS
<1> DEFINE vs == ws \ {w}
<1>1. PICK v \in ws : v \in WaitsFor(w)
  BY DEF Circle, Stuck
<1>2. v # w
  BY <1>1, InTheWay
<1>3. ASSUME NEW x \in vs
      PROVE  WaitsFor(x) \cap vs # {}
  <2>1. PICK y \in ws : y \in WaitsFor(x)
    BY DEF Circle, Stuck
  <2>2. y # w
    BY <2>1
  <2>3. QED
    BY <2>1, <2>2
<1>4. Stuck(vs)
  BY <1>1, <1>2, <1>3 DEF Stuck
<1>5. vs = ws
  BY <1>4 DEF Circle
<1>6. QED
  BY <1>5

(* With the user row only one of a refund and an admission can be in a     *)
(* circle; without it the refund has no more than the order, which only a  *)
(* disposition of the same refund could want, and it has read otherwise.   *)
LEMMA RefundsApart == LocksInv => RefundsAndAdmissionsDoNotCross
<1> SUFFICES ASSUME LocksInv, NEW ws \in SUBSET Workers, Circle(ws),
                    NEW a \in ws, txn[a].kind = "admission",
                    NEW b \in ws, txn[b].kind \in {"refund", "shortfall"}
             PROVE  FALSE
  BY DEF RefundsAndAdmissionsDoNotCross
<1> USE DEF LocksInv
<1>1. \A w \in ws : Waiting(w)
  BY InTheWay DEF Circle, Stuck
<1>2. ASSUME NEW w \in ws
      PROVE  \E v \in ws : /\ v # w
                           /\ \E lock \in held[w] : /\ lock[2] = Wanted(v)
                                                    /\ Table(lock) = WantedTable(v)
  BY EveryoneIsInTheWay, InTheWay
<1>3. UserRow \in held[a]
  <2>1. PICK lock \in held[a] : TRUE
    BY <1>2
  <2>2. QED
    BY <1>1, <2>1, HeldLock
<1>4. UserRow \notin held[b]
  BY <1>3, OneHasTheUser
<1>5. PICK x \in ws : x # b /\ \E lock \in held[b] : lock[2] = Wanted(x)
                                                 /\ Table(lock) = WantedTable(x)
  BY <1>2
<1>6. PICK lock \in held[b] : lock[2] = Wanted(x) /\ Table(lock) = WantedTable(x)
  BY <1>5
<1>7. lock = update("order", txn[b].about)
  BY <1>1, <1>4, <1>6, HeldLock
<1>8. WantedTable(x) = "order" /\ Wanted(x) = Row("order", txn[b].about)
  BY <1>6, <1>7, LockFacts
<1>9. PICK mine \in held[x] : TRUE
  BY <1>2
<1>10. \/ UserRow \in held[x]
       \/ txn[x].kind = "disposition" /\ Locked(held[x], Row("refund", txn[x].about))
  BY <1>1, <1>8, <1>9, HeldLock DEF WantedTable
<1>11. CASE UserRow \in held[x]
  <2>1. x = a
    BY <1>3, <1>11, OneHasTheUser
  <2>2. WantedTable(a) \in {"user", "key", "wallet", "budget"}
    BY <1>1, NextLock DEF WantedTable
  <2>3. QED
    BY <1>8, <2>1, <2>2
<1>12. CASE txn[x].kind = "disposition" /\ Locked(held[x], Row("refund", txn[x].about))
  <2>1. Wanted(x) = Row("order", txn[x].about)
    BY <1>1, <1>8, NextLock DEF Wanted, WantedTable
  <2>2. txn[x].about = txn[b].about
    BY <1>8, <2>1 DEF Row
  <2>3. Locked(held[b], Row("order", txn[b].about))
    BY <1>6, <1>8 DEF Locked
  <2>4. QED
    BY <1>12, <2>2, <2>3, OrderOrDisposition
<1>13. QED
  BY <1>10, <1>11, <1>12

-----------------------------------------------------------------------------
(* Every step keeps the invariant                                          *)

(* Every plan is a record of a worker.                                     *)
LEMMA PlannedRecords ==
    \A t \in Planned : t \in Record /\ Len(t.todo) \in Nat
<1> SUFFICES ASSUME NEW t \in Planned PROVE t \in Record /\ Len(t.todo) \in Nat
  OBVIOUS
<1>1. WellMade(t)
  BY PlansAreWellMade
<1>2. t = T(t.kind, t.about, t.todo)
  BY <1>1 DEF WellMade
<1>3. t.kind \in Kinds /\ t.about \in {Own} \cup Orders /\ t.todo \in Seq(Locks)
  BY <1>1 DEF WellMade
<1>4. T(t.kind, t.about, t.todo) \in Record
  BY <1>3 DEF T, Record
<1>5. QED
  BY <1>2, <1>3, <1>4

(* A transaction that begins has its whole plan before it.                 *)
LEMMA BeginsAt ==
    ASSUME NEW t \in Planned
    PROVE  Progress(t, {})
<1>1. t = T(t.kind, t.about, t.todo) /\ t.todo \in Seq(Locks)
  BY PlansAreWellMade DEF WellMade
<1>2. \A i \in 1..Len(t.todo) : t.todo[i] = t.todo[0 + i]
  OBVIOUS
<1>3. {t.todo[i] : i \in 1..0} = {}
  OBVIOUS
<1>4. Len(t.todo) = Len(t.todo) - 0 /\ 0 \in 0..Len(t.todo)
  BY <1>1
<1>5. IsAt(t, {}, t, 0)
  BY <1>1, <1>2, <1>3, <1>4 DEF IsAt
<1>6. QED
  BY <1>4, <1>5 DEF Progress

(* An idle worker has no locks.                                            *)
LEMMA IdleHasNothing ==
    ASSUME ProgressInv, NEW w \in Workers, txn[w] = Idle
    PROVE  held[w] = {}
<1>1. ~HasEnded(txn[w])
  <2>1. SUFFICES ASSUME NEW about \in Orders PROVE Idle # T("ended", about, <<>>)
    BY DEF HasEnded
  <2>2. Idle.kind = "idle" /\ T("ended", about, <<>>).kind = "ended"
    BY DEF Idle, T
  <2>3. QED
    BY <2>2
<1>2. PICK t \in Planned : \E k \in 0..Len(t.todo) : IsAt(txn[w], held[w], t, k)
  BY <1>1 DEF ProgressInv, Progress
<1>3. t.kind = "idle"
  BY <1>2 DEF IsAt, Idle, T
<1>4. t = Idle
  BY <1>3, PlansAreWellMade DEF WellMade
<1>5. Len(t.todo) = 0
  BY <1>4 DEF Idle, T
<1>6. IsAt(txn[w], held[w], t, 0)
  BY <1>2, <1>5
<1>7. QED
  BY <1>6 DEF IsAt

(* begin: the worker takes a plan, and no lock as yet.                     *)
LEMMA BeginStep ==
    ASSUME LocksInv, NEW w \in Workers, begin(w)
    PROVE  LocksInv'
<1> USE DEF LocksInv
<1>1. PICK t \in Transactions :
         /\ t.kind = "sweep" => advisory_lock_free
         /\ txn' = [txn EXCEPT ![w] = t]
  BY DEF begin
<1>2. held' = held /\ refunded' = refunded /\ held[w] = {}
  BY IdleHasNothing DEF begin
<1>3. /\ txn'[w] = t /\ t \in Planned /\ t \in Record
      /\ \A v \in Workers : v # w => txn'[v] = txn[v]
  BY <1>1, PlannedRecords DEF ProgressInv, Planned
<1>4. ProgressInv'
  <2>1. Progress(txn'[w], held'[w])
    BY <1>2, <1>3, BeginsAt
  <2>2. \A v \in Workers : v # w => Progress(txn'[v], held'[v])
    BY <1>2, <1>3 DEF ProgressInv
  <2>3. QED
    BY <1>1, <1>2, <1>3, <2>1, <2>2 DEF ProgressInv, Record
<1>5. ExclusionInv'
  BY <1>1, <1>2, <1>3 DEF ExclusionInv, advisory_lock_free
<1>6. ReadInv'
  BY <1>1, <1>2, <1>3 DEF ReadInv, ReadsHold, Locked
<1>7. QED
  BY <1>4, <1>5, <1>6

-----------------------------------------------------------------------------
(* A lock more: the transaction is one step further in its plan.           *)
LEMMA NextAt ==
    ASSUME NEW t, t.todo \in Seq(Locks), NEW k \in 0..Len(t.todo),
           NEW now, NEW locks, IsAt(now, locks, t, k), Len(now.todo) \in Nat \ {0}
    PROVE  /\ k + 1 \in 0..Len(t.todo)
           /\ IsAt(T(now.kind, now.about, Tail(now.todo)),
                   locks \cup {Head(now.todo)}, t, k + 1)
<1> DEFINE rest == Tail(now.todo)
           next == T(now.kind, now.about, rest)
<1>1. /\ now.kind = t.kind /\ now.about = t.about /\ now.todo \in Seq(Locks)
      /\ Len(now.todo) = Len(t.todo) - k
      /\ \A i \in 1..Len(now.todo) : now.todo[i] = t.todo[k + i]
      /\ locks = {t.todo[i] : i \in 1..k}
  BY DEF IsAt, T
<1>2. k \in Nat /\ Len(t.todo) \in Nat
  OBVIOUS
<1>3. /\ rest \in Seq(Locks) /\ Len(rest) = Len(now.todo) - 1
      /\ \A i \in 1..Len(rest) : rest[i] = now.todo[i + 1]
  BY <1>1
<1>4. Head(now.todo) = t.todo[k + 1]
  BY <1>1
<1> HIDE DEF rest
<1>5. k + 1 \in 0..Len(t.todo) /\ Len(rest) = Len(t.todo) - (k + 1)
  BY <1>1, <1>2, <1>3
<1>6. \A i \in 1..Len(rest) : rest[i] = t.todo[k + 1 + i]
  <2>1. SUFFICES ASSUME NEW i \in 1..Len(rest) PROVE rest[i] = t.todo[k + 1 + i]
    OBVIOUS
  <2>2. i + 1 \in 1..Len(now.todo) /\ k + (i + 1) = k + 1 + i
    BY <1>1, <1>2, <1>3
  <2>3. QED
    BY <1>1, <1>3, <2>2
<1>7. locks \cup {Head(now.todo)} = {t.todo[i] : i \in 1..(k + 1)}
  <2>1. 1..(k + 1) = (1..k) \cup {k + 1}
    BY <1>2
  <2>2. QED
    BY <1>1, <1>4, <2>1
<1>8. next.kind = t.kind /\ next.about = t.about /\ next.todo = rest
  BY <1>1 DEF T
<1>9. next = T(t.kind, t.about, next.todo)
  BY <1>1, <1>8
<1> HIDE DEF next
<1>10. IsAt(next, locks \cup {Head(now.todo)}, t, k + 1)
  BY <1>3, <1>5, <1>6, <1>7, <1>8, <1>9 DEF IsAt
<1>11. QED
  BY <1>5, <1>10 DEF next, rest

(* A refund that finds the credit spent goes on in the plan of a shortfall.*)
LEMMA ShortfallAt ==
    ASSUME NEW o \in Orders, NEW t \in Refunds(o), NEW k \in 0..Len(t.todo),
           NEW now, NEW locks, IsAt(now, locks, t, k), Len(now.todo) \in Nat \ {0},
           Head(now.todo) = update("wallet", Own)
    PROVE  Progress(T("shortfall", now.about, credentials \o Tail(now.todo)),
                    locks \cup {Head(now.todo)})
<1> DEFINE rest == Tail(now.todo)
           more == credentials \o rest
           next == T("shortfall", now.about, more)
<1>1. /\ t.about = o /\ Len(t.todo) = 4 /\ t.todo \in Seq(Locks)
      /\ t.todo[3] = update("wallet", Own) /\ t.todo[4] = update("refund", o)
      /\ \/ t.todo[1] = update("order", o) /\ t.todo[2] = UserRow
         \/ t.todo[1] = UserRow /\ t.todo[2] = update("order", o)
  <2>1. t.about = o /\ (t.todo = webhook_refund(o) \/ t.todo = apply_refund(o))
    BY DEF Refunds, T
  <2>2. WellMade(t)
    BY WebhookRefundMade, ApplyRefundMade DEF Refunds
  <2>3. t.todo \in Seq(Locks)
    BY <2>2 DEF WellMade
  <2>4. CASE t.todo = webhook_refund(o)
    <3>1. t.todo = <<update("order", o), UserRow, update("wallet", Own), update("refund", o)>>
      BY <2>4 DEF webhook_refund, UserRow
    <3>2. /\ Len(t.todo) = 4 /\ t.todo[1] = update("order", o) /\ t.todo[2] = UserRow
          /\ t.todo[3] = update("wallet", Own) /\ t.todo[4] = update("refund", o)
      BY <3>1
    <3>3. QED
      BY <2>1, <2>3, <3>2
  <2>5. CASE t.todo = apply_refund(o)
    <3>1. t.todo = <<UserRow, update("order", o), update("wallet", Own), update("refund", o)>>
      BY <2>5 DEF apply_refund, UserRow
    <3>2. /\ Len(t.todo) = 4 /\ t.todo[1] = UserRow /\ t.todo[2] = update("order", o)
          /\ t.todo[3] = update("wallet", Own) /\ t.todo[4] = update("refund", o)
      BY <3>1
    <3>3. QED
      BY <2>1, <2>3, <3>2
  <2>6. QED
    BY <2>1, <2>4, <2>5
<1>2. /\ now.about = o /\ now.todo \in Seq(Locks) /\ Len(now.todo) = 4 - k
      /\ \A i \in 1..Len(now.todo) : now.todo[i] = t.todo[k + i]
      /\ locks = {t.todo[i] : i \in 1..k}
  BY <1>1 DEF IsAt, T
<1>3. k = 2
  <2>1. k \in Nat /\ k + 1 \in 1..4 /\ t.todo[k + 1] = update("wallet", Own)
    BY <1>1, <1>2
  <2>2. /\ Table(t.todo[1]) # "wallet" /\ Table(t.todo[2]) # "wallet"
        /\ Table(t.todo[4]) # "wallet" /\ Table(update("wallet", Own)) = "wallet"
    BY <1>1, LockFacts
  <2>3. k = 0 \/ k = 1 \/ k = 2 \/ k = 3
    BY <2>1
  <2>4. QED
    BY <2>1, <2>2, <2>3
<1>4. /\ rest \in Seq(Locks) /\ Len(rest) = 1 /\ rest[1] = update("refund", o)
  BY <1>1, <1>2, <1>3
<1>5. credentials \in Seq(Locks) /\ Len(credentials) = 4
  <2>1. /\ write("key", Own) \in Locks /\ write("session", Own) \in Locks
        /\ write("verification", Own) \in Locks /\ write("password_reset", Own) \in Locks
    BY LockFacts DEF Tables, Credential
  <2>2. QED
    BY <2>1 DEF credentials
<1>6. /\ credentials[1] = write("key", Own) /\ credentials[2] = write("session", Own)
      /\ credentials[3] = write("verification", Own)
      /\ credentials[4] = write("password_reset", Own)
  BY DEF credentials
<1> HIDE DEF rest
<1>7. /\ more \in Seq(Locks) /\ Len(more) = 5
      /\ \A i \in 1..5 : more[i] = IF i <= 4 THEN credentials[i] ELSE rest[i - 4]
  <2> HIDE DEF more
  <2>1. /\ more \in Seq(Locks) /\ Len(more) = Len(credentials) + Len(rest)
        /\ \A i \in 1..(Len(credentials) + Len(rest)) : more[i] =
              IF i <= Len(credentials) THEN credentials[i] ELSE rest[i - Len(credentials)]
    BY <1>4, <1>5, ConcatProperties DEF more
  <2>2. QED
    BY <1>4, <1>5, <2>1
<1> HIDE DEF more
<1>8. /\ more[1] = write("key", Own) /\ more[2] = write("session", Own)
      /\ more[3] = write("verification", Own) /\ more[4] = write("password_reset", Own)
      /\ more[5] = update("refund", o)
  BY <1>4, <1>6, <1>7
<1>9. PICK p \in Shortfalls(o) :
         /\ p.kind = "shortfall" /\ p.about = o /\ Len(p.todo) = 8
         /\ p.todo[1] = t.todo[1] /\ p.todo[2] = t.todo[2] /\ p.todo[3] = t.todo[3]
         /\ p.todo[4] = more[1] /\ p.todo[5] = more[2] /\ p.todo[6] = more[3]
         /\ p.todo[7] = more[4] /\ p.todo[8] = more[5]
  <2>1. CASE t.todo[1] = update("order", o) /\ t.todo[2] = UserRow
    <3> DEFINE p == T("shortfall", o, webhook_shortfall(o))
    <3>1. p.kind = "shortfall" /\ p.about = o /\ p.todo = webhook_shortfall(o)
      BY DEF T
    <3>2. p \in Shortfalls(o)
      BY DEF Shortfalls
    <3> HIDE DEF p
    <3>3. p.todo =
             <<update("order", o), UserRow, update("wallet", Own), write("key", Own),
               write("session", Own), write("verification", Own),
               write("password_reset", Own), update("refund", o)>>
      BY <3>1 DEF webhook_shortfall, UserRow
    <3>4. /\ Len(p.todo) = 8 /\ p.todo[1] = update("order", o) /\ p.todo[2] = UserRow
          /\ p.todo[3] = update("wallet", Own) /\ p.todo[4] = write("key", Own)
          /\ p.todo[5] = write("session", Own) /\ p.todo[6] = write("verification", Own)
          /\ p.todo[7] = write("password_reset", Own) /\ p.todo[8] = update("refund", o)
      BY <3>3
    <3>5. QED
      BY <1>1, <1>8, <2>1, <3>1, <3>2, <3>4
  <2>2. CASE t.todo[1] = UserRow /\ t.todo[2] = update("order", o)
    <3> DEFINE p == T("shortfall", o, apply_shortfall(o))
    <3>1. p.kind = "shortfall" /\ p.about = o /\ p.todo = apply_shortfall(o)
      BY DEF T
    <3>2. p \in Shortfalls(o)
      BY DEF Shortfalls
    <3> HIDE DEF p
    <3>3. p.todo =
             <<UserRow, update("order", o), update("wallet", Own), write("key", Own),
               write("session", Own), write("verification", Own),
               write("password_reset", Own), update("refund", o)>>
      BY <3>1 DEF apply_shortfall, UserRow
    <3>4. /\ Len(p.todo) = 8 /\ p.todo[1] = UserRow /\ p.todo[2] = update("order", o)
          /\ p.todo[3] = update("wallet", Own) /\ p.todo[4] = write("key", Own)
          /\ p.todo[5] = write("session", Own) /\ p.todo[6] = write("verification", Own)
          /\ p.todo[7] = write("password_reset", Own) /\ p.todo[8] = update("refund", o)
      BY <3>3
    <3>5. QED
      BY <1>1, <1>8, <2>2, <3>1, <3>2, <3>4
  <2>3. QED
    BY <1>1, <2>1, <2>2
<1>10. locks \cup {Head(now.todo)} = {p.todo[i] : i \in 1..3}
  <2>1. locks = {t.todo[1], t.todo[2]}
    BY <1>2, <1>3
  <2>2. {p.todo[i] : i \in 1..3} = {p.todo[1], p.todo[2], p.todo[3]}
    OBVIOUS
  <2>3. QED
    BY <1>1, <1>9, <2>1, <2>2
<1>11. \A i \in 1..5 : more[i] = p.todo[3 + i]
  <2>1. SUFFICES ASSUME NEW i \in 1..5 PROVE more[i] = p.todo[3 + i]
    OBVIOUS
  <2>2. i = 1 \/ i = 2 \/ i = 3 \/ i = 4 \/ i = 5
    OBVIOUS
  <2>3. QED
    BY <1>9, <2>2
<1>12. next.todo = more /\ next = T(p.kind, p.about, next.todo)
  BY <1>2, <1>9 DEF T
<1> HIDE DEF next
<1>13. IsAt(next, locks \cup {Head(now.todo)}, p, 3)
  <2>1. next.todo \in Seq(Locks) /\ Len(next.todo) = 5
    BY <1>7, <1>12
  <2>2. Len(next.todo) = Len(p.todo) - 3
    BY <1>9, <2>1
  <2>3. \A i \in 1..Len(next.todo) : next.todo[i] = p.todo[3 + i]
    BY <1>11, <1>12, <2>1
  <2>4. QED
    BY <1>10, <1>12, <2>1, <2>2, <2>3 DEF IsAt
<1>14. p \in Planned /\ 3 \in 0..Len(p.todo)
  BY <1>9 DEF Planned
<1>15. Progress(next, locks \cup {Head(now.todo)})
  BY <1>13, <1>14 DEF Progress
<1>16. QED
  BY <1>15 DEF next, more, rest

-----------------------------------------------------------------------------
(* Where a transaction is, whatever it waits for.                          *)
LEMMA ProgressRecord ==
    ASSUME NEW now, NEW locks, Progress(now, locks)
    PROVE  now \in Record
<1>1. CASE HasEnded(now)
  BY <1>1 DEF HasEnded, Record, T, Kinds
<1>2. CASE ~HasEnded(now)
  <2>1. PICK t \in Planned : \E k \in 0..Len(t.todo) : IsAt(now, locks, t, k)
    BY <1>2 DEF Progress
  <2>2. /\ now = T(t.kind, t.about, now.todo) /\ now.todo \in Seq(Locks)
        /\ t.kind \in Kinds /\ t.about \in {Own} \cup Orders
    BY <2>1, PlansAreWellMade DEF IsAt, WellMade
  <2>3. QED
    BY <2>2 DEF Record, T
<1>3. QED
  BY <1>1, <1>2

(* The plan that a transaction which has not ended follows.                *)
LEMMA PlanOf ==
    ASSUME ProgressInv, NEW w \in Workers, txn[w].kind # "ended"
    PROVE  \E t \in Planned : \E k \in 0..Len(t.todo) :
              /\ WellMade(t) /\ IsAt(txn[w], held[w], t, k)
              /\ txn[w].kind = t.kind /\ txn[w].about = t.about
<1>1. ~HasEnded(txn[w])
  <2>1. ASSUME NEW about \in Orders, txn[w] = T("ended", about, <<>>) PROVE FALSE
    BY <2>1 DEF T
  <2>2. QED
    BY <2>1 DEF HasEnded
<1>2. PICK t \in Planned : \E k \in 0..Len(t.todo) : IsAt(txn[w], held[w], t, k)
  BY <1>1 DEF ProgressInv, Progress
<1>3. PICK k \in 0..Len(t.todo) : IsAt(txn[w], held[w], t, k)
  BY <1>2
<1>4. WellMade(t) /\ txn[w].kind = t.kind /\ txn[w].about = t.about
  BY <1>3, PlansAreWellMade DEF IsAt, T
<1>5. QED
  BY <1>3, <1>4

(* Payment transactions are about one of the orders.                       *)
LEMMA AboutAnOrder ==
    ASSUME ProgressInv, NEW w \in Workers,
           txn[w].kind \in {"refund", "shortfall", "disposition", "order"}
    PROVE  txn[w].about \in Orders
<1>1. PICK t \in Planned : \E k \in 0..Len(t.todo) :
         /\ WellMade(t) /\ IsAt(txn[w], held[w], t, k)
         /\ txn[w].kind = t.kind /\ txn[w].about = t.about
  BY PlanOf
<1>2. QED
  BY <1>1 DEF WellMade

(* A disposition has the refund for update.                                *)
LEMMA DispositionLocks ==
    ASSUME ProgressInv, NEW w \in Workers, txn[w].kind = "disposition",
           NEW lock \in held[w], Table(lock) = "refund"
    PROVE  lock[1] = "update"
<1>1. PICK t \in Planned : \E k \in 0..Len(t.todo) :
         /\ WellMade(t) /\ IsAt(txn[w], held[w], t, k)
         /\ txn[w].kind = t.kind /\ txn[w].about = t.about
  BY PlanOf
<1>2. PICK k \in 0..Len(t.todo) : IsAt(txn[w], held[w], t, k)
  BY <1>1
<1>3. PICK i \in 1..k : lock = t.todo[i]
  BY <1>2 DEF IsAt
<1>4. i \in DOMAIN t.todo
  BY <1>1 DEF WellMade
<1>5. lock = update("refund", t.about)
  BY <1>1, <1>3, <1>4 DEF WellMade, OfItsKind
<1>6. QED
  BY <1>5 DEF update

(* What decides over a refund has, when it commits, the rows of the order  *)
(* and of the refund.                                                      *)
LEMMA DecidedUnderLock ==
    ASSUME ProgressInv, NEW w \in Workers, ~Waiting(w),
           txn[w].kind \in {"refund", "shortfall", "disposition"}
    PROVE  /\ update("order", txn[w].about) \in held[w]
           /\ Locked(held[w], Row("refund", txn[w].about))
<1>1. PICK t \in Planned : \E k \in 0..Len(t.todo) :
         /\ WellMade(t) /\ IsAt(txn[w], held[w], t, k)
         /\ txn[w].kind = t.kind /\ txn[w].about = t.about
  BY PlanOf
<1>2. PICK k \in 0..Len(t.todo) : IsAt(txn[w], held[w], t, k)
  BY <1>1
<1>3. t.todo \in Seq(Locks) /\ Len(txn[w].todo) = 0 /\ Len(txn[w].todo) = Len(t.todo) - k
  BY <1>1, <1>2 DEF IsAt, Waiting, WellMade
<1>4. k = Len(t.todo) /\ DOMAIN t.todo = 1..Len(t.todo)
  BY <1>3
<1>5. held[w] = {t.todo[i] : i \in DOMAIN t.todo}
  BY <1>2, <1>4 DEF IsAt
<1>6. PICK i \in DOMAIN t.todo, j \in DOMAIN t.todo :
         t.todo[i] = update("order", t.about) /\ t.todo[j][2] = Row("refund", t.about)
  BY <1>1 DEF WellMade
<1>7. QED
  BY <1>1, <1>5, <1>6 DEF Locked

(* The plans of the refunds.                                               *)
LEMMA RefundPlans ==
    \A t \in Planned : t.kind = "refund" => \E o \in Orders : t \in Refunds(o)
<1>1. \A t \in Others : t.kind = "other"
  BY DEF Others, T
<1>2. \A t \in Sweeps : t.kind = "sweep"
  BY DEF Sweeps, T
<1>3. \A o \in Orders : \A t \in AboutOrder(o) : t.kind = "order"
  BY DEF AboutOrder, T
<1>4. \A o \in Orders : \A t \in Shortfalls(o) : t.kind = "shortfall"
  BY DEF Shortfalls, T
<1>5. \A o \in Orders : Disposition(o).kind = "disposition"
  BY DEF Disposition, T
<1>6. Idle.kind = "idle" /\ Admission.kind = "admission"
  BY DEF Idle, Admission, T
<1>7. QED
  BY <1>1, <1>2, <1>3, <1>4, <1>5, <1>6 DEF Planned, Transactions

(* One transaction moves, the others stay where they are.                  *)
LEMMA OneMoves ==
    ASSUME ProgressInv, NEW w \in Workers, NEW n, NEW locks \in SUBSET Locks,
           Progress(n, locks), txn' = [txn EXCEPT ![w] = n],
           held' = [held EXCEPT ![w] = locks],
           refunded' \in [Orders -> {"no", "yes", "at_risk"}]
    PROVE  /\ ProgressInv'
           /\ txn'[w] = n /\ held'[w] = locks
           /\ \A v \in Workers : v # w => txn'[v] = txn[v] /\ held'[v] = held[v]
<1>1. /\ txn'[w] = n /\ held'[w] = locks
      /\ \A v \in Workers : v # w => txn'[v] = txn[v] /\ held'[v] = held[v]
  BY DEF ProgressInv
<1>2. txn' \in [Workers -> Record] /\ held' \in [Workers -> SUBSET Locks]
  BY ProgressRecord DEF ProgressInv, Record
<1>3. \A v \in Workers : Progress(txn'[v], held'[v])
  BY <1>1 DEF ProgressInv
<1>4. QED
  BY <1>1, <1>2, <1>3 DEF ProgressInv, Record

(* What acquire makes of a transaction's record.                           *)
LEMMA Shorter ==
    ASSUME NEW now \in Record, NEW rest
    PROVE  [now EXCEPT !.todo = rest] = T(now.kind, now.about, rest)
  BY DEF Record, T

(* The same when the account is frozen on the way.                         *)
LEMMA Frozen ==
    ASSUME NEW now \in Record, NEW more
    PROVE  [now EXCEPT !.kind = "shortfall", !.todo = more] =
              T("shortfall", now.about, more)
<1> DEFINE frozen == [now EXCEPT !.kind = "shortfall", !.todo = more]
<1>1. /\ DOMAIN frozen = {"kind", "about", "todo"}
      /\ frozen.kind = "shortfall" /\ frozen.about = now.about /\ frozen.todo = more
  BY DEF Record
<1>2. frozen = [x \in DOMAIN frozen |-> frozen[x]]
  OBVIOUS
<1> HIDE DEF frozen
<1>3. frozen = T("shortfall", now.about, more)
  BY <1>1, <1>2 DEF T
<1>4. QED
  BY <1>3 DEF frozen

-----------------------------------------------------------------------------
(* acquire: nobody else has a conflicting lock, and what the row tells     *)
(* decides whether the transaction goes on.                                *)
LEMMA AcquireStep ==
    ASSUME LocksInv, NEW w \in Workers, acquire(w)
    PROVE  LocksInv'
<1> USE DEF LocksInv
<1> DEFINE t == txn[w]
           lock == Head(t.todo)
           locks == held[w] \cup {lock}
           goes_on == T(t.kind, t.about, Tail(t.todo))
           ended == T("ended", t.about, <<>>)
           shortfall == T("shortfall", t.about, credentials \o Tail(t.todo))
<1>1. /\ Waiting(w) /\ WaitsFor(w) = {} /\ refunded' = refunded
      /\ held' = [held EXCEPT ![w] = locks]
  BY DEF acquire
<1>2. t \in Record /\ held[w] \in SUBSET Locks
  BY DEF ProgressInv, Record
<1>3. lock \in Locks /\ locks \in SUBSET Locks
  BY <1>1, <1>2, NextLock
<1>4. PICK p \in Planned : \E k \in 0..Len(p.todo) :
         /\ WellMade(p) /\ IsAt(t, held[w], p, k) /\ Len(t.todo) \in Nat \ {0}
  BY <1>1, WaitsAt
<1>5. PICK k \in 0..Len(p.todo) :
         /\ WellMade(p) /\ IsAt(t, held[w], p, k) /\ Len(t.todo) \in Nat \ {0}
  BY <1>4
<1>6. t.kind = p.kind /\ t.about = p.about /\ p.todo \in Seq(Locks)
  BY <1>5 DEF IsAt, T, WellMade
<1>7. [t EXCEPT !.todo = Tail(@)] = goes_on
  BY <1>2, Shorter
<1>8. Progress(goes_on, locks)
  <2>1. k + 1 \in 0..Len(p.todo) /\ IsAt(goes_on, locks, p, k + 1)
    BY <1>5, <1>6, NextAt
  <2>2. QED
    BY <2>1 DEF Progress
<1>9. [goes_on EXCEPT !.kind = "shortfall", !.todo = credentials \o @] = shortfall
  <2>1. goes_on.todo = Tail(t.todo) /\ goes_on.about = t.about
    BY DEF T
  <2>2. goes_on \in Record
    BY <1>8, ProgressRecord
  <2>3. [goes_on EXCEPT !.kind = "shortfall", !.todo = credentials \o Tail(t.todo)] =
           T("shortfall", goes_on.about, credentials \o Tail(t.todo))
    BY <2>2, Frozen
  <2>4. QED
    BY <2>1, <2>3
<1>10. \/ ~ends_here(t, lock) /\ txn' = [txn EXCEPT ![w] = goes_on]
       \/ ends_here(t, lock) /\ txn' = [txn EXCEPT ![w] = ended]
       \/ finds_shortfall(t, lock) /\ txn' = [txn EXCEPT ![w] = shortfall]
  <2> HIDE DEF goes_on, shortfall
  <2>1. QED
    BY <1>7, <1>9 DEF acquire
<1>11. ASSUME ends_here(t, lock)
       PROVE  Progress(ended, locks)
  <2>1. t.about \in Orders
    BY <1>5, <1>6, <1>11 DEF ends_here, WellMade
  <2>2. QED
    BY <2>1 DEF Progress, HasEnded
<1>12. ASSUME finds_shortfall(t, lock)
       PROVE  Progress(shortfall, locks)
  <2>1. PICK o \in Orders : p \in Refunds(o)
    BY <1>6, <1>12, RefundPlans DEF finds_shortfall
  <2>2. QED
    BY <1>5, <1>12, <2>1, ShortfallAt DEF finds_shortfall
<1>13. PICK n :
         /\ txn' = [txn EXCEPT ![w] = n] /\ Progress(n, locks)
         /\ \/ n = goes_on /\ ~ends_here(t, lock)
            \/ n = ended
            \/ n = shortfall /\ finds_shortfall(t, lock)
  BY <1>8, <1>10, <1>11, <1>12
<1> HIDE DEF goes_on, ended, shortfall
<1>14. refunded' \in [Orders -> {"no", "yes", "at_risk"}]
  BY <1>1 DEF ProgressInv
<1>15. /\ ProgressInv'
       /\ txn'[w] = n /\ held'[w] = locks
       /\ \A v \in Workers : v # w => txn'[v] = txn[v] /\ held'[v] = held[v]
  <2> HIDE DEF locks, LocksInv
  <2>1. ProgressInv
    BY DEF LocksInv
  <2>2. QED
    BY <1>1, <1>3, <1>13, <1>14, <2>1, OneMoves
<1>16. /\ goes_on.kind = t.kind /\ goes_on.about = t.about
       /\ ended.kind = "ended"
       /\ shortfall.kind = "shortfall" /\ shortfall.about = t.about
  BY DEF goes_on, ended, shortfall, T
<1>17. \A v \in Workers : v # w =>
          \A m \in held[v] : lock[2] = m[2] =>
             ~conflicts(lock[1], m[1]) /\ ~conflicts(m[1], lock[1])
  BY <1>1 DEF WaitsFor, conflicts
<1> HIDE DEF lock, t
<1>18. ExclusionInv'
  <2>1. ASSUME NEW u \in Workers, NEW v \in Workers, u # v,
               NEW l \in held'[u], NEW m \in held'[v], l[2] = m[2]
        PROVE  ~conflicts(l[1], m[1])
    <3>1. CASE u # w /\ v # w
      BY <1>15, <2>1, <3>1 DEF ExclusionInv
    <3>2. CASE u = w
      BY <1>15, <1>17, <2>1, <3>2 DEF ExclusionInv
    <3>3. CASE v = w
      BY <1>15, <1>17, <2>1, <3>3 DEF ExclusionInv
    <3>4. QED
      BY <3>1, <3>2, <3>3
  <2>2. ASSUME NEW v \in Workers, txn'[v].kind = "sweep"
        PROVE  txn[v].kind = "sweep"
    BY <1>13, <1>15, <1>16, <2>2 DEF t
  <2>3. QED
    BY <2>1, <2>2 DEF ExclusionInv
<1>19. ReadInv'
  <2>1. ASSUME NEW row, Locked(locks, row)
        PROVE  Locked(held[w], row) \/ lock[2] = row
    BY <2>1 DEF Locked
  <2>2. ReadsHold(t, held[w], refunded)
    BY DEF ReadInv, t
  <2>3. ASSUME n.kind \in {"order", "refund", "shortfall"},
               Locked(locks, Row("order", n.about))
        PROVE  refunded[n.about] = "no"
    <3>1. n.about = t.about /\ t.kind \in {"order", "refund", "shortfall"}
      BY <1>13, <1>16, <2>3 DEF finds_shortfall
    <3>2. t.about \in Orders
      BY <3>1, AboutAnOrder DEF t
    <3>3. CASE Locked(held[w], Row("order", t.about))
      BY <2>2, <3>1, <3>3 DEF ReadsHold
    <3>4. CASE lock[2] = Row("order", t.about)
      <4>1. lock # update("wallet", Own)
        BY <3>4 DEF update, Row
      <4>2. ~ends_here(t, lock)
        BY <1>13, <1>16, <2>3, <4>1 DEF finds_shortfall
      <4>3. QED
        BY <3>1, <3>2, <3>4, <4>2 DEF ends_here
    <3>5. QED
      BY <2>1, <2>3, <3>1, <3>3, <3>4
  <2>4. ASSUME n.kind = "disposition", Locked(locks, Row("refund", n.about))
        PROVE  refunded[n.about] = "at_risk"
    <3>1. n.about = t.about /\ t.kind = "disposition" /\ ~ends_here(t, lock)
      BY <1>13, <1>16, <2>4
    <3>2. CASE Locked(held[w], Row("refund", t.about))
      BY <2>2, <3>1, <3>2 DEF ReadsHold
    <3>3. CASE lock[2] = Row("refund", t.about)
      BY <3>1, <3>3 DEF ends_here
    <3>4. QED
      BY <2>1, <2>4, <3>1, <3>2, <3>3
  <2>5. ReadsHold(n, locks, refunded)
    BY <2>3, <2>4 DEF ReadsHold
  <2>6. \A v \in Workers : ReadsHold(txn'[v], held'[v], refunded')
    BY <1>1, <1>15, <2>5 DEF ReadInv
  <2>7. QED
    BY <2>6 DEF ReadInv
<1>20. QED
  BY <1>15, <1>18, <1>19

(* Committed or aborted, a transaction has no locks.                       *)
LEMMA EndStep ==
    ASSUME LocksInv, NEW w \in Workers, Ends(w),
           refunded' \in [Orders -> {"no", "yes", "at_risk"}]
    PROVE  /\ ProgressInv' /\ ExclusionInv'
           /\ txn'[w] = Idle /\ Idle.kind = "idle"
           /\ \A v \in Workers : v # w => txn'[v] = txn[v] /\ held'[v] = held[v]
<1>1. ProgressInv /\ ExclusionInv
  BY DEF LocksInv
<1>2. txn' = [txn EXCEPT ![w] = Idle] /\ held' = [held EXCEPT ![w] = {}]
  BY DEF Ends
<1>3. Progress(Idle, {})
  BY BeginsAt DEF Planned
<1>4. /\ ProgressInv' /\ txn'[w] = Idle /\ held'[w] = {}
      /\ \A v \in Workers : v # w => txn'[v] = txn[v] /\ held'[v] = held[v]
  <2>1. /\ txn'[w] = Idle /\ held'[w] = {}
        /\ \A v \in Workers : v # w => txn'[v] = txn[v] /\ held'[v] = held[v]
    BY <1>1, <1>2 DEF ProgressInv
  <2>2. txn' \in [Workers -> Record] /\ held' \in [Workers -> SUBSET Locks]
    BY <1>1, <1>2, <1>3, ProgressRecord DEF ProgressInv
  <2>3. \A v \in Workers : Progress(txn'[v], held'[v])
    BY <1>1, <1>3, <2>1 DEF ProgressInv
  <2>4. QED
    BY <2>1, <2>2, <2>3 DEF ProgressInv
<1>5. Idle.kind = "idle"
  BY DEF Idle, T
<1>6. ExclusionInv'
  BY <1>1, <1>4, <1>5 DEF ExclusionInv
<1>7. QED
  BY <1>4, <1>5, <1>6

(* commit: what it changes of a refund nobody else can have read, since it *)
(* has the rows of the order and of the refund.                            *)
LEMMA CommitStep ==
    ASSUME LocksInv, NEW w \in Workers, commit(w)
    PROVE  LocksInv'
<1> DEFINE Decides(o) ==
              txn[w].about = o /\ txn[w].kind \in {"refund", "shortfall", "disposition"}
<1>1. ProgressInv /\ ExclusionInv /\ ReadInv
  BY DEF LocksInv
<1>2. ~Waiting(w) /\ Ends(w)
  BY DEF commit
<1>3. /\ refunded' \in [Orders -> {"no", "yes", "at_risk"}]
      /\ \A o \in Orders : ~Decides(o) => refunded'[o] = refunded[o]
  BY <1>1 DEF commit, ProgressInv
<1>4. /\ ProgressInv' /\ ExclusionInv'
      /\ txn'[w] = Idle /\ Idle.kind = "idle"
      /\ \A v \in Workers : v # w => txn'[v] = txn[v] /\ held'[v] = held[v]
  BY <1>2, <1>3, EndStep
<1>5. ASSUME NEW v \in Workers, v # w, NEW o \in Orders, Locked(held[v], Row("order", o))
      PROVE  ~Decides(o)
  <2>1. SUFFICES ASSUME Decides(o) PROVE FALSE
    OBVIOUS
  <2>2. update("order", o) \in held[w]
    BY <1>1, <1>2, <2>1, DecidedUnderLock
  <2>3. PICK l \in held[v] : l[2] = Row("order", o)
    BY <1>5 DEF Locked
  <2>4. QED
    BY <1>1, <1>5, <2>2, <2>3 DEF ExclusionInv, conflicts, update
<1>6. ASSUME NEW v \in Workers, v # w, txn[v].kind = "disposition", NEW o \in Orders,
             Locked(held[v], Row("refund", o))
      PROVE  ~Decides(o)
  <2>1. SUFFICES ASSUME Decides(o) PROVE FALSE
    OBVIOUS
  <2>2. PICK m \in held[w] : m[2] = Row("refund", o)
    BY <1>1, <1>2, <2>1, DecidedUnderLock DEF Locked
  <2>3. PICK l \in held[v] : l[2] = Row("refund", o)
    BY <1>6 DEF Locked
  <2>4. l[1] = "update"
    BY <1>1, <1>6, <2>3, DispositionLocks DEF Table, Row
  <2>5. QED
    BY <1>1, <1>6, <2>2, <2>3, <2>4 DEF ExclusionInv, conflicts
<1> HIDE DEF Decides
<1>7. ASSUME NEW v \in Workers, v # w
      PROVE  ReadsHold(txn[v], held[v], refunded')
  <2>1. ReadsHold(txn[v], held[v], refunded)
    BY <1>1 DEF ReadInv
  <2>2. ASSUME txn[v].kind \in {"order", "refund", "shortfall"},
               Locked(held[v], Row("order", txn[v].about))
        PROVE  refunded'[txn[v].about] = "no"
    <3>1. txn[v].about \in Orders
      BY <1>1, <2>2, AboutAnOrder
    <3>2. refunded'[txn[v].about] = refunded[txn[v].about]
      BY <1>3, <1>5, <1>7, <2>2, <3>1
    <3>3. QED
      BY <2>1, <2>2, <3>2 DEF ReadsHold
  <2>3. ASSUME txn[v].kind = "disposition",
               Locked(held[v], Row("refund", txn[v].about))
        PROVE  refunded'[txn[v].about] = "at_risk"
    <3>1. txn[v].about \in Orders
      BY <1>1, <2>3, AboutAnOrder
    <3>2. refunded'[txn[v].about] = refunded[txn[v].about]
      BY <1>3, <1>6, <1>7, <2>3, <3>1
    <3>3. QED
      BY <2>1, <2>3, <3>2 DEF ReadsHold
  <2>4. QED
    BY <2>2, <2>3 DEF ReadsHold
<1>8. ReadsHold(txn'[w], held'[w], refunded')
  BY <1>4 DEF ReadsHold
<1>9. \A v \in Workers : ReadsHold(txn'[v], held'[v], refunded')
  BY <1>4, <1>7, <1>8
<1>10. ReadInv'
  BY <1>9 DEF ReadInv
<1>11. QED
  BY <1>4, <1>10 DEF LocksInv

(* abort: the locks are released and nothing is changed.                   *)
LEMMA AbortStep ==
    ASSUME LocksInv, NEW w \in Workers, abort(w)
    PROVE  LocksInv'
<1>1. ProgressInv /\ ReadInv
  BY DEF LocksInv
<1>2. Ends(w) /\ refunded' = refunded
  BY DEF abort
<1>3. refunded' \in [Orders -> {"no", "yes", "at_risk"}]
  BY <1>1, <1>2 DEF ProgressInv
<1>4. /\ ProgressInv' /\ ExclusionInv'
      /\ txn'[w] = Idle /\ Idle.kind = "idle"
      /\ \A v \in Workers : v # w => txn'[v] = txn[v] /\ held'[v] = held[v]
  BY <1>2, <1>3, EndStep
<1>5. ReadInv'
  BY <1>1, <1>2, <1>4 DEF ReadInv, ReadsHold
<1>6. QED
  BY <1>4, <1>5 DEF LocksInv

(* At the start all workers are idle.                                      *)
LEMMA LocksInitially == LocksInit => LocksInv
<1> SUFFICES ASSUME LocksInit PROVE LocksInv
  OBVIOUS
<1>1. /\ \A w \in Workers : txn[w] = Idle /\ held[w] = {}
      /\ refunded \in [Orders -> {"no", "yes", "at_risk"}]
      /\ Idle.kind = "idle"
  BY DEF LocksInit, Idle, T
<1>2. Progress(Idle, {}) /\ Idle \in Record
  BY BeginsAt, ProgressRecord DEF Planned
<1>3. ProgressInv
  BY <1>1, <1>2 DEF ProgressInv, LocksInit, Record
<1>4. ExclusionInv /\ ReadInv
  BY <1>1 DEF ExclusionInv, ReadInv, ReadsHold
<1>5. QED
  BY <1>3, <1>4 DEF LocksInv

(* Every step keeps the invariant.                                         *)
LEMMA LocksStep == LocksInv /\ [LocksNext]_lockVars => LocksInv'
<1> SUFFICES ASSUME LocksInv, [LocksNext]_lockVars PROVE LocksInv'
  OBVIOUS
<1>1. ASSUME NEW w \in Workers, begin(w) PROVE LocksInv'
  BY <1>1, BeginStep
<1>2. ASSUME NEW w \in Workers, acquire(w) PROVE LocksInv'
  BY <1>2, AcquireStep
<1>3. ASSUME NEW w \in Workers, commit(w) PROVE LocksInv'
  BY <1>3, CommitStep
<1>4. ASSUME NEW w \in Workers, abort(w) PROVE LocksInv'
  BY <1>4, AbortStep
<1>5. CASE UNCHANGED lockVars
  BY <1>5 DEF lockVars, LocksInv, ProgressInv, ExclusionInv, ReadInv
<1>6. QED
  BY <1>1, <1>2, <1>3, <1>4, <1>5 DEF LocksNext

(* The invariant holds in every reachable state.                           *)
LEMMA LocksAlways == LocksSpec => []LocksInv
  BY LocksInitially, LocksStep, PTL DEF LocksSpec

-----------------------------------------------------------------------------
(* What the order of the locks is worth                                    *)

(* apply_refund and the webhook's refund take the user row before the      *)
(* wallet, as reserve_model_request does: whatever else stands between     *)
(* them, a refund and an admission never wait for each other in a circle.  *)
THEOREM RefundsAndAdmissionsDoNotCrossHolds ==
    LocksSpec => []RefundsAndAdmissionsDoNotCross
  BY LocksAlways, RefundsApart, PTL

(* All other rows are locked in one order or under the user row: in every  *)
(* circle of waits, for any number of connections, one waits for the user. *)
THEOREM CirclesPassTheUserRowHolds == LocksSpec => []CirclesPassTheUserRow
  BY LocksAlways, CirclesAtTheUser, PTL

(* recover_stale locks the requests it finds in the order of the scan, one *)
(* sweep at a time under the advisory lock: it is in no circle of waits.   *)
THEOREM SweepIsInNoCircleHolds == LocksSpec => []SweepIsInNoCircle
  BY LocksAlways, SweepWaitsAlone, PTL
=============================================================================
