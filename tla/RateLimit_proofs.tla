--------------------------- MODULE RateLimit_proofs ---------------------------
(***************************************************************************)
(* Proofs about RateLimit: types, that the counters implement the quota,   *)
(* and that an admitted request has been counted everywhere.               *)
(***************************************************************************)
EXTENDS RateLimit, FiniteSetTheorems, TLAPS

(* The minutes no cleanup may touch yet; any request under way has arrived *)
(* in one of them.                                                         *)
Kept(w) == clock <= w + Retention
InFlightIsKept == \A r \in InFlight : Kept(window[r])

(* What a request has been counted for: the subjects it is done with.      *)
DoneWith(r) ==
    {i \in 1..Len(SubjectsOf[r]) :
        at[r] # "idle" /\ (i < subject[r] \/ at[r] = "admitted")}
TakenByTheDone ==
    /\ \A r \in Requests, slot \in Slots :
          r \in taken[slot] =>
             /\ slot[2] = window[r]
             /\ \E i \in DoneWith(r) : slot[1] = SubjectsOf[r][i]
    /\ \A r \in Requests : \A i \in DoneWith(r) :
          r \in taken[<<SubjectsOf[r][i], window[r]>>]

(* As long as its row is kept, a counter says how many have a place.       *)
CountersCount ==
    \A slot \in Slots : Kept(slot[2]) => counter[slot] = Cardinality(taken[slot])

(* A request that goes to the update has seen the row, which is kept.      *)
RowsStay ==
    \A r \in Requests : at[r] = "update" => counter[SlotOf(r)] # 0

IdleIsFirst == \A r \in Requests : at[r] = "idle" => subject[r] = 1

Places ==
    InFlightIsKept /\ TakenByTheDone /\ CountersCount /\ RowsStay /\ IdleIsFirst
RateInv == RateTypeOK /\ Places

-----------------------------------------------------------------------------
(* Types                                                                   *)

LEMMA SlotsTyped ==
    ASSUME RateTypeOK, NEW r \in Requests
    PROVE  /\ SlotOf(r) \in Slots
           /\ SlotOf(r)[1] = SubjectsOf[r][subject[r]]
           /\ SlotOf(r)[2] = window[r]
           /\ subject[r] \in 1..Len(SubjectsOf[r])
           /\ Len(SubjectsOf[r]) \in Nat
<1>1. SubjectsOf[r] \in Seq(Subjects) /\ Len(SubjectsOf[r]) \in Nat
  BY RateLimitAssumption
<1>2. subject[r] \in 1..Len(SubjectsOf[r])
  BY <1>1 DEF RateTypeOK
<1>3. SubjectsOf[r][subject[r]] \in Subjects /\ window[r] \in Windows
  BY <1>1, <1>2 DEF RateTypeOK
<1>4. QED
  BY <1>1, <1>2, <1>3 DEF SlotOf, Slots

LEMMA AddingToOne ==
    ASSUME NEW S, NEW D, NEW f \in [S -> SUBSET D], NEW s \in S, NEW d \in D
    PROVE  [f EXCEPT ![s] = @ \cup {d}] \in [S -> SUBSET D]
OBVIOUS

(* What insert and update have in common: one place more in the slot.      *)
OnePlaceMore(r) ==
    /\ at[r] \in {"insert", "update"}
    /\ counter[SlotOf(r)] < Limit
    /\ counter' = [counter EXCEPT ![SlotOf(r)] = counter[SlotOf(r)] + 1]
    /\ counted(r)

LEMMA CountingSteps ==
    ASSUME RateTypeOK, NEW r \in Requests, insert(r) \/ update(r)
    PROVE  OnePlaceMore(r)
<1>1. Limit \in Nat \ {0}
  BY RateLimitAssumption
<1>2. CASE insert(r)
  BY <1>1, <1>2 DEF insert, OnePlaceMore
<1>3. CASE update(r)
  BY <1>1, <1>3 DEF update, updatable, OnePlaceMore
<1>4. QED
  BY <1>2, <1>3

(* The steps of a request that change nothing but where it is.             *)
Moves(r) ==
    /\ at[r] \in {"select", "insert", "update"}
    /\ \E step \in {"insert", "update", "429", "dead"} :
          /\ at' = [at EXCEPT ![r] = step]
          /\ step = "update" => counter[SlotOf(r)] # 0
    /\ UNCHANGED <<clock, counter, window, subject, taken>>
    /\ \/ UNCHANGED turned
       \/ turned' = [turned EXCEPT ![SlotOf(r)] = @ \cup {r}]

LEMMA MovingSteps ==
    ASSUME NEW r \in Requests,
           select_counter(r) \/ insert_conflicts(r) \/ update_refused(r) \/ die(r)
    PROVE  Moves(r)
<1>1. CASE select_counter(r)
  BY <1>1 DEF select_counter, Moves
<1>2. CASE insert_conflicts(r)
  BY <1>2 DEF insert_conflicts, Moves
<1>3. CASE update_refused(r)
  BY <1>3 DEF update_refused, Moves
<1>4. CASE die(r)
  BY <1>4 DEF die, InFlight, Moves
<1>5. QED
  BY <1>1, <1>2, <1>3, <1>4

LEMMA TypesKept == RateTypeOK /\ [RateNext]_rateVars => RateTypeOK'
<1> SUFFICES ASSUME RateTypeOK, [RateNext]_rateVars PROVE RateTypeOK'
  OBVIOUS
<1>0. Limit \in Nat \ {0} /\ Retention \in Nat \ {0} /\ LastWindow \in Nat
  BY RateLimitAssumption
<1>1. ASSUME NEW r \in Requests, arrive(r) PROVE RateTypeOK'
  BY <1>1 DEF arrive, RateTypeOK
<1>2. ASSUME NEW r \in Requests, Moves(r) PROVE RateTypeOK'
  <2>1. SlotOf(r) \in Slots
    BY SlotsTyped
  <2>2. turned' \in [Slots -> SUBSET Requests]
    <3>1. turned \in [Slots -> SUBSET Requests]
      BY DEF RateTypeOK
    <3>2. [turned EXCEPT ![SlotOf(r)] = @ \cup {r}] \in [Slots -> SUBSET Requests]
      BY <2>1, <3>1, AddingToOne
    <3>3. QED
      BY <1>2, <3>1, <3>2 DEF Moves
  <2>3. QED
    BY <1>2, <2>2 DEF Moves, RateTypeOK
<1>3. ASSUME NEW r \in Requests, OnePlaceMore(r) PROVE RateTypeOK'
  <2>1. SlotOf(r) \in Slots /\ subject[r] \in 1..Len(SubjectsOf[r])
          /\ Len(SubjectsOf[r]) \in Nat
    BY SlotsTyped
  <2>2. counter' \in [Slots -> 0..Limit]
    BY <1>0, <1>3, <2>1 DEF OnePlaceMore, RateTypeOK
  <2>3. taken' \in [Slots -> SUBSET Requests]
    <3>1. taken \in [Slots -> SUBSET Requests]
      BY DEF RateTypeOK
    <3>2. [taken EXCEPT ![SlotOf(r)] = @ \cup {r}] \in [Slots -> SUBSET Requests]
      BY <2>1, <3>1, AddingToOne
    <3>3. QED
      BY <1>3, <3>2 DEF OnePlaceMore, counted
  <2>4. /\ at' \in [Requests -> {"idle", "select", "insert", "update", "admitted", "429", "dead"}]
        /\ subject' \in [Requests -> Nat \ {0}]
        /\ \A q \in Requests : subject'[q] <= Len(SubjectsOf[q])
    <3>1. CASE subject[r] < Len(SubjectsOf[r])
      <4>1. at' = [at EXCEPT ![r] = "select"]
              /\ subject' = [subject EXCEPT ![r] = @ + 1]
        BY <1>3, <3>1 DEF OnePlaceMore, counted
      <4>2. subject[r] + 1 \in Nat \ {0} /\ subject[r] + 1 <= Len(SubjectsOf[r])
        BY <2>1, <3>1
      <4>3. QED
        BY <4>1, <4>2 DEF RateTypeOK
    <3>2. CASE ~(subject[r] < Len(SubjectsOf[r]))
      <4>1. at' = [at EXCEPT ![r] = "admitted"] /\ subject' = subject
        BY <1>3, <3>2 DEF OnePlaceMore, counted
      <4>2. QED
        BY <4>1 DEF RateTypeOK
    <3>3. QED
      BY <3>1, <3>2
  <2>5. QED
    BY <1>3, <2>2, <2>3, <2>4 DEF OnePlaceMore, counted, RateTypeOK
<1>4. ASSUME NEW now \in Windows, cleanup_rate_limit_counters(now) PROVE RateTypeOK'
  BY <1>0, <1>4 DEF cleanup_rate_limit_counters, RateTypeOK
<1>5. CASE tick
  BY <1>0, <1>5 DEF tick, RateTypeOK, Windows
<1>6. CASE UNCHANGED rateVars
  BY <1>6 DEF rateVars, RateTypeOK
<1>7. QED
  BY <1>1, <1>2, <1>3, <1>4, <1>5, <1>6, CountingSteps, MovingSteps DEF RateNext

LEMMA TypesAtStart == RateInit => RateTypeOK
<1> SUFFICES ASSUME RateInit PROVE RateTypeOK
  OBVIOUS
<1>1. Limit \in Nat \ {0} /\ LastWindow \in Nat
  BY RateLimitAssumption
<1>2. \A r \in Requests : 1 <= Len(SubjectsOf[r])
  BY RateLimitAssumption
<1>3. QED
  BY <1>1, <1>2 DEF RateInit, RateTypeOK, Windows

(* No counter passes the limit, no request loses its place in its list of  *)
(* subjects, whatever races (auth.py, both limits).                        *)
THEOREM RateTypeCorrect == RateSpec => []RateTypeOK
<1>1. RateInit => RateTypeOK
  BY TypesAtStart
<1>2. RateTypeOK /\ [RateNext]_rateVars => RateTypeOK'
  BY TypesKept
<1>3. QED
  BY <1>1, <1>2, PTL DEF RateSpec

-----------------------------------------------------------------------------
(* Places                                                                  *)

LEMMA PlacesMove ==
    ASSUME RateInv, NEW r \in Requests, Moves(r)
    PROVE  Places'
<1> USE DEF RateInv, Places
<1>1. \A q \in Requests :
         /\ SlotOf(q)' = SlotOf(q)
         /\ at'[q] \in {"select", "insert", "update"} => at[q] \in {"select", "insert", "update"}
         /\ at'[q] = "idle" <=> at[q] = "idle"
         /\ at'[q] = "admitted" <=> at[q] = "admitted"
         /\ at'[q] = "update" => counter[SlotOf(q)] # 0
  BY DEF Moves, SlotOf, RateTypeOK, RowsStay
<1>2. \A q \in Requests : DoneWith(q)' = DoneWith(q)
  BY <1>1 DEF DoneWith, Moves
<1>3. InFlightIsKept' /\ IdleIsFirst'
  BY <1>1 DEF InFlightIsKept, IdleIsFirst, InFlight, Kept, Moves
<1>4. TakenByTheDone'
  BY <1>2 DEF TakenByTheDone, Moves
<1>5. CountersCount'
  BY DEF CountersCount, Kept, Moves
<1>6. RowsStay'
  BY <1>1 DEF RowsStay, Moves
<1>7. QED
  BY <1>3, <1>4, <1>5, <1>6

LEMMA PlacesArrive ==
    ASSUME RateInv, NEW r \in Requests, arrive(r)
    PROVE  Places'
<1> USE DEF RateInv, Places
<1>0. clock \in Nat /\ Retention \in Nat
  BY RateLimitAssumption DEF RateTypeOK, Windows
<1>1. \A q \in Requests : q # r => at'[q] = at[q] /\ window'[q] = window[q]
  BY DEF arrive, RateTypeOK
<1>2. /\ at[r] = "idle" /\ at'[r] = "select" /\ window'[r] = clock
      /\ UNCHANGED <<clock, counter, subject, taken>>
  BY DEF arrive, RateTypeOK
<1>3. InFlightIsKept' /\ IdleIsFirst'
  BY <1>0, <1>1, <1>2 DEF InFlightIsKept, IdleIsFirst, InFlight, Kept
<1>4. /\ \A slot \in Slots : r \notin taken[slot]
      /\ DoneWith(r)' = {}
  BY <1>2, SlotsTyped DEF TakenByTheDone, IdleIsFirst, DoneWith
<1>5. \A q \in Requests : q # r => DoneWith(q)' = DoneWith(q)
  BY <1>1, <1>2 DEF DoneWith
<1>6. TakenByTheDone'
  BY <1>1, <1>2, <1>4, <1>5 DEF TakenByTheDone
<1>7. CountersCount' /\ RowsStay'
  BY <1>1, <1>2 DEF CountersCount, Kept, RowsStay, SlotOf
<1>8. QED
  BY <1>3, <1>6, <1>7

(* One place more: the request had none in this slot, as the subjects it   *)
(* is counted for are different.                                           *)
LEMMA PlacesCount ==
    ASSUME RateInv, NEW r \in Requests, OnePlaceMore(r)
    PROVE  /\ r \notin taken[SlotOf(r)]
           /\ Kept(SlotOf(r)[2])
           /\ counter[SlotOf(r)] = Cardinality(taken[SlotOf(r)])
           /\ Places'
<1> USE DEF RateInv, Places
<1> DEFINE n == subject[r]
           mine == SlotOf(r)
<1>0. /\ mine \in Slots /\ mine[1] = SubjectsOf[r][n] /\ mine[2] = window[r]
      /\ n \in 1..Len(SubjectsOf[r]) /\ Len(SubjectsOf[r]) \in Nat
      /\ mine = <<SubjectsOf[r][n], window[r]>>
  BY SlotsTyped DEF SlotOf
<1>1. /\ at[r] \in {"insert", "update"}
      /\ counter' = [counter EXCEPT ![mine] = counter[mine] + 1]
      /\ taken' = [taken EXCEPT ![mine] = @ \cup {r}]
      /\ UNCHANGED <<clock, window>>
  BY DEF OnePlaceMore, counted
<1>2. \A q \in Requests : q # r => at'[q] = at[q] /\ subject'[q] = subject[q]
  BY DEF OnePlaceMore, counted, RateTypeOK
<1>3. \/ at'[r] = "select" /\ subject'[r] = n + 1 /\ n < Len(SubjectsOf[r])
      \/ at'[r] = "admitted" /\ subject'[r] = n /\ n = Len(SubjectsOf[r])
  BY <1>0 DEF OnePlaceMore, counted, RateTypeOK
<1>4. r \notin taken[mine]
  <2>1. SUFFICES ASSUME r \in taken[mine] PROVE FALSE
    OBVIOUS
  <2>2. PICK i \in DoneWith(r) : mine[1] = SubjectsOf[r][i]
    BY <1>0, <2>1 DEF TakenByTheDone
  <2>3. i \in 1..Len(SubjectsOf[r]) /\ i < n
    BY <1>1, <2>2 DEF DoneWith
  <2>4. i = n
    BY <1>0, <2>2, <2>3, RateLimitAssumption
  <2>5. QED
    BY <1>0, <2>3, <2>4
<1>5. Kept(mine[2])
  BY <1>0, <1>1 DEF InFlightIsKept, InFlight
<1>6. counter[mine] = Cardinality(taken[mine])
  BY <1>0, <1>5 DEF CountersCount
<1>7. InFlightIsKept' /\ IdleIsFirst'
  BY <1>1, <1>2, <1>3 DEF InFlightIsKept, IdleIsFirst, InFlight, Kept
<1>8. \A q \in Requests : q # r => DoneWith(q)' = DoneWith(q)
  BY <1>2 DEF DoneWith
<1>9. DoneWith(r)' = DoneWith(r) \cup {n}
  BY <1>0, <1>1, <1>3 DEF DoneWith
<1>10. TakenByTheDone'
  <2>1. \A slot \in Slots : taken'[slot] = IF slot = mine THEN taken[slot] \cup {r} ELSE taken[slot]
    BY <1>0, <1>1 DEF RateTypeOK
  <2>2. ASSUME NEW q \in Requests, NEW slot \in Slots, q \in taken'[slot]
        PROVE  slot[2] = window'[q] /\ \E i \in DoneWith(q)' : slot[1] = SubjectsOf[q][i]
    <3>1. CASE q \in taken[slot]
      BY <1>1, <1>8, <1>9, <3>1 DEF TakenByTheDone
    <3>2. CASE q \notin taken[slot]
      <4>1. slot = mine /\ q = r
        BY <2>1, <2>2, <3>2
      <4>2. QED
        BY <1>0, <1>1, <1>9, <4>1
    <3>3. QED
      BY <3>1, <3>2
  <2>3. ASSUME NEW q \in Requests, NEW i \in DoneWith(q)'
        PROVE  q \in taken'[<<SubjectsOf[q][i], window'[q]>>]
    <3>1. i \in 1..Len(SubjectsOf[q])
      BY <2>3 DEF DoneWith
    <3>2. <<SubjectsOf[q][i], window[q]>> \in Slots
      BY <3>1, RateLimitAssumption DEF RateTypeOK, Slots
    <3>3. CASE i \in DoneWith(q)
      BY <1>1, <2>1, <3>2, <3>3 DEF TakenByTheDone
    <3>4. CASE i \notin DoneWith(q)
      <4>1. q = r /\ i = n
        BY <1>8, <1>9, <2>3, <3>4
      <4>2. r \in taken'[mine]
        BY <1>0, <2>1
      <4>3. QED
        BY <1>0, <1>1, <4>1, <4>2
    <3>5. QED
      BY <3>3, <3>4
  <2>4. QED
    BY <2>2, <2>3 DEF TakenByTheDone
<1>11. CountersCount'
  <2>1. SUFFICES ASSUME NEW slot \in Slots, Kept(slot[2])
                 PROVE  counter'[slot] = Cardinality(taken'[slot])
    BY <1>1 DEF CountersCount, Kept
  <2>2. counter[slot] = Cardinality(taken[slot])
    BY <2>1 DEF CountersCount
  <2>3. IsFiniteSet(taken[slot])
    BY RateLimitAssumption, FS_Subset DEF RateTypeOK
  <2>4. CASE slot = mine
    <3>1. Cardinality(taken[mine] \cup {r}) = Cardinality(taken[mine]) + 1
      BY <1>4, <2>3, <2>4, FS_AddElement
    <3>2. counter'[mine] = counter[mine] + 1 /\ taken'[mine] = taken[mine] \cup {r}
      BY <1>0, <1>1 DEF RateTypeOK
    <3>3. QED
      BY <2>2, <2>4, <3>1, <3>2
  <2>5. CASE slot # mine
    BY <1>0, <1>1, <2>2, <2>5 DEF RateTypeOK
  <2>6. QED
    BY <2>4, <2>5
<1>12. RowsStay'
  <2>1. SUFFICES ASSUME NEW q \in Requests, at'[q] = "update"
                 PROVE  counter'[SlotOf(q)'] # 0
    BY DEF RowsStay
  <2>2. q # r /\ at[q] = "update" /\ SlotOf(q)' = SlotOf(q)
    BY <1>1, <1>2, <1>3, <2>1 DEF SlotOf
  <2>3. counter[SlotOf(q)] # 0 /\ SlotOf(q) \in Slots /\ counter[SlotOf(q)] \in Nat
    BY <2>2, SlotsTyped, RateLimitAssumption DEF RowsStay, RateTypeOK
  <2>4. QED
    BY <1>0, <1>1, <2>2, <2>3 DEF RateTypeOK
<1>13. QED
  BY <1>4, <1>5, <1>6, <1>7, <1>10, <1>11, <1>12

(* A cleanup deletes rows of minutes that are not kept any more; a request *)
(* under way has none.                                                     *)
LEMMA PlacesCleanup ==
    ASSUME RateInv, NEW now \in Windows, cleanup_rate_limit_counters(now)
    PROVE  Places'
<1> USE DEF RateInv, Places
<1>1. /\ now <= clock
      /\ counter' = [slot \in Slots |-> IF expired(slot[2], now) THEN 0 ELSE counter[slot]]
      /\ UNCHANGED <<clock, at, window, subject, taken>>
  BY DEF cleanup_rate_limit_counters
<1>2. \A slot \in Slots : Kept(slot[2]) => counter'[slot] = counter[slot]
  <2>1. SUFFICES ASSUME NEW slot \in Slots, Kept(slot[2]) PROVE ~expired(slot[2], now)
    BY <1>1
  <2>2. slot[2] \in Nat /\ now \in Nat /\ clock \in Nat /\ Retention \in Nat
    BY RateLimitAssumption DEF Slots, Windows, RateTypeOK
  <2>3. QED
    BY <1>1, <2>1, <2>2 DEF Kept, expired
<1>3. InFlightIsKept' /\ IdleIsFirst'
  BY <1>1 DEF InFlightIsKept, IdleIsFirst, InFlight, Kept
<1>4. TakenByTheDone'
  BY <1>1 DEF TakenByTheDone, DoneWith
<1>5. CountersCount'
  BY <1>1, <1>2 DEF CountersCount, Kept
<1>6. RowsStay'
  <2>1. SUFFICES ASSUME NEW q \in Requests, at[q] = "update"
                 PROVE  counter'[SlotOf(q)] # 0
    BY <1>1 DEF RowsStay, SlotOf
  <2>2. SlotOf(q) \in Slots /\ Kept(SlotOf(q)[2])
    BY <2>1, SlotsTyped DEF InFlightIsKept, InFlight
  <2>3. QED
    BY <1>2, <2>1, <2>2 DEF RowsStay
<1>7. QED
  BY <1>3, <1>4, <1>5, <1>6

LEMMA PlacesTick ==
    ASSUME RateInv, tick
    PROVE  Places'
<1> USE DEF RateInv, Places
<1>1. /\ clock' = clock + 1
      /\ \A r \in InFlight : clock < window[r] + Retention
      /\ UNCHANGED <<counter, at, window, subject, taken>>
  BY DEF tick
<1>2. clock \in Nat /\ Retention \in Nat
        /\ \A w \in Windows : w \in Nat
  BY RateLimitAssumption DEF RateTypeOK, Windows
<1>3. InFlightIsKept' /\ IdleIsFirst'
  <2>1. \A r \in InFlight : clock + 1 <= window[r] + Retention
    <3>1. SUFFICES ASSUME NEW r \in InFlight PROVE clock + 1 <= window[r] + Retention
      OBVIOUS
    <3>2. window[r] \in Nat
      BY <1>2 DEF InFlight, RateTypeOK
    <3>3. QED
      BY <1>1, <1>2, <3>2
  <2>2. QED
    BY <1>1, <2>1 DEF InFlightIsKept, IdleIsFirst, InFlight, Kept
<1>4. TakenByTheDone'
  BY <1>1 DEF TakenByTheDone, DoneWith
<1>5. CountersCount'
  <2>1. \A slot \in Slots : Kept(slot[2])' => Kept(slot[2])
    BY <1>1, <1>2 DEF Kept, Slots
  <2>2. QED
    BY <1>1, <2>1 DEF CountersCount
<1>6. RowsStay'
  BY <1>1 DEF RowsStay, SlotOf
<1>7. QED
  BY <1>3, <1>4, <1>5, <1>6

LEMMA InvKept == RateInv /\ [RateNext]_rateVars => RateInv'
<1> SUFFICES ASSUME RateInv, [RateNext]_rateVars PROVE Places'
  BY TypesKept DEF RateInv
<1>1. RateTypeOK
  BY DEF RateInv
<1>2. ASSUME NEW r \in Requests, insert(r) \/ update(r) PROVE Places'
  BY <1>1, <1>2, CountingSteps, PlacesCount
<1>3. ASSUME NEW r \in Requests,
             select_counter(r) \/ insert_conflicts(r) \/ update_refused(r) \/ die(r)
      PROVE  Places'
  BY <1>3, MovingSteps, PlacesMove
<1>4. CASE UNCHANGED rateVars
  BY <1>4 DEF rateVars, RateInv, Places, InFlightIsKept, InFlight, Kept,
              TakenByTheDone, DoneWith, CountersCount, RowsStay, SlotOf, IdleIsFirst
<1>5. QED
  BY <1>2, <1>3, <1>4, PlacesArrive, PlacesCleanup, PlacesTick DEF RateNext

LEMMA InvAtStart == RateInit => RateInv
<1> SUFFICES ASSUME RateInit PROVE Places
  BY TypesAtStart DEF RateInv
<1>1. \A r \in Requests : DoneWith(r) = {}
  BY DEF RateInit, DoneWith
<1>2. \A slot \in Slots : counter[slot] = 0 /\ taken[slot] = {}
  BY DEF RateInit
<1>3. QED
  BY <1>1, <1>2, FS_EmptySet
  DEF RateInit, Places, InFlightIsKept, InFlight, TakenByTheDone, CountersCount,
      RowsStay, IdleIsFirst

LEMMA InvHolds == RateSpec => []RateInv
BY InvAtStart, InvKept, PTL DEF RateSpec

(* An admitted request has its place for each of its subjects.             *)
THEOREM AdmittedAreCounted == RateSpec => []AdmittedIsCounted
<1>1. RateInv => AdmittedIsCounted
  <2>1. SUFFICES ASSUME RateInv, NEW r \in Requests, at[r] = "admitted",
                        NEW i \in 1..Len(SubjectsOf[r])
                 PROVE  r \in taken[<<SubjectsOf[r][i], window[r]>>]
    BY DEF AdmittedIsCounted
  <2>2. i \in DoneWith(r)
    BY <2>1 DEF DoneWith
  <2>3. QED
    BY <2>1, <2>2 DEF RateInv, Places, TakenByTheDone
<1>2. QED
  BY <1>1, InvHolds, PTL

-----------------------------------------------------------------------------
(* The quota                                                               *)

LEMMA SameCardinality == \A S : Abstract!Cardinality(S) = Cardinality(S)
BY DEF Cardinality, Abstract!Cardinality, IsFiniteSet, Abstract!IsFiniteSet

LEMMA QuotaStep ==
    RateInv /\ [RateNext]_rateVars => [Abstract!QuotaNext]_<<taken, turned>>
<1> SUFFICES ASSUME RateInv, [RateNext]_rateVars
             PROVE  Abstract!QuotaNext \/ UNCHANGED <<taken, turned>>
  OBVIOUS
<1>1. RateTypeOK
  BY DEF RateInv
<1>2. ASSUME NEW r \in Requests, insert(r) \/ update(r)
      PROVE  Abstract!QuotaNext
  <2>1. OnePlaceMore(r)
    BY <1>1, <1>2, CountingSteps
  <2>2. SlotOf(r) \in Slots /\ Abstract!Free(SlotOf(r))
    <3>1. counter[SlotOf(r)] = Cardinality(taken[SlotOf(r)])
      BY <2>1, PlacesCount
    <3>2. counter[SlotOf(r)] < Limit
      BY <2>1 DEF OnePlaceMore
    <3>3. Abstract!Free(SlotOf(r))
      BY <3>1, <3>2, SameCardinality DEF Abstract!Free
    <3>4. QED
      BY <1>1, <3>3, SlotsTyped
  <2>3. Abstract!Take(r, SlotOf(r))
    BY <2>1, <2>2 DEF Abstract!Take, OnePlaceMore, counted
  <2>4. QED
    BY <2>2, <2>3 DEF Abstract!QuotaNext
<1>3. ASSUME NEW r \in Requests, update_refused(r)
      PROVE  Abstract!QuotaNext
  <2>1. SlotOf(r) \in Slots /\ SlotOf(r)[2] = window[r] /\ counter[SlotOf(r)] \in 0..Limit
    BY <1>1, SlotsTyped DEF RateTypeOK
  <2>2. at[r] = "update" /\ Kept(window[r])
    BY <1>3 DEF RateInv, Places, InFlightIsKept, InFlight, update_refused
  <2>3. counter[SlotOf(r)] = Cardinality(taken[SlotOf(r)]) /\ counter[SlotOf(r)] # 0
    BY <2>1, <2>2 DEF RateInv, Places, CountersCount, RowsStay
  <2>4. ~(counter[SlotOf(r)] < Limit)
    BY <1>3, <2>3 DEF update_refused, updatable
  <2>5. ~Abstract!Free(SlotOf(r))
    BY <2>3, <2>4, SameCardinality DEF Abstract!Free
  <2>6. Abstract!TurnAway(r, SlotOf(r))
    BY <1>3, <2>5 DEF Abstract!TurnAway, update_refused
  <2>7. QED
    BY <2>1, <2>6 DEF Abstract!QuotaNext
<1>4. ASSUME NEW r \in Requests,
             arrive(r) \/ select_counter(r) \/ insert_conflicts(r) \/ die(r)
      PROVE  UNCHANGED <<taken, turned>>
  BY <1>4 DEF arrive, select_counter, insert_conflicts, die
<1>5. QED
  BY <1>2, <1>3, <1>4 DEF RateNext, cleanup_rate_limit_counters, tick, rateVars

(* Whatever races, is late or is deleted, a request is counted when a      *)
(* place is left in its minute and refused only when none is (auth.py).    *)
THEOREM RateLimitImplementsQuota == RateSpec => ImplementsQuota
<1>1. RateInit => Abstract!QuotaInit
  BY DEF RateInit, Abstract!QuotaInit
<1>2. QED
  BY <1>1, QuotaStep, InvHolds, PTL
  DEF RateSpec, ImplementsQuota, Abstract!QuotaSpec
=============================================================================
