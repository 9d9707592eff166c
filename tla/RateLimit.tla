------------------------------ MODULE RateLimit ------------------------------
(***************************************************************************)
(* The fixed-window rate limits of app/auth.py and their retention         *)
(* (app/services/rate_limit_maintenance.py).  enforce_auth_rate_limit      *)
(* counts a request for its address and then for its account,              *)
(* _enforce_rate_limit for its API key alone: a request carries the        *)
(* sequence of subjects it is counted for.                                 *)
(*                                                                         *)
(* Granularity.  Each statement commits by itself: the select, the insert  *)
(* that the unique key (subject, window) may refuse, the conditional       *)
(* update.  Other requests run in between, on any number of workers.       *)
(*                                                                         *)
(* A row that was deleted and one never inserted look alike: count 0.      *)
(* An operator named after another with a suffix, right before it, is a    *)
(* seeded fault.                                                           *)
(***************************************************************************)
EXTENDS Naturals, Sequences, FiniteSets

CONSTANTS
    Requests,    \* HTTP requests
    Subjects,    \* addresses and accounts per action, and API keys
    SubjectsOf,  \* the subjects each request is counted for, in order
    Limit,       \* settings.rate_limit_per_minute
    Retention,   \* windows kept by the maintenance
    LastWindow   \* bound: the last minute explored

ASSUME RateLimitAssumption ==
    /\ IsFiniteSet(Requests)
    /\ SubjectsOf \in [Requests -> Seq(Subjects)]
    /\ \A r \in Requests :
          /\ SubjectsOf[r] # <<>>
          /\ \A i, j \in 1..Len(SubjectsOf[r]) : SubjectsOf[r][i] = SubjectsOf[r][j] => i = j
    /\ Limit \in Nat \ {0}
    /\ Retention \in Nat \ {0}
    /\ LastWindow \in Nat

VARIABLES
    clock,    \* the current minute
    counter,  \* [subject, window] -> count of the row, 0 if there is none
    at,       \* the statement each request is before
    window,   \* the minute each request has read on arrival
    subject,  \* position in SubjectsOf of the subject being counted
    taken,    \* history: [subject, window] -> requests counted in it
    turned    \* history: [subject, window] -> requests refused by it

rateVars == <<clock, counter, at, window, subject, taken, turned>>

Windows == 0..LastWindow
Slots == Subjects \X Windows

RateTypeOK ==
    /\ clock \in Windows
    /\ counter \in [Slots -> 0..Limit]
    /\ at \in [Requests -> {"idle", "select", "insert", "update", "admitted", "429", "dead"}]
    /\ window \in [Requests -> Windows]
    /\ subject \in [Requests -> Nat \ {0}]
    /\ \A r \in Requests : subject[r] <= Len(SubjectsOf[r])
    /\ taken \in [Slots -> SUBSET Requests]
    /\ turned \in [Slots -> SUBSET Requests]

RateInit ==
    /\ clock = 0
    /\ counter = [slot \in Slots |-> 0]
    /\ at = [r \in Requests |-> "idle"]
    /\ window = [r \in Requests |-> 0]
    /\ subject = [r \in Requests |-> 1]
    /\ taken = [slot \in Slots |-> {}]
    /\ turned = [slot \in Slots |-> {}]

SlotOf(r) == <<SubjectsOf[r][subject[r]], window[r]>>
InFlight == {r \in Requests : at[r] \in {"select", "insert", "update"}}

-----------------------------------------------------------------------------
(* A request                                                               *)

arrive(r) ==
    /\ at[r] = "idle"
    /\ at' = [at EXCEPT ![r] = "select"]
    /\ window' = [window EXCEPT ![r] = clock]
    /\ UNCHANGED <<clock, counter, subject, taken, turned>>

select_counter(r) ==
    /\ at[r] = "select"
    /\ at' = [at EXCEPT ![r] = IF counter[SlotOf(r)] = 0 THEN "insert" ELSE "update"]
    /\ UNCHANGED <<clock, counter, window, subject, taken, turned>>

(* The request has its place: on to its next subject, or admitted.         *)
counted(r) ==
    /\ taken' = [taken EXCEPT ![SlotOf(r)] = @ \cup {r}]
    /\ IF subject[r] < Len(SubjectsOf[r])
       THEN /\ subject' = [subject EXCEPT ![r] = @ + 1]
            /\ at' = [at EXCEPT ![r] = "select"]
       ELSE at' = [at EXCEPT ![r] = "admitted"] /\ UNCHANGED subject
    /\ UNCHANGED <<clock, window, turned>>

(* counted, had the insert returned where it goes on to the next subject.  *)
counted_and_returned(r) ==
    /\ taken' = [taken EXCEPT ![SlotOf(r)] = @ \cup {r}]
    /\ at' = [at EXCEPT ![r] = "admitted"]
    /\ UNCHANGED <<clock, window, subject, turned>>

insert_returning(r) ==
    /\ at[r] = "insert"
    /\ counter[SlotOf(r)] = 0
    /\ counter' = [counter EXCEPT ![SlotOf(r)] = 1]
    /\ counted_and_returned(r)

insert(r) ==
    /\ at[r] = "insert"
    /\ counter[SlotOf(r)] = 0
    /\ counter' = [counter EXCEPT ![SlotOf(r)] = 1]
    /\ counted(r)

insert_conflicts_refused(r) ==
    /\ at[r] = "insert"
    /\ counter[SlotOf(r)] # 0
    /\ at' = [at EXCEPT ![r] = "429"]
    /\ turned' = [turned EXCEPT ![SlotOf(r)] = @ \cup {r}]
    /\ UNCHANGED <<clock, counter, window, subject, taken>>

(* IntegrityError: another request has inserted the row since.             *)
insert_conflicts(r) ==
    /\ at[r] = "insert"
    /\ counter[SlotOf(r)] # 0
    /\ at' = [at EXCEPT ![r] = "update"]
    /\ UNCHANGED <<clock, counter, window, subject, taken, turned>>

updatable_unconditionally(n) == n # 0

(* UPDATE ... WHERE count < limit finds its row.                           *)
updatable(n) == n # 0 /\ n < Limit

update(r) ==
    /\ at[r] = "update"
    /\ updatable(counter[SlotOf(r)])
    /\ counter' = [counter EXCEPT ![SlotOf(r)] = @ + 1]
    /\ counted(r)

update_refused(r) ==
    /\ at[r] = "update"
    /\ ~updatable(counter[SlotOf(r)])
    /\ turned' = [turned EXCEPT ![SlotOf(r)] = @ \cup {r}]
    /\ at' = [at EXCEPT ![r] = "429"]
    /\ UNCHANGED <<clock, counter, window, subject, taken>>

(* The worker dies: what the request was counted for stays counted.        *)
die(r) ==
    /\ r \in InFlight
    /\ at' = [at EXCEPT ![r] = "dead"]
    /\ UNCHANGED <<clock, counter, window, subject, taken, turned>>

-----------------------------------------------------------------------------
(* Maintenance and time                                                    *)

(* "a window exactly on the retention boundary is retained"                *)
expired(w, now) == w + Retention < now

(* One transaction per round, under an advisory lock; `now' was read when  *)
(* the round began.                                                        *)
cleanup_rate_limit_counters(now) ==
    /\ now <= clock
    /\ \E slot \in Slots : expired(slot[2], now) /\ counter[slot] # 0
    /\ counter' = [slot \in Slots |-> IF expired(slot[2], now) THEN 0 ELSE counter[slot]]
    /\ UNCHANGED <<clock, at, window, subject, taken, turned>>

(* A minute passes.  A request takes no longer than the retention, which   *)
(* is at least a day.                                                      *)
tick ==
    /\ clock < LastWindow
    /\ \A r \in InFlight : clock < window[r] + Retention
    /\ clock' = clock + 1
    /\ UNCHANGED <<counter, at, window, subject, taken, turned>>

RateNext ==
    \/ \E r \in Requests :
          \/ arrive(r) \/ select_counter(r)
          \/ insert(r) \/ insert_conflicts(r)
          \/ update(r) \/ update_refused(r)
          \/ die(r)
    \/ \E now \in Windows : cleanup_rate_limit_counters(now)
    \/ tick

RateSpec == RateInit /\ [][RateNext]_rateVars

-----------------------------------------------------------------------------
(* Properties                                                              *)

(* The quota of the abstract specification: its places are the requests    *)
(* counted in a (subject, minute), whatever the counter row says by then.  *)
Abstract ==
    INSTANCE Quota WITH Requests <- Requests, Slots <- Slots, Limit <- Limit,
                        taken <- taken, turned <- turned

(* Racing inserts, racing updates at the limit, late requests and the      *)
(* deletion of old rows never give a place too many, and never refuse a    *)
(* request while a place is left.                                          *)
ImplementsQuota == Abstract!QuotaSpec

(* An admitted request has been counted for each of its subjects, in the   *)
(* minute it arrived in.                                                   *)
AdmittedIsCounted ==
    \A r \in Requests : at[r] = "admitted" =>
        \A i \in 1..Len(SubjectsOf[r]) : r \in taken[<<SubjectsOf[r][i], window[r]>>]
=============================================================================
