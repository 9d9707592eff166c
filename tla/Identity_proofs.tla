--------------------------- MODULE Identity_proofs ---------------------------
(***************************************************************************)
(* Proofs about Identity, for any number of requests: types, the cap on    *)
(* active keys, one use per reset link, what a freeze locks out, and who   *)
(* ends it.                                                                *)
(***************************************************************************)
EXTENDS Identity, FiniteSetTheorems, TLAPS

USE DEF history

(* What a request is about is there once it has begun.                     *)
Dealing ==
    {"verify", "reset", "hash", "create_key", "insert_key", "revoke_key", "logout_all"}
AboutSomething ==
    \A c \in Calls : call[c].at \in Dealing => call[c].about \in Calls

TypesInv == IdentityTypeOK /\ AboutSomething

-----------------------------------------------------------------------------
(* Steps of one call                                                       *)

LEMMA Going ==
    ASSUME IdentityTypeOK, NEW c \in Calls, NEW step \in Steps, Goto(c, step)
    PROVE  /\ call' \in [Calls -> CallState]
           /\ call'[c].at = step /\ call'[c].about = call[c].about
           /\ \A d \in Calls \ {c} : call'[d] = call[d]
<1>1. call \in [Calls -> CallState]
  BY DEF IdentityTypeOK
<1>2. call' = [call EXCEPT ![c] = [@ EXCEPT !.at = step]]
  BY DEF Goto
<1>3. /\ [call[c] EXCEPT !.at = step] \in CallState
      /\ [call[c] EXCEPT !.at = step].at = step
      /\ [call[c] EXCEPT !.at = step].about = call[c].about
  <2>1. call[c] \in CallState
    BY <1>1
  <2>2. ASSUME NEW rec \in CallState
        PROVE  /\ [rec EXCEPT !.at = step] \in CallState
               /\ [rec EXCEPT !.at = step].at = step
               /\ [rec EXCEPT !.at = step].about = rec.about
    BY DEF CallState
  <2>3. QED
    BY <2>1, <2>2
<1>4. QED
  BY <1>1, <1>2, <1>3

LEMMA CallRecords ==
    ASSUME NEW rec \in CallState, NEW step \in Steps
    PROVE  /\ \A ts \in SUBSET Calls : [rec EXCEPT !.at = step, !.held = ts] \in CallState
           /\ \A n \in Nat : [rec EXCEPT !.at = step, !.password = n] \in CallState
<1>1. ASSUME NEW ts \in SUBSET Calls
      PROVE  [rec EXCEPT !.at = step, !.held = ts] \in CallState
  BY DEF CallState
<1>2. ASSUME NEW n \in Nat PROVE [rec EXCEPT !.at = step, !.password = n] \in CallState
  BY DEF CallState
<1>3. QED
  BY <1>1, <1>2

LEMMA Starting ==
    ASSUME IdentityTypeOK, NEW c \in Calls, NEW step \in Steps,
           NEW t \in Calls \cup {Nobody}, Start(c, step, t)
    PROVE  /\ call' \in [Calls -> CallState]
           /\ call[c].at = "idle" /\ call'[c].at = step /\ call'[c].about = t
           /\ \A d \in Calls \ {c} : call'[d] = call[d]
<1>1. call \in [Calls -> CallState] /\ call[c].at = "idle"
  BY DEF IdentityTypeOK, Start, At
<1>2. call' = [call EXCEPT ![c] = [@ EXCEPT !.at = step, !.about = t]]
  BY <1>1 DEF Start
<1>3. [call[c] EXCEPT !.at = step, !.about = t] \in CallState
  <2>1. call[c] \in CallState
    BY <1>1
  <2>2. ASSUME NEW rec \in CallState, NEW a \in Steps, NEW u \in Calls \cup {Nobody}
        PROVE  [rec EXCEPT !.at = a, !.about = u] \in CallState
    BY DEF CallState
  <2>3. QED
    BY <2>1, <2>2
<1>4. QED
  BY <1>1, <1>2, <1>3 DEF CallState

LEMMA Finishing ==
    ASSUME IdentityTypeOK, NEW c \in Calls, Finish(c)
    PROVE  /\ call' \in [Calls -> CallState]
           /\ call'[c].at = "done"
           /\ \A d \in Calls \ {c} : call'[d] = call[d]
BY DEF IdentityTypeOK, Finish, Idle, CallState, Steps

LEMMA Revoking ==
    ASSUME NEW credentials \in [Calls -> Credential]
    PROVE  /\ Revoke(credentials) \in [Calls -> Credential]
           /\ Active(Revoke(credentials)) = {}
BY DEF Revoke, Active, Credential

LEMMA Consuming ==
    ASSUME NEW links \in [Calls -> LinkStates], NEW ts \in SUBSET Calls
    PROVE  /\ Consume(links, ts) \in [Calls -> LinkStates]
           /\ Live(Consume(links, ts)) = Live(links) \ ts
BY DEF Consume, Live, LinkStates

(* A step of a call that keeps what it is about, or ends it, or takes      *)
(* something that exists.                                                  *)
LEMMA AboutKept ==
    ASSUME TypesInv, NEW c \in Calls,
           \A d \in Calls \ {c} : call'[d] = call[d],
           call'[c].at \in Dealing => call'[c].about \in Calls
    PROVE  AboutSomething'
BY DEF AboutSomething, TypesInv

(* The lock is held exactly by the call at its slow step.                  *)
AtSlowStep(c) == call[c].at \in {"hash", "insert_key"}
LockIsHeld == \A c \in Calls : AtSlowStep(c) <=> lock = c

LEMMA LockKept ==
    ASSUME IdentityTypeOK, NEW c \in Calls,
           \A d \in Calls \ {c} : call'[d] = call[d],
           \/ lock' = lock /\ (AtSlowStep(c)' <=> AtSlowStep(c))
           \/ lock = c /\ lock' = Nobody /\ ~AtSlowStep(c)'
           \/ lock \in {Nobody, c} /\ lock' = c /\ AtSlowStep(c)'
    PROVE  LockIsHeld'
BY IdentityAssumption DEF LockIsHeld, AtSlowStep, IdentityTypeOK

LEMMA LinkSteps ==
    ASSUME TypesInv, NEW c \in Calls,
           \/ register(c) \/ finds_links(c) \/ replaces_links(c) \/ inserts_link(c)
           \/ request_password_reset(c) \/ send(c) \/ send_failed(c)
    PROVE  TypesInv'
<1> USE DEF TypesInv
<1>1. CASE register(c)
  <2>1. Start(c, "issue", Nobody)
    BY <1>1 DEF register
  <2>2. PICK t \in Calls \cup {Nobody} : t = Nobody
    OBVIOUS
  <2>3. /\ call' \in [Calls -> CallState] /\ call[c].at = "idle" /\ call'[c].at = "issue"
        /\ \A d \in Calls \ {c} : call'[d] = call[d]
    BY <2>1, <2>2, Starting DEF Steps
  <2>4. AboutSomething' /\ LockIsHeld'
    BY <1>1, <2>3, AboutKept, LockKept DEF Dealing, AtSlowStep, register
  <2>5. QED
    BY <1>1, <2>3, <2>4 DEF register, IdentityTypeOK, LockIsHeld, AtSlowStep
<1>2. ASSUME finds_links(c) \/ replaces_links(c) PROVE TypesInv'
  <2>1. PICK step \in {"replace", "insert_link"}, ts \in SUBSET Calls :
           call' = [call EXCEPT ![c] = [@ EXCEPT !.at = step, !.held = ts]]
    <3>1. Live(verify) \in SUBSET Calls
      BY DEF Live
    <3>2. CASE finds_links(c)
      BY <3>1, <3>2 DEF finds_links
    <3>3. CASE replaces_links(c)
      <4>1. call[c].held \cap Live(verify) \in SUBSET Calls
        BY <3>1
      <4>2. call' = [call EXCEPT ![c] = [@ EXCEPT !.at = "insert_link",
                                                 !.held = call[c].held \cap Live(verify)]]
        BY <3>3 DEF replaces_links, IdentityTypeOK, CallState
      <4>3. QED
        BY <4>1, <4>2
    <3>4. QED
      BY <1>2, <3>2, <3>3
  <2>2. [call[c] EXCEPT !.at = step, !.held = ts] \in CallState
    <3>1. call[c] \in CallState /\ step \in Steps
      BY DEF IdentityTypeOK, Steps
    <3>2. QED
      BY <3>1, CallRecords
  <2>3. /\ call' \in [Calls -> CallState] /\ call'[c].at \in {"replace", "insert_link"}
        /\ \A d \in Calls \ {c} : call'[d] = call[d]
    BY <2>1, <2>2 DEF IdentityTypeOK, CallState
  <2>4. AboutSomething' /\ LockIsHeld'
    BY <1>2, <2>3, AboutKept, LockKept
    DEF Dealing, AtSlowStep, finds_links, replaces_links, At
  <2>5. QED
    BY <1>2, <2>3, <2>4
    DEF finds_links, replaces_links, IdentityTypeOK, LockIsHeld, AtSlowStep
<1>3. CASE inserts_link(c)
  <2>1. [call[c] EXCEPT !.at = "mail_verification", !.held = {}] \in CallState
    <3>1. call[c] \in CallState /\ "mail_verification" \in Steps /\ {} \in SUBSET Calls
      BY DEF IdentityTypeOK, Steps
    <3>2. QED
      BY <3>1, CallRecords
  <2>2. call' = [call EXCEPT ![c] = [@ EXCEPT !.at = "mail_verification", !.held = {}]]
    BY <1>3 DEF inserts_link
  <2>3. /\ call' \in [Calls -> CallState] /\ call'[c].at = "mail_verification"
        /\ \A d \in Calls \ {c} : call'[d] = call[d]
    BY <2>1, <2>2 DEF IdentityTypeOK, CallState
  <2>4. AboutSomething' /\ LockIsHeld'
    BY <1>3, <2>3, AboutKept, LockKept DEF Dealing, AtSlowStep, inserts_link, At
  <2>5. Consume(verify, call[c].held) \in [Calls -> LinkStates]
    BY Consuming DEF IdentityTypeOK, CallState
  <2>6. verify' \in [Calls -> LinkStates]
    BY <1>3, <2>5 DEF inserts_link, LinkStates
  <2>7. QED
    BY <1>3, <2>3, <2>4, <2>6 DEF inserts_link, IdentityTypeOK, LockIsHeld, AtSlowStep
<1>4. CASE request_password_reset(c)
  <2>1. /\ call' \in [Calls -> CallState] /\ call'[c].at = "mail_reset" /\ call[c].at = "idle"
        /\ \A d \in Calls \ {c} : call'[d] = call[d]
    BY <1>4, Going DEF request_password_reset, Steps, At
  <2>2. AboutSomething' /\ LockIsHeld'
    BY <1>4, <2>1, AboutKept, LockKept DEF Dealing, AtSlowStep, request_password_reset
  <2>3. Consume(reset, Live(reset)) \in [Calls -> LinkStates]
    BY Consuming DEF IdentityTypeOK, Live
  <2>4. reset' \in [Calls -> LinkStates]
    BY <1>4, <2>3 DEF request_password_reset, LinkStates
  <2>5. QED
    BY <1>4, <2>1, <2>2, <2>4
    DEF request_password_reset, IdentityTypeOK, LockIsHeld, AtSlowStep
<1>5. CASE send(c)
  <2>1. /\ call' \in [Calls -> CallState] /\ call'[c].at \in {"done", "mail_failed"}
        /\ \A d \in Calls \ {c} : call'[d] = call[d]
    BY <1>5, Going, Finishing DEF send, Steps
  <2>2. call[c].at \in {"mail_verification", "mail_reset"} /\ mailed' \subseteq Calls
    BY <1>5 DEF send, IdentityTypeOK
  <2>3. AboutSomething' /\ LockIsHeld'
    BY <1>5, <2>1, <2>2, AboutKept, LockKept DEF Dealing, AtSlowStep, send
  <2>4. QED
    BY <1>5, <2>1, <2>2, <2>3 DEF send, IdentityTypeOK, LockIsHeld, AtSlowStep
<1>6. CASE send_failed(c)
  <2>1. /\ call' \in [Calls -> CallState] /\ call'[c].at = "done"
        /\ \A d \in Calls \ {c} : call'[d] = call[d]
    BY <1>6, Finishing DEF send_failed
  <2>2. AboutSomething' /\ LockIsHeld'
    BY <1>6, <2>1, AboutKept, LockKept DEF Dealing, AtSlowStep, send_failed, At
  <2>3. verify' \in [Calls -> LinkStates] /\ reset' \in [Calls -> LinkStates]
    BY <1>6, Consuming DEF send_failed, IdentityTypeOK, Live
  <2>4. QED
    BY <1>6, <2>1, <2>2, <2>3 DEF send_failed, IdentityTypeOK, LockIsHeld, AtSlowStep
<1>7. QED
  BY <1>1, <1>2, <1>3, <1>4, <1>5, <1>6

(* The steps of a call that uses a link.                                   *)
LEMMA UseSteps ==
    ASSUME TypesInv, NEW c \in Calls,
           \/ \E t \in Calls : verify_email(c, t) \/ perform_password_reset(c, t)
           \/ consume_email_verification(c) \/ reset_locks(c) \/ reset_password(c)
    PROVE  TypesInv'
<1> USE DEF TypesInv
<1>1. ASSUME NEW t \in Calls, verify_email(c, t) \/ perform_password_reset(c, t)
      PROVE  TypesInv'
  <2>1. PICK step \in {"verify", "reset"} : Start(c, step, t)
    BY <1>1 DEF verify_email, perform_password_reset
  <2>2. /\ call' \in [Calls -> CallState] /\ call[c].at = "idle"
        /\ call'[c].at = step /\ call'[c].about = t
        /\ \A d \in Calls \ {c} : call'[d] = call[d]
    BY <2>1, Starting DEF Steps
  <2>3. UNCHANGED <<user, verify, reset, mailed, session, key, lock, history>>
    BY <1>1 DEF verify_email, perform_password_reset
  <2>4. AboutSomething' /\ LockIsHeld'
    BY <2>2, <2>3, AboutKept, LockKept DEF AtSlowStep
  <2>5. QED
    BY <2>2, <2>3, <2>4 DEF IdentityTypeOK, LockIsHeld, AtSlowStep
<1>2. CASE consume_email_verification(c)
  <2>1. /\ call' \in [Calls -> CallState] /\ call'[c].at = "done"
        /\ \A d \in Calls \ {c} : call'[d] = call[d]
    BY <1>2, Finishing DEF consume_email_verification
  <2>2. AboutSomething' /\ LockIsHeld'
    BY <1>2, <2>1, AboutKept, LockKept DEF Dealing, AtSlowStep, consume_email_verification, At
  <2>3. UNCHANGED <<reset, mailed, session, key, lock, history>>
    BY <1>2 DEF consume_email_verification
  <2>4. verify' \in [Calls -> LinkStates]
    BY <1>2 DEF consume_email_verification, IdentityTypeOK, LinkStates
  <2>5. user' \in [status : {"absent", "pending_email", "active", "frozen"},
                   verified : BOOLEAN, password : Nat]
    <3>1. \/ user' = [user EXCEPT !.status = "active", !.verified = TRUE]
          \/ user' = user
      BY <1>2 DEF consume_email_verification
    <3>2. QED
      BY <3>1 DEF IdentityTypeOK
  <2>6. QED
    BY <2>1, <2>2, <2>3, <2>4, <2>5 DEF IdentityTypeOK, LockIsHeld, AtSlowStep
<1>3. CASE reset_locks(c)
  <2>1. /\ call' \in [Calls -> CallState]
        /\ call'[c].about = call[c].about \/ call'[c].at = "done"
        /\ \A d \in Calls \ {c} : call'[d] = call[d]
        /\ \/ lock' = c /\ call'[c].at = "hash"
           \/ lock' = lock /\ call'[c].at = "done"
    BY <1>3, Going, Finishing DEF reset_locks, Steps
  <2>2. call[c].at = "reset" /\ lock \in {Nobody, c} /\ call[c].about \in Calls
    BY <1>3 DEF reset_locks, At, user_row_free, AboutSomething, Dealing
  <2>3. AboutSomething' /\ LockIsHeld'
    BY <2>1, <2>2, AboutKept, LockKept DEF Dealing, AtSlowStep
  <2>4. reset' \in [Calls -> LinkStates] /\ call' \in [Calls -> CallState]
    <3>1. Consume(reset, {call[c].about}) \in [Calls -> LinkStates]
      BY <2>2, Consuming DEF IdentityTypeOK
    <3>2. call' \in [Calls -> CallState]
      BY <1>3, Going, Finishing DEF reset_locks, Steps
    <3>3. QED
      BY <1>3, <3>1, <3>2 DEF reset_locks, IdentityTypeOK
  <2>5. QED
    BY <1>3, <2>1, <2>3, <2>4 DEF reset_locks, IdentityTypeOK, LockIsHeld, AtSlowStep
<1>4. CASE reset_password(c)
  <2>1. /\ call' \in [Calls -> CallState] /\ call'[c].at = "done"
        /\ \A d \in Calls \ {c} : call'[d] = call[d]
    BY <1>4, Finishing DEF reset_password
  <2>2. call[c].at = "hash" /\ call[c].about \in Calls /\ lock = c /\ lock' = Nobody
    BY <1>4 DEF reset_password, At, AboutSomething, Dealing, IdentityTypeOK
  <2>3. AboutSomething' /\ LockIsHeld'
    BY <2>1, <2>2, AboutKept, LockKept DEF Dealing, AtSlowStep
  <2>4. Revoke(session) \in [Calls -> Credential] /\ Revoke(key) \in [Calls -> Credential]
    BY Revoking DEF IdentityTypeOK
  <2>5. session' \in [Calls -> Credential] /\ key' \in [Calls -> Credential]
    BY <1>4, <2>4 DEF reset_password, IdentityTypeOK
  <2>6. reset' \in [Calls -> LinkStates] /\ changed' \subseteq Calls
    BY <1>4, <2>2 DEF reset_password, IdentityTypeOK, LinkStates
  <2>7. user' \in [status : {"absent", "pending_email", "active", "frozen"},
                   verified : BOOLEAN, password : Nat]
    BY <1>4 DEF reset_password, IdentityTypeOK
  <2>8. QED
    BY <1>4, <2>1, <2>2, <2>3, <2>5, <2>6, <2>7
    DEF reset_password, IdentityTypeOK, LockIsHeld, AtSlowStep
<1>5. QED
  BY <1>1, <1>2, <1>3, <1>4

(* Sessions and keys, and the end of a process.                            *)
LEMMA CredentialSteps ==
    ASSUME TypesInv, NEW c \in Calls,
           \/ login(c) \/ login_inserts(c) \/ \E s \in Calls : require_session(c, s)
           \/ enforce_key_limit(c) \/ create_key(c) \/ revoke_key(c) \/ logout_all(c)
           \/ dies(c)
    PROVE  TypesInv'
<1> USE DEF TypesInv
<1>1. CASE login(c)
  <2>1. [call[c] EXCEPT !.at = "login", !.password = user.password] \in CallState
    <3>1. call[c] \in CallState /\ "login" \in Steps /\ user.password \in Nat
      BY DEF IdentityTypeOK, Steps
    <3>2. QED
      BY <3>1, CallRecords
  <2>2. call' = [call EXCEPT ![c] = [@ EXCEPT !.at = "login", !.password = user.password]]
    BY <1>1 DEF login
  <2>3. /\ call' \in [Calls -> CallState] /\ call'[c].at = "login"
        /\ \A d \in Calls \ {c} : call'[d] = call[d]
    BY <2>1, <2>2 DEF IdentityTypeOK, CallState
  <2>4. AboutSomething' /\ LockIsHeld'
    BY <1>1, <2>3, AboutKept, LockKept DEF Dealing, AtSlowStep, login, At
  <2>5. QED
    BY <1>1, <2>3, <2>4 DEF login, IdentityTypeOK, LockIsHeld, AtSlowStep
<1>2. ASSUME NEW s \in Calls, require_session(c, s) PROVE TypesInv'
  <2>1. PICK step \in {"create_key", "logout_all", "revoke_key"}, t \in Calls :
           Start(c, step, t)
    BY <1>2 DEF require_session, Active
  <2>2. /\ call' \in [Calls -> CallState] /\ call[c].at = "idle"
        /\ call'[c].at = step /\ call'[c].about = t
        /\ \A d \in Calls \ {c} : call'[d] = call[d]
    BY <2>1, Starting DEF Steps
  <2>3. UNCHANGED <<user, verify, reset, mailed, session, key, lock, history>>
    BY <1>2 DEF require_session
  <2>4. AboutSomething' /\ LockIsHeld'
    BY <2>2, <2>3, AboutKept, LockKept DEF AtSlowStep
  <2>5. QED
    BY <2>2, <2>3, <2>4 DEF IdentityTypeOK, LockIsHeld, AtSlowStep
<1>3. CASE enforce_key_limit(c)
  <2>1. /\ call' \in [Calls -> CallState]
        /\ call'[c].at \in Dealing => call'[c].about = call[c].about
        /\ \A d \in Calls \ {c} : call'[d] = call[d]
        /\ \/ lock' = c /\ call'[c].at = "insert_key"
           \/ lock' = lock /\ call'[c].at = "done"
    BY <1>3, Going, Finishing DEF enforce_key_limit, Steps, Dealing
  <2>2. call[c].at = "create_key" /\ lock \in {Nobody, c} /\ call[c].about \in Calls
    BY <1>3 DEF enforce_key_limit, At, user_row_free, AboutSomething, Dealing
  <2>3. AboutSomething' /\ LockIsHeld'
    BY <2>1, <2>2, AboutKept, LockKept DEF AtSlowStep
  <2>4. QED
    BY <1>3, <2>1, <2>3 DEF enforce_key_limit, IdentityTypeOK, LockIsHeld, AtSlowStep
<1>4. CASE login_inserts(c) \/ create_key(c) \/ revoke_key(c) \/ logout_all(c) \/ dies(c)
  <2>1. Finish(c)
    BY <1>4 DEF login_inserts, create_key, revoke_key, logout_all, dies
  <2>2. /\ call' \in [Calls -> CallState] /\ call'[c].at = "done"
        /\ \A d \in Calls \ {c} : call'[d] = call[d]
    BY <2>1, Finishing
  <2>3. \/ lock' = lock /\ ~AtSlowStep(c)
        \/ lock = c /\ lock' = Nobody
    BY <1>4 DEF login_inserts, create_key, revoke_key, logout_all, dies, At, AtSlowStep,
                IdentityTypeOK
  <2>4. AboutSomething' /\ LockIsHeld'
    BY <2>2, <2>3, AboutKept, LockKept DEF Dealing, AtSlowStep
  <2>5. session' \in [Calls -> Credential]
    <3>1. Revoke(session) \in [Calls -> Credential]
      BY Revoking DEF IdentityTypeOK
    <3>2. call[c].password \in Nat
      BY DEF IdentityTypeOK, CallState
    <3>3. QED
      BY <1>4, <3>1, <3>2
      DEF login_inserts, create_key, revoke_key, logout_all, dies, IdentityTypeOK, Credential
  <2>6. key' \in [Calls -> Credential]
    <3>1. CASE create_key(c)
      <4>1. call[c].about \in Calls
        BY <3>1 DEF create_key, At, AboutSomething, Dealing
      <4>2. QED
        BY <3>1, <4>1 DEF create_key, IdentityTypeOK, Credential
    <3>2. CASE revoke_key(c)
      BY <3>2 DEF revoke_key, IdentityTypeOK, Credential
    <3>3. QED
      BY <1>4, <3>1, <3>2 DEF login_inserts, logout_all, dies, IdentityTypeOK
  <2>7. QED
    BY <1>4, <2>2, <2>3, <2>4, <2>5, <2>6
    DEF login_inserts, create_key, revoke_key, logout_all, dies, IdentityTypeOK,
        LockIsHeld, AtSlowStep
<1>5. QED
  BY <1>1, <1>2, <1>3, <1>4

LEMMA OperatorSteps ==
    ASSUME TypesInv, apply_user_freeze \/ unfreeze
    PROVE  TypesInv'
<1> USE DEF TypesInv
<1>1. CASE apply_user_freeze
  <2>1. Revoke(session) \in [Calls -> Credential] /\ Revoke(key) \in [Calls -> Credential]
    BY Revoking DEF IdentityTypeOK
  <2>2. Consume(verify, Live(verify)) \in [Calls -> LinkStates]
          /\ Consume(reset, Live(reset)) \in [Calls -> LinkStates]
    BY Consuming DEF IdentityTypeOK, Live
  <2>3. QED
    BY <1>1, <2>1, <2>2
    DEF apply_user_freeze, links_after_freeze, IdentityTypeOK, AboutSomething
<1>2. CASE unfreeze
  BY <1>2 DEF unfreeze, IdentityTypeOK, AboutSomething
<1>3. QED
  BY <1>1, <1>2

LEMMA TypesKept == TypesInv /\ [IdentityNext]_identityVars => TypesInv'
<1> SUFFICES ASSUME TypesInv, [IdentityNext]_identityVars PROVE TypesInv'
  OBVIOUS
<1>1. CASE UNCHANGED identityVars
  BY <1>1 DEF identityVars, TypesInv, IdentityTypeOK, AboutSomething
<1>2. QED
  BY <1>1, LinkSteps, UseSteps, CredentialSteps, OperatorSteps DEF IdentityNext

LEMMA TypesAtStart == IdentityInit => TypesInv
BY IdentityAssumption
DEF IdentityInit, TypesInv, IdentityTypeOK, AboutSomething, Dealing, Idle, CallState, Steps,
    LinkStates, NoCredential, Credential

LEMMA TypesHold == IdentitySpec => []TypesInv
BY TypesAtStart, TypesKept, PTL DEF IdentitySpec

(* Whatever the requests interleave to, no column leaves its type, and the *)
(* user row is locked exactly by the call that works under the lock.       *)
THEOREM IdentityTypeCorrect == IdentitySpec => []IdentityTypeOK
<1>1. TypesInv => IdentityTypeOK
  BY DEF TypesInv
<1>2. QED
  BY <1>1, TypesHold, PTL

-----------------------------------------------------------------------------
(* The account                                                             *)

(* Whoever holds the user row works on an active account: what they lock   *)
(* out cannot have been locked out before they were let in.                *)
LockedIsActive == lock # Nobody => user.status = "active"
AccountInv == TypesInv /\ ActiveIsVerified /\ LockedIsActive

(* The steps that neither touch the user nor take the lock.                *)
Bystander(c) ==
    \/ finds_links(c) \/ replaces_links(c) \/ inserts_link(c)
    \/ request_password_reset(c) \/ send(c) \/ send_failed(c)
    \/ \E t \in Calls : verify_email(c, t) \/ perform_password_reset(c, t)
    \/ login(c) \/ login_inserts(c) \/ \E s \in Calls : require_session(c, s)
    \/ revoke_key(c) \/ logout_all(c)

LEMMA BystandersStandBy ==
    ASSUME NEW c \in Calls, Bystander(c)
    PROVE  UNCHANGED <<user, lock>>
BY DEF Bystander, finds_links, replaces_links, inserts_link, request_password_reset, send, send_failed,
       verify_email, perform_password_reset, login, login_inserts, require_session,
       revoke_key, logout_all

LEMMA AccountKept == AccountInv /\ [IdentityNext]_identityVars => AccountInv'
<1> SUFFICES ASSUME AccountInv, [IdentityNext]_identityVars
             PROVE  ActiveIsVerified' /\ LockedIsActive'
  BY TypesKept DEF AccountInv
<1> USE DEF AccountInv, TypesInv
<1>1. ASSUME NEW c \in Calls, Bystander(c) PROVE ActiveIsVerified' /\ LockedIsActive'
  BY <1>1, BystandersStandBy DEF ActiveIsVerified, LockedIsActive
<1>2. ASSUME NEW c \in Calls, register(c) PROVE ActiveIsVerified' /\ LockedIsActive'
  BY <1>2 DEF register, ActiveIsVerified, LockedIsActive, IdentityTypeOK
<1>3. ASSUME NEW c \in Calls, consume_email_verification(c)
      PROVE  ActiveIsVerified' /\ LockedIsActive'
  <2>1. lock = Nobody
    BY <1>3 DEF consume_email_verification, user_row_free, At, IdentityTypeOK
  <2>2. QED
    BY <1>3, <2>1
    DEF consume_email_verification, ActiveIsVerified, LockedIsActive, IdentityTypeOK
<1>4. ASSUME NEW c \in Calls, reset_locks(c) \/ enforce_key_limit(c)
      PROVE  ActiveIsVerified' /\ LockedIsActive'
  BY <1>4 DEF reset_locks, enforce_key_limit, ActiveIsVerified, LockedIsActive
<1>5. ASSUME NEW c \in Calls, reset_password(c) \/ create_key(c) \/ dies(c)
      PROVE  ActiveIsVerified' /\ LockedIsActive'
  BY <1>5 DEF reset_password, create_key, dies, ActiveIsVerified, LockedIsActive,
              IdentityTypeOK
<1>6. CASE apply_user_freeze
  BY <1>6 DEF apply_user_freeze, ActiveIsVerified, LockedIsActive, IdentityTypeOK
<1>7. CASE unfreeze
  BY <1>7 DEF unfreeze, unfreezable, ActiveIsVerified, LockedIsActive, IdentityTypeOK
<1>8. CASE UNCHANGED identityVars
  BY <1>8 DEF identityVars, ActiveIsVerified, LockedIsActive
<1>9. QED
  BY <1>1, <1>2, <1>3, <1>4, <1>5, <1>6, <1>7, <1>8 DEF IdentityNext, Bystander

LEMMA AccountAtStart == IdentityInit => AccountInv
<1> SUFFICES ASSUME IdentityInit PROVE AccountInv
  OBVIOUS
<1>1. PICK s \in InitialStatuses :
         user = [status |-> s, verified |-> s = "active", password |-> 0]
  BY DEF IdentityInit
<1>2. ActiveIsVerified
  <2>1. user.status = s /\ user.verified = (s = "active")
    BY <1>1
  <2>2. QED
    BY <2>1 DEF ActiveIsVerified
<1>3. LockedIsActive
  BY DEF IdentityInit, LockedIsActive
<1>4. QED
  BY <1>2, <1>3, TypesAtStart DEF AccountInv

LEMMA AccountHolds == IdentitySpec => []AccountInv
BY AccountAtStart, AccountKept, PTL DEF IdentitySpec

(* No path leads an unverified address to an active account, not that over *)
(* a freeze either (update_account_status checks email_verified_at).       *)
THEOREM ActiveIsVerifiedHolds == IdentitySpec => []ActiveIsVerified
<1>1. AccountInv => ActiveIsVerified
  BY DEF AccountInv
<1>2. QED
  BY <1>1, AccountHolds, PTL

(* Only unfreeze ends a freeze: every request finds the account frozen     *)
(* when it comes to write the user row (consume_email_verification).       *)
THEOREM FreezeEndsByOperatorHolds == IdentitySpec => FreezeEndsByOperator
<1>1. TypesInv /\ [IdentityNext]_identityVars =>
        [user.status = "frozen" /\ user'.status # "frozen" => call' = call]_identityVars
  <2> SUFFICES ASSUME TypesInv, IdentityNext, user.status = "frozen",
                      user'.status # "frozen"
               PROVE  call' = call
    OBVIOUS
  <2> USE DEF TypesInv
  <2>1. ASSUME NEW c \in Calls, Bystander(c) PROVE FALSE
    BY <2>1, BystandersStandBy
  <2>2. ASSUME NEW c \in Calls, register(c) \/ consume_email_verification(c) PROVE FALSE
    BY <2>2 DEF register, consume_email_verification, verifiable
  <2>3. ASSUME NEW c \in Calls,
               reset_locks(c) \/ reset_password(c) \/ enforce_key_limit(c)
                 \/ create_key(c) \/ dies(c)
        PROVE  FALSE
    BY <2>3 DEF reset_locks, reset_password, enforce_key_limit, create_key, dies,
                IdentityTypeOK
  <2>4. CASE apply_user_freeze
    BY <2>4 DEF apply_user_freeze
  <2>5. CASE unfreeze
    BY <2>5 DEF unfreeze
  <2>6. QED
    BY <2>1, <2>2, <2>3, <2>4, <2>5 DEF IdentityNext, Bystander
<1>2. QED
  BY <1>1, TypesHold, PTL DEF IdentitySpec, FreezeEndsByOperator

-----------------------------------------------------------------------------
(* Keys and links                                                          *)

ActiveKeys == Active(key)
RoomForKey == \A c \in Calls : call[c].at = "insert_key" =>
                  Cardinality(ActiveKeys) < MaxActiveKeys
(* Who is about to log in during a freeze read the account before it.      *)
LoginsOvertaken ==
    user.status = "frozen" => \A c \in Calls : At(c, "login") => c \in overtaken
KeyInv ==
    /\ AccountInv
    /\ KeysWithinLimit /\ RoomForKey
    /\ FrozenIsLockedOut /\ LoginsOvertaken

LEMMA KeyCounting ==
    ASSUME TypesInv
    PROVE  /\ IsFiniteSet(ActiveKeys) /\ Cardinality(ActiveKeys) \in Nat
           /\ \A ks \in SUBSET ActiveKeys : Cardinality(ks) <= Cardinality(ActiveKeys)
           /\ \A c \in Calls : Cardinality(ActiveKeys \cup {c}) <= Cardinality(ActiveKeys) + 1
<1>1. IsFiniteSet(ActiveKeys)
  <2>1. ActiveKeys \in SUBSET Calls
    BY DEF ActiveKeys, Active
  <2>2. QED
    BY <2>1, FS_Subset, IdentityAssumption
<1>2. Cardinality(ActiveKeys) \in Nat
  BY <1>1, FS_CardinalityType
<1>3. QED
  BY <1>1, <1>2, FS_Subset, FS_AddElement

(* No new key: fewer or the same, and nobody new before its insert.        *)
LEMMA KeysKept ==
    ASSUME KeyInv, TypesInv', ActiveKeys' \subseteq ActiveKeys,
           \A c \in Calls : call'[c].at = "insert_key" =>
              call[c].at = "insert_key" \/ Cardinality(ActiveKeys) < MaxActiveKeys
    PROVE  KeysWithinLimit' /\ RoomForKey'
<1>1. Cardinality(ActiveKeys) \in Nat /\ Cardinality(ActiveKeys') \in Nat
        /\ Cardinality(ActiveKeys') <= Cardinality(ActiveKeys)
  <2>1. TypesInv
    BY DEF KeyInv, AccountInv
  <2>2. IsFiniteSet(ActiveKeys) /\ Cardinality(ActiveKeys) \in Nat
          /\ \A ks \in SUBSET ActiveKeys : Cardinality(ks) <= Cardinality(ActiveKeys)
    BY <2>1, KeyCounting
  <2>3. IsFiniteSet(ActiveKeys') /\ ActiveKeys' \in SUBSET ActiveKeys
    BY <2>2, FS_Subset
  <2>4. QED
    BY <2>2, <2>3, FS_CardinalityType
<1>2. MaxActiveKeys \in Nat
  BY IdentityAssumption
<1>3. Cardinality(ActiveKeys) <= MaxActiveKeys
  BY DEF KeyInv, KeysWithinLimit, ActiveKeys
<1>4. KeysWithinLimit'
  <2>1. Cardinality(ActiveKeys') <= MaxActiveKeys
    BY <1>1, <1>2, <1>3
  <2>2. QED
    BY <2>1 DEF KeysWithinLimit, ActiveKeys
<1>5. RoomForKey'
  <2>1. SUFFICES ASSUME NEW c \in Calls, call'[c].at = "insert_key"
                 PROVE  Cardinality(ActiveKeys') < MaxActiveKeys
    BY DEF RoomForKey
  <2>2. Cardinality(ActiveKeys) < MaxActiveKeys
    BY <2>1 DEF KeyInv, RoomForKey
  <2>3. QED
    BY <1>1, <1>2, <2>2
<1>6. QED
  BY <1>4, <1>5

(* Every step but create_key leaves no more keys, and leads nobody but a   *)
(* call below the cap to its insert.                                       *)
LEMMA NoNewcomer ==
    ASSUME NEW c \in Calls, \A d \in Calls \ {c} : call'[d] = call[d],
           call'[c].at # "insert_key"
    PROVE  \A d \in Calls : call'[d].at = "insert_key" => call[d].at = "insert_key"
OBVIOUS

LEMMA MailSteps ==
    ASSUME TypesInv, NEW c \in Calls,
           \/ register(c) \/ finds_links(c) \/ replaces_links(c) \/ inserts_link(c)
           \/ request_password_reset(c) \/ send(c) \/ send_failed(c)
    PROVE  /\ key' = key
           /\ \A d \in Calls : call'[d].at = "insert_key" => call[d].at = "insert_key"
<1> USE DEF TypesInv
<1>1. key' = key
  BY DEF register, finds_links, replaces_links, inserts_link, request_password_reset, send,
         send_failed
<1>2. call \in [Calls -> CallState]
  BY DEF IdentityTypeOK
<1>3. (\A d \in Calls \ {c} : call'[d] = call[d]) /\ call'[c].at # "insert_key"
  <2>1. CASE register(c)
    BY <2>1, <1>2 DEF register, Start, CallState
  <2>2. CASE finds_links(c) \/ replaces_links(c)
    BY <2>2, <1>2 DEF finds_links, replaces_links, CallState
  <2>3. CASE inserts_link(c)
    BY <2>3, <1>2 DEF inserts_link, CallState
  <2>4. CASE request_password_reset(c)
    BY <2>4, <1>2 DEF request_password_reset, Goto, CallState
  <2>5. CASE send(c)
    BY <2>5, <1>2 DEF send, Goto, Finish, Idle, CallState
  <2>6. CASE send_failed(c)
    BY <2>6, <1>2 DEF send_failed, Finish, Idle
  <2>7. QED
    BY <2>1, <2>2, <2>3, <2>4, <2>5, <2>6
<1>4. QED
  BY <1>1, <1>3, NoNewcomer

LEMMA UsesOfLinks ==
    ASSUME TypesInv, NEW c \in Calls,
           \/ \E t \in Calls : verify_email(c, t) \/ perform_password_reset(c, t)
           \/ consume_email_verification(c) \/ reset_locks(c) \/ reset_password(c)
    PROVE  /\ key' = key \/ key' = Revoke(key)
           /\ \A d \in Calls : call'[d].at = "insert_key" => call[d].at = "insert_key"
<1> USE DEF TypesInv
<1>1. key' = key \/ key' = Revoke(key)
  BY DEF verify_email, perform_password_reset, consume_email_verification, reset_locks,
         reset_password
<1>2. call \in [Calls -> CallState]
  BY DEF IdentityTypeOK
<1>3. (\A d \in Calls \ {c} : call'[d] = call[d]) /\ call'[c].at # "insert_key"
  <2>1. ASSUME NEW t \in Calls, verify_email(c, t) \/ perform_password_reset(c, t)
        PROVE  (\A d \in Calls \ {c} : call'[d] = call[d]) /\ call'[c].at # "insert_key"
    BY <2>1, <1>2 DEF verify_email, perform_password_reset, Start, CallState
  <2>2. CASE consume_email_verification(c)
    BY <2>2, <1>2 DEF consume_email_verification, Finish, Idle
  <2>3. CASE reset_locks(c)
    BY <2>3, <1>2 DEF reset_locks, Goto, Finish, Idle, CallState
  <2>4. CASE reset_password(c)
    BY <2>4, <1>2 DEF reset_password, Finish, Idle
  <2>5. QED
    BY <2>1, <2>2, <2>3, <2>4
<1>4. QED
  BY <1>1, <1>3, NoNewcomer

LEMMA CredentialsUsed ==
    ASSUME TypesInv, NEW c \in Calls,
           \/ login(c) \/ login_inserts(c) \/ \E s \in Calls : require_session(c, s)
           \/ revoke_key(c) \/ logout_all(c) \/ dies(c)
    PROVE  /\ ActiveKeys' \subseteq ActiveKeys
           /\ \A d \in Calls : call'[d].at = "insert_key" => call[d].at = "insert_key"
<1> USE DEF TypesInv
<1>1. key \in [Calls -> Credential] /\ call \in [Calls -> CallState]
  BY DEF IdentityTypeOK
<1>2. ActiveKeys' \subseteq ActiveKeys
  <2>1. CASE revoke_key(c)
    BY <2>1, <1>1 DEF revoke_key, ActiveKeys, Active, Credential
  <2>2. CASE key' = key
    BY <2>2 DEF ActiveKeys, Active
  <2>3. QED
    BY <2>1, <2>2 DEF login, login_inserts, require_session, logout_all, dies
<1>3. (\A d \in Calls \ {c} : call'[d] = call[d]) /\ call'[c].at # "insert_key"
  <2>1. CASE login(c)
    BY <2>1, <1>1 DEF login, CallState
  <2>2. ASSUME NEW s \in Calls, require_session(c, s)
        PROVE  (\A d \in Calls \ {c} : call'[d] = call[d]) /\ call'[c].at # "insert_key"
    BY <2>2, <1>1 DEF require_session, Start, CallState, Active
  <2>3. CASE login_inserts(c) \/ revoke_key(c) \/ logout_all(c) \/ dies(c)
    BY <2>3, <1>1 DEF login_inserts, revoke_key, logout_all, dies, Finish, Idle
  <2>4. QED
    BY <2>1, <2>2, <2>3
<1>4. QED
  BY <1>2, <1>3, NoNewcomer

(* Under the lock a key is counted, and nobody else can be past the count. *)
LEMMA KeyCreated ==
    ASSUME KeyInv, TypesInv', NEW c \in Calls, create_key(c)
    PROVE  KeysWithinLimit' /\ RoomForKey'
<1>1. TypesInv /\ IdentityTypeOK
  BY DEF KeyInv, AccountInv, TypesInv
<1>2. call[c].at = "insert_key" /\ lock = c /\ lock' = Nobody
  BY <1>1 DEF create_key, At, IdentityTypeOK
<1>3. Cardinality(ActiveKeys) < MaxActiveKeys
  BY <1>2 DEF KeyInv, RoomForKey
<1>4. ActiveKeys' = ActiveKeys \cup {c}
  BY <1>1 DEF create_key, ActiveKeys, Active, IdentityTypeOK
<1>5. KeysWithinLimit'
  <2>1. Cardinality(ActiveKeys) \in Nat
          /\ Cardinality(ActiveKeys \cup {c}) <= Cardinality(ActiveKeys) + 1
    BY <1>1, KeyCounting
  <2>2. Cardinality(ActiveKeys \cup {c}) \in Nat
    <3>1. IsFiniteSet(ActiveKeys)
      BY <1>1, KeyCounting
    <3>2. QED
      BY <3>1, FS_AddElement, FS_CardinalityType
  <2>3. Cardinality(ActiveKeys \cup {c}) <= MaxActiveKeys
    BY <2>1, <2>2, <1>3, IdentityAssumption
  <2>4. QED
    BY <2>3, <1>4 DEF KeysWithinLimit, ActiveKeys
<1>6. RoomForKey'
  <2>1. \A d \in Calls : call'[d].at # "insert_key"
    BY <1>2, IdentityAssumption DEF TypesInv, IdentityTypeOK
  <2>2. QED
    BY <2>1 DEF RoomForKey
<1>7. QED
  BY <1>5, <1>6

LEMMA KeyLimitEnforced ==
    ASSUME KeyInv, TypesInv', NEW c \in Calls, enforce_key_limit(c)
    PROVE  KeysWithinLimit' /\ RoomForKey'
<1>1. IdentityTypeOK
  BY DEF KeyInv, AccountInv, TypesInv
<1>2. ActiveKeys' \subseteq ActiveKeys
  BY DEF enforce_key_limit, ActiveKeys, Active
<1>3. \A d \in Calls : call'[d].at = "insert_key" =>
         call[d].at = "insert_key" \/ Cardinality(ActiveKeys) < MaxActiveKeys
  <2>1. CASE below_key_limit
    BY <2>1 DEF below_key_limit, ActiveKeys
  <2>2. CASE ~below_key_limit
    BY <2>2, <1>1 DEF enforce_key_limit, Finish, Idle, IdentityTypeOK
  <2>3. QED
    BY <2>1, <2>2
<1>4. QED
  BY <1>2, <1>3, KeysKept

LEMMA KeysBounded ==
    ASSUME KeyInv, [IdentityNext]_identityVars
    PROVE  KeysWithinLimit' /\ RoomForKey'
<1>1. TypesInv /\ TypesInv'
  BY TypesKept DEF KeyInv, AccountInv
<1>2. key \in [Calls -> Credential]
  BY <1>1 DEF TypesInv, IdentityTypeOK
<1>3. ASSUME key' = key \/ key' = Revoke(key) PROVE ActiveKeys' \subseteq ActiveKeys
  BY <1>2, <1>3, Revoking DEF ActiveKeys, Active
<1>4. ASSUME NEW c \in Calls,
             \/ register(c) \/ finds_links(c) \/ replaces_links(c) \/ inserts_link(c)
             \/ request_password_reset(c) \/ send(c) \/ send_failed(c)
      PROVE  KeysWithinLimit' /\ RoomForKey'
  BY <1>1, <1>3, <1>4, MailSteps, KeysKept
<1>5. ASSUME NEW c \in Calls,
             \/ \E t \in Calls : verify_email(c, t) \/ perform_password_reset(c, t)
             \/ consume_email_verification(c) \/ reset_locks(c) \/ reset_password(c)
      PROVE  KeysWithinLimit' /\ RoomForKey'
  BY <1>1, <1>3, <1>5, UsesOfLinks, KeysKept
<1>6. ASSUME NEW c \in Calls,
             \/ login(c) \/ login_inserts(c) \/ \E s \in Calls : require_session(c, s)
             \/ revoke_key(c) \/ logout_all(c) \/ dies(c)
      PROVE  KeysWithinLimit' /\ RoomForKey'
  BY <1>1, <1>6, CredentialsUsed, KeysKept
<1>7. ASSUME NEW c \in Calls, enforce_key_limit(c) \/ create_key(c)
      PROVE  KeysWithinLimit' /\ RoomForKey'
  BY <1>1, <1>7, KeyCreated, KeyLimitEnforced
<1>8. CASE apply_user_freeze \/ unfreeze \/ UNCHANGED identityVars
  <2>1. (key' = key \/ key' = Revoke(key)) /\ call' = call
    BY <1>8 DEF apply_user_freeze, unfreeze, identityVars
  <2>2. QED
    BY <2>1, <1>1, <1>3, KeysKept
<1>9. QED
  BY <1>4, <1>5, <1>6, <1>7, <1>8 DEF IdentityNext

LEMMA OnlyFreezeFreezes ==
    ASSUME IdentityTypeOK, [IdentityNext]_identityVars, ~apply_user_freeze,
           user'.status = "frozen"
    PROVE  user.status = "frozen"
<1>1. ASSUME NEW c \in Calls, Bystander(c) PROVE user.status = "frozen"
  BY <1>1, BystandersStandBy
<1>2. ASSUME NEW c \in Calls, register(c) \/ consume_email_verification(c)
      PROVE  user.status = "frozen"
  BY <1>2 DEF register, consume_email_verification, IdentityTypeOK
<1>3. ASSUME NEW c \in Calls,
             reset_locks(c) \/ reset_password(c) \/ enforce_key_limit(c) \/ create_key(c)
               \/ dies(c)
      PROVE  user.status = "frozen"
  BY <1>3 DEF reset_locks, reset_password, enforce_key_limit, create_key, dies,
              IdentityTypeOK
<1>4. CASE unfreeze
  BY <1>4 DEF unfreeze, IdentityTypeOK
<1>5. CASE UNCHANGED identityVars
  BY <1>5 DEF identityVars
<1>6. QED
  BY <1>1, <1>2, <1>3, <1>4, <1>5 DEF IdentityNext, Bystander

(* What a freeze has taken away stays away: who could bring it back works  *)
(* under the lock, on an active account.                                   *)
LEMMA LockedOutKept ==
    ASSUME KeyInv, [IdentityNext]_identityVars
    PROVE  user'.status = "frozen" => Active(key)' = {} /\ Live(reset)' = {}
<1>1. TypesInv /\ TypesInv' /\ LockedIsActive /\ FrozenIsLockedOut
  BY TypesKept DEF KeyInv, AccountInv
<1>2. /\ key \in [Calls -> Credential] /\ reset \in [Calls -> LinkStates]
      /\ call \in [Calls -> CallState]
  BY <1>1 DEF TypesInv, IdentityTypeOK
<1>3. SUFFICES ASSUME user'.status = "frozen" PROVE Active(key)' = {} /\ Live(reset)' = {}
  OBVIOUS
<1>4. CASE apply_user_freeze
  <2>1. key' = Revoke(key) /\ reset' = Consume(reset, Live(reset))
    BY <1>4 DEF apply_user_freeze, links_after_freeze
  <2>2. Live(reset) \in SUBSET Calls
    BY DEF Live
  <2>3. Active(Revoke(key)) = {} /\ Live(Consume(reset, Live(reset))) = {}
    BY <1>2, <2>2, Revoking, Consuming
  <2>4. QED
    BY <2>1, <2>3 DEF Active, Live
<1>5. CASE ~apply_user_freeze
  <2>1. user.status = "frozen"
    BY <1>1, <1>3, <1>5, OnlyFreezeFreezes DEF TypesInv
  <2>2. lock = Nobody /\ Active(key) = {} /\ Live(reset) = {}
    BY <2>1, <1>1 DEF LockedIsActive, FrozenIsLockedOut
  <2>3. \A c \in Calls : call[c].at \notin {"hash", "insert_key"}
    BY <2>2, <1>1, IdentityAssumption DEF TypesInv, IdentityTypeOK
  <2>4. Live(reset)' = {}
    <3>1. ASSUME NEW c \in Calls, reset_locks(c) \/ send_failed(c) PROVE Live(reset)' = {}
      <4>1. CASE reset_locks(c)
        BY <4>1, <2>1, <2>2 DEF reset_locks, Live, Consume
      <4>2. CASE send_failed(c)
        BY <4>2, <2>2 DEF send_failed, Live, Consume
      <4>3. QED
        BY <3>1, <4>1, <4>2
    <3>2. CASE reset' = reset
      BY <3>2, <2>2 DEF Live
    <3>3. QED
      BY <3>1, <3>2, <2>1, <2>3, <1>5
      DEF IdentityNext, identityVars, At, register, finds_links, replaces_links, inserts_link,
          request_password_reset, send, verify_email, perform_password_reset,
          consume_email_verification, reset_password, login, login_inserts,
          require_session, enforce_key_limit, create_key, revoke_key, logout_all, dies,
          unfreeze
  <2>5. Active(key)' = {}
    <3>1. ASSUME NEW c \in Calls, revoke_key(c) PROVE Active(key)' = {}
      BY <3>1, <2>2, <1>2 DEF revoke_key, Active, Credential
    <3>2. CASE key' = key
      BY <3>2, <2>2 DEF Active
    <3>3. QED
      BY <3>1, <3>2, <2>1, <2>3, <1>5
      DEF IdentityNext, identityVars, At, register, finds_links, replaces_links, inserts_link,
          request_password_reset, send, send_failed, verify_email, perform_password_reset,
          consume_email_verification, reset_locks, reset_password, login, login_inserts,
          require_session, enforce_key_limit, create_key, logout_all, dies, unfreeze
  <2>6. QED
    BY <2>4, <2>5
<1>6. QED
  BY <1>4, <1>5

(* During a freeze nobody comes to a login's insert.                       *)
LEMMA NoNewLogin ==
    ASSUME IdentityTypeOK, [IdentityNext]_identityVars, ~apply_user_freeze,
           user.status = "frozen"
    PROVE  \A d \in Calls : At(d, "login")' => At(d, "login")
<1>1. call \in [Calls -> CallState]
  BY DEF IdentityTypeOK
<1>2. ASSUME NEW c \in Calls, \A d \in Calls \ {c} : call'[d] = call[d],
             call'[c].at # "login"
      PROVE  \A d \in Calls : At(d, "login")' => At(d, "login")
  BY <1>2 DEF At
<1>3. ASSUME NEW c \in Calls, NEW step \in Steps \ {"login"}, Goto(c, step)
      PROVE  \A d \in Calls : At(d, "login")' => At(d, "login")
  BY <1>2, <1>3, Going
<1>4. ASSUME NEW c \in Calls, Finish(c)
      PROVE  \A d \in Calls : At(d, "login")' => At(d, "login")
  BY <1>2, <1>4, Finishing
<1>5. ASSUME NEW c \in Calls, NEW step \in Steps \ {"login"},
             NEW t \in Calls \cup {Nobody}, Start(c, step, t)
      PROVE  \A d \in Calls : At(d, "login")' => At(d, "login")
  BY <1>2, <1>5, Starting
<1>6. ASSUME NEW c \in Calls,
             \/ register(c) \/ \E s \in Calls : require_session(c, s)
             \/ \E t \in Calls : verify_email(c, t) \/ perform_password_reset(c, t)
      PROVE  \A d \in Calls : At(d, "login")' => At(d, "login")
  <2>1. \E t \in Calls \cup {Nobody} :
           \/ Start(c, "issue", t) \/ Start(c, "verify", t) \/ Start(c, "reset", t)
           \/ Start(c, "create_key", t) \/ Start(c, "logout_all", t)
           \/ Start(c, "revoke_key", t)
    BY <1>6
    DEF register, require_session, verify_email, perform_password_reset, Active
  <2>2. QED
    BY <1>5, <2>1 DEF Steps
<1>7. ASSUME NEW c \in Calls,
             \/ request_password_reset(c) \/ send(c) \/ send_failed(c)
             \/ consume_email_verification(c) \/ reset_locks(c) \/ reset_password(c)
             \/ login_inserts(c) \/ enforce_key_limit(c) \/ create_key(c)
             \/ revoke_key(c) \/ logout_all(c) \/ dies(c)
      PROVE  \A d \in Calls : At(d, "login")' => At(d, "login")
  <2>1. \/ Finish(c) \/ Goto(c, "mail_reset") \/ Goto(c, "mail_failed")
        \/ Goto(c, "hash") \/ Goto(c, "insert_key")
    BY <1>7
    DEF request_password_reset, send, send_failed, consume_email_verification,
        reset_locks, reset_password, login_inserts, enforce_key_limit, create_key,
        revoke_key, logout_all, dies
  <2>2. QED
    BY <1>3, <1>4, <2>1 DEF Steps
<1>8. ASSUME NEW c \in Calls, finds_links(c) \/ replaces_links(c) \/ inserts_link(c)
      PROVE  \A d \in Calls : At(d, "login")' => At(d, "login")
  <2>1. (\A d \in Calls \ {c} : call'[d] = call[d]) /\ call'[c].at # "login"
    BY <1>1, <1>8 DEF finds_links, replaces_links, inserts_link, CallState
  <2>2. QED
    BY <1>2, <2>1
<1>9. ASSUME NEW c \in Calls, login(c) PROVE FALSE
  BY <1>9 DEF login
<1>10. CASE unfreeze \/ UNCHANGED identityVars
  BY <1>10 DEF unfreeze, identityVars, At
<1>11. QED
  BY <1>6, <1>7, <1>8, <1>9, <1>10 DEF IdentityNext

(* A session that is there during a freeze is one of a login it overtook.  *)
LEMMA OvertakenKept ==
    ASSUME KeyInv, [IdentityNext]_identityVars, user'.status = "frozen"
    PROVE  /\ Active(session)' \subseteq overtaken'
           /\ \A d \in Calls : At(d, "login")' => d \in overtaken'
<1>1. TypesInv /\ LockedIsActive /\ FrozenIsLockedOut /\ LoginsOvertaken
  BY DEF KeyInv, AccountInv
<1>2. session \in [Calls -> Credential]
  BY <1>1 DEF TypesInv, IdentityTypeOK
<1>3. CASE apply_user_freeze
  <2>1. session' = Revoke(session) /\ call' = call
    BY <1>3 DEF apply_user_freeze
  <2>2. overtaken' = overtaken
                       \cup {c \in Calls : At(c, "login") \/ At(c, "create_key")}
    BY <1>3 DEF apply_user_freeze
  <2>3. Active(session)' = {}
    BY <1>2, <2>1, Revoking DEF Active
  <2>4. QED
    BY <2>1, <2>2, <2>3 DEF At
<1>4. CASE ~apply_user_freeze
  <2>1. user.status = "frozen"
    BY <1>1, <1>4, OnlyFreezeFreezes DEF TypesInv
  <2>2. /\ lock = Nobody /\ Active(session) \subseteq overtaken
        /\ \A c \in Calls : At(c, "login") => c \in overtaken
    BY <2>1, <1>1 DEF LockedIsActive, FrozenIsLockedOut, LoginsOvertaken
  <2>3. \A c \in Calls : ~reset_password(c)
    BY <2>2, <1>1, IdentityAssumption DEF reset_password, At, TypesInv, IdentityTypeOK
  <2>4. overtaken' = overtaken
    BY <1>4, <2>3
    DEF IdentityNext, identityVars, register, finds_links, replaces_links, inserts_link,
        request_password_reset, send, send_failed, verify_email, perform_password_reset,
        consume_email_verification, reset_locks, login, login_inserts, require_session,
        enforce_key_limit, create_key, revoke_key, logout_all, dies, unfreeze
  <2>5. Active(session)' \subseteq overtaken
    <3>1. ASSUME NEW c \in Calls, login_inserts(c)
          PROVE  Active(session)' \subseteq overtaken
      <4>1. c \in overtaken /\ \A d \in Calls \ {c} : session'[d] = session[d]
        BY <2>2, <3>1, <1>2 DEF login_inserts
      <4>2. QED
        BY <2>2, <4>1 DEF Active
    <3>2. ASSUME NEW c \in Calls, logout_all(c)
          PROVE  Active(session)' \subseteq overtaken
      <4>1. session' = Revoke(session)
        BY <3>2 DEF logout_all
      <4>2. QED
        BY <1>2, <4>1, Revoking DEF Active
    <3>3. CASE session' = session
      BY <2>2, <3>3 DEF Active
    <3>4. QED
      BY <1>4, <2>3, <3>1, <3>2, <3>3
      DEF IdentityNext, identityVars, register, finds_links, replaces_links, inserts_link,
          request_password_reset, send, send_failed, verify_email, perform_password_reset,
          consume_email_verification, reset_locks, login, require_session,
          enforce_key_limit, create_key, revoke_key, dies, unfreeze
  <2>6. \A d \in Calls : At(d, "login")' => At(d, "login")
    BY <1>1, <1>4, <2>1, NoNewLogin DEF TypesInv
  <2>7. QED
    BY <2>2, <2>4, <2>5, <2>6
<1>5. QED
  BY <1>3, <1>4

LEMMA KeysHold == IdentitySpec => []KeyInv
<1>1. IdentityInit => KeyInv
  <2> SUFFICES ASSUME IdentityInit PROVE KeyInv
    OBVIOUS
  <2>1. AccountInv
    BY AccountAtStart
  <2>2. Active(key) = {} /\ Live(reset) = {}
    BY DEF IdentityInit, Active, NoCredential, Live
  <2>3. KeysWithinLimit
    BY <2>2, FS_EmptySet, IdentityAssumption DEF KeysWithinLimit
  <2>4. RoomForKey
    BY DEF IdentityInit, RoomForKey, Idle
  <2>5. Active(session) = {} /\ \A c \in Calls : ~At(c, "login")
    BY DEF IdentityInit, Active, NoCredential, At, Idle
  <2>6. QED
    BY <2>1, <2>2, <2>3, <2>4, <2>5 DEF KeyInv, FrozenIsLockedOut, LoginsOvertaken
<1>2. KeyInv /\ [IdentityNext]_identityVars => KeyInv'
  <2> SUFFICES ASSUME KeyInv, [IdentityNext]_identityVars PROVE KeyInv'
    OBVIOUS
  <2>1. FrozenIsLockedOut' /\ LoginsOvertaken'
    BY LockedOutKept, OvertakenKept DEF FrozenIsLockedOut, LoginsOvertaken
  <2>2. QED
    BY <2>1, AccountKept, KeysBounded DEF KeyInv
<1>3. QED
  BY <1>1, <1>2, PTL DEF IdentitySpec

(* The cap on active keys holds for any number of overlapping creations:   *)
(* they count under the user row's lock (enforce_key_limit).               *)
THEOREM KeysWithinLimitHolds == IdentitySpec => []KeysWithinLimit
<1>1. KeyInv => KeysWithinLimit
  BY DEF KeyInv
<1>2. QED
  BY <1>1, KeysHold, PTL

(* No request that was under way when apply_user_freeze ran leaves a       *)
(* working key or reset link behind it, and no session but that of a login *)
(* that had read the account before.                                       *)
THEOREM FrozenIsLockedOutHolds == IdentitySpec => []FrozenIsLockedOut
<1>1. KeyInv => FrozenIsLockedOut
  BY DEF KeyInv
<1>2. QED
  BY <1>1, KeysHold, PTL

-----------------------------------------------------------------------------
(* Reset links                                                             *)

AtReset(c) == call[c].at \in {"reset", "hash"}
LinkPlaces ==
    /\ \A c \in Calls : call[c].at = "idle" => reset[c] = "absent"
    /\ \A c \in Calls : AtReset(c) => reset[call[c].about] # "absent"
OneLive == \A s, t \in Calls : reset[s] = "live" /\ reset[t] = "live" => s = t
ChangesCounted ==
    /\ user.password = Cardinality(changed)
    /\ \A t \in changed : reset[t] = "consumed"
LinkInv == TypesInv /\ LinkPlaces /\ OneLive /\ ChangesCounted

(* A step that issues no link and changes no password.                     *)
OnlyUsesUp ==
    \A t \in Calls : \/ reset'[t] = reset[t]
                     \/ reset[t] # "absent" /\ reset'[t] = "consumed"
MovesOn ==
    \A c \in Calls :
        /\ call'[c].at = "idle" => call[c].at = "idle" /\ reset'[c] = reset[c]
        /\ AtReset(c)' => \/ AtReset(c) /\ call'[c].about = call[c].about
                          \/ reset[call'[c].about] = "live"

LEMMA LinksUsedUp ==
    ASSUME LinkInv, TypesInv', OnlyUsesUp, MovesOn, user'.password = user.password,
           changed' = changed
    PROVE  LinkInv'
<1> USE DEF LinkInv
<1>1. /\ reset \in [Calls -> LinkStates] /\ changed \in SUBSET Calls
      /\ \A c \in Calls : AtReset(c)' => call'[c].about \in Calls
  BY DEF TypesInv, IdentityTypeOK, AboutSomething, AtReset, Dealing
<1>2. LinkPlaces'
  BY <1>1 DEF LinkPlaces, OnlyUsesUp, MovesOn
<1>3. OneLive'
  BY DEF OneLive, OnlyUsesUp
<1>4. ChangesCounted'
  BY <1>1 DEF ChangesCounted, OnlyUsesUp
<1>5. QED
  BY <1>2, <1>3, <1>4

(* One call moves, and it was not idle or starts on a link that is live.   *)
LEMMA MovingOn ==
    ASSUME NEW c \in Calls, \A d \in Calls \ {c} : call'[d] = call[d],
           \A d \in Calls \ {c} : call[d].at = "idle" => reset'[d] = reset[d],
           call'[c].at # "idle",
           AtReset(c)' => \/ AtReset(c) /\ call'[c].about = call[c].about
                         \/ reset[call'[c].about] = "live"
    PROVE  MovesOn
BY DEF MovesOn, AtReset

(* The steps that leave the reset links alone.                             *)
LEMMA OtherSteps ==
    ASSUME LinkInv, NEW c \in Calls,
           \/ register(c) \/ finds_links(c) \/ replaces_links(c)
           \/ inserts_link(c) \/ send(c)
           \/ \E t \in Calls : verify_email(c, t) \/ perform_password_reset(c, t)
           \/ consume_email_verification(c)
           \/ login(c) \/ login_inserts(c) \/ \E s \in Calls : require_session(c, s)
           \/ enforce_key_limit(c) \/ create_key(c) \/ revoke_key(c) \/ logout_all(c)
           \/ dies(c)
    PROVE  /\ OnlyUsesUp /\ MovesOn
           /\ user'.password = user.password /\ changed' = changed
<1>1. /\ call \in [Calls -> CallState]
      /\ user \in [status : {"absent", "pending_email", "active", "frozen"},
                   verified : BOOLEAN, password : Nat]
  BY DEF LinkInv, TypesInv, IdentityTypeOK
<1>2. reset' = reset /\ changed' = changed /\ user'.password = user.password
  BY <1>1
  DEF register, finds_links, replaces_links, inserts_link, send, verify_email, perform_password_reset,
      consume_email_verification, login, login_inserts, require_session, enforce_key_limit,
      create_key, revoke_key, logout_all, dies
<1>3. /\ \A d \in Calls \ {c} : call'[d] = call[d]
      /\ call'[c].at # "idle"
      /\ AtReset(c)' => reset[call'[c].about] = "live"
  <2>1. CASE register(c)
    BY <2>1, <1>1 DEF register, Start, CallState, AtReset
  <2>2. CASE finds_links(c) \/ replaces_links(c)
    BY <2>2, <1>1 DEF finds_links, replaces_links, CallState, AtReset
  <2>3. CASE inserts_link(c)
    BY <2>3, <1>1 DEF inserts_link, CallState, AtReset
  <2>4. CASE send(c)
    BY <2>4, <1>1 DEF send, Goto, Finish, Idle, CallState, AtReset
  <2>5. ASSUME NEW t \in Calls, verify_email(c, t)
        PROVE  /\ \A d \in Calls \ {c} : call'[d] = call[d]
               /\ call'[c].at # "idle" /\ ~AtReset(c)'
    <3>1. IdentityTypeOK /\ Start(c, "verify", t) /\ "verify" \in Steps
      BY <2>5 DEF verify_email, LinkInv, TypesInv, Steps
    <3>2. QED
      BY <3>1, Starting DEF AtReset
  <2>6. ASSUME NEW t \in Calls, perform_password_reset(c, t)
        PROVE  /\ \A d \in Calls \ {c} : call'[d] = call[d]
               /\ call'[c].at # "idle" /\ reset[call'[c].about] = "live"
    <3>1. IdentityTypeOK /\ Start(c, "reset", t) /\ reset[t] = "live" /\ "reset" \in Steps
      BY <2>6 DEF perform_password_reset, LinkInv, TypesInv, Steps
    <3>2. QED
      BY <3>1, Starting
  <2>7. CASE login(c)
    BY <2>7, <1>1 DEF login, CallState, AtReset
  <2>8. ASSUME NEW s \in Calls, require_session(c, s)
        PROVE  /\ \A d \in Calls \ {c} : call'[d] = call[d]
               /\ call'[c].at # "idle" /\ ~AtReset(c)'
    BY <2>8, <1>1 DEF require_session, Start, CallState, Active, AtReset
  <2>9. CASE enforce_key_limit(c)
    BY <2>9, <1>1 DEF enforce_key_limit, Goto, Finish, Idle, CallState, AtReset
  <2>10. CASE \/ consume_email_verification(c) \/ login_inserts(c) \/ create_key(c)
              \/ revoke_key(c) \/ logout_all(c) \/ dies(c)
    BY <2>10, <1>1 DEF consume_email_verification, login_inserts, create_key, revoke_key,
                       logout_all, dies, Finish, Idle, AtReset
  <2>11. QED
    BY <2>1, <2>2, <2>3, <2>4, <2>5, <2>6, <2>7, <2>8, <2>9, <2>10
<1>4. MovesOn
  BY <1>2, <1>3, MovingOn
<1>5. QED
  BY <1>2, <1>4 DEF OnlyUsesUp

(* A link is closed: after a failed message, a reset that finds the        *)
(* account frozen, a freeze.                                               *)
LEMMA ClosingSteps ==
    ASSUME LinkInv,
           \/ \E c \in Calls : send_failed(c) \/ reset_locks(c)
           \/ apply_user_freeze \/ unfreeze
    PROVE  /\ OnlyUsesUp /\ MovesOn
           /\ user'.password = user.password /\ changed' = changed
<1>1. /\ call \in [Calls -> CallState] /\ reset \in [Calls -> LinkStates]
      /\ user \in [status : {"absent", "pending_email", "active", "frozen"},
                   verified : BOOLEAN, password : Nat]
  BY DEF LinkInv, TypesInv, IdentityTypeOK
<1>2. ASSUME NEW c \in Calls, send_failed(c)
      PROVE  /\ OnlyUsesUp /\ MovesOn
             /\ user'.password = user.password /\ changed' = changed
  <2>1. OnlyUsesUp
    BY <1>1, <1>2 DEF send_failed, Consume, Live, OnlyUsesUp
  <2>2. MovesOn
    <3>1. \A d \in Calls \ {c} : call'[d] = call[d] /\ reset'[d] = reset[d]
      BY <1>1, <1>2 DEF send_failed, Finish, Consume, Live
    <3>2. call'[c].at = "done"
      BY <1>1, <1>2 DEF send_failed, Finish, Idle
    <3>3. QED
      BY <3>1, <3>2, MovingOn DEF AtReset
  <2>3. QED
    BY <1>2, <2>1, <2>2 DEF send_failed
<1>3. ASSUME NEW c \in Calls, reset_locks(c)
      PROVE  /\ OnlyUsesUp /\ MovesOn
             /\ user'.password = user.password /\ changed' = changed
  <2>1. At(c, "reset") /\ reset[call[c].about] # "absent" /\ LinkPlaces
    BY <1>3 DEF reset_locks, LinkInv, LinkPlaces, AtReset, At
  <2>2. CASE user.status = "active"
    <3>1. reset' = reset /\ Goto(c, "hash") /\ user' = user /\ changed' = changed
      BY <1>3, <2>2 DEF reset_locks
    <3>2. /\ \A d \in Calls \ {c} : call'[d] = call[d]
          /\ call'[c].at = "hash" /\ call'[c].about = call[c].about
      BY <3>1, <1>1 DEF Goto, CallState
    <3>3. MovesOn
      BY <3>1, <3>2, <2>1, MovingOn DEF AtReset, At
    <3>4. QED
      BY <3>1, <3>3 DEF OnlyUsesUp
  <2>3. CASE user.status # "active"
    <3>1. /\ reset' = Consume(reset, {call[c].about}) /\ Finish(c)
          /\ user' = user /\ changed' = changed
      BY <1>3, <2>3 DEF reset_locks
    <3>2. OnlyUsesUp
      BY <3>1, <2>1, <1>1 DEF Consume, OnlyUsesUp
    <3>3. MovesOn
      <4>1. (\A d \in Calls \ {c} : call'[d] = call[d]) /\ call'[c].at = "done"
        BY <3>1, <1>1 DEF Finish, Idle
      <4>2. \A d \in Calls \ {c} : call[d].at = "idle" => reset'[d] = reset[d]
        BY <3>1, <2>1, <1>1 DEF Consume, LinkPlaces
      <4>3. QED
        BY <4>1, <4>2, MovingOn DEF AtReset
    <3>4. QED
      BY <3>1, <3>2, <3>3
  <2>4. QED
    BY <2>2, <2>3
<1>4. ASSUME apply_user_freeze \/ unfreeze
      PROVE  /\ OnlyUsesUp /\ MovesOn
             /\ user'.password = user.password /\ changed' = changed
  <2>1. call' = call /\ changed' = changed /\ user'.password = user.password
    BY <1>4, <1>1 DEF apply_user_freeze, unfreeze
  <2>2. OnlyUsesUp
    BY <1>4, <1>1
    DEF apply_user_freeze, unfreeze, links_after_freeze, Consume, Live, OnlyUsesUp
  <2>3. MovesOn
    <3>1. \A c \in Calls : call[c].at = "idle" => reset'[c] = reset[c]
      BY <2>2 DEF OnlyUsesUp, LinkInv, LinkPlaces
    <3>2. QED
      BY <2>1, <3>1 DEF MovesOn, AtReset
  <2>4. QED
    BY <2>1, <2>2, <2>3
<1>5. QED
  BY <1>2, <1>3, <1>4

(* A new link takes the place of every live one.                           *)
LEMMA LinkIssued ==
    ASSUME LinkInv, TypesInv', NEW c \in Calls, request_password_reset(c)
    PROVE  LinkInv'
<1>1. /\ call \in [Calls -> CallState] /\ reset \in [Calls -> LinkStates]
      /\ changed \in SUBSET Calls
      /\ \A d \in Calls : AtReset(d) => call[d].about \in Calls
  BY DEF LinkInv, TypesInv, IdentityTypeOK, AboutSomething, AtReset, Dealing
<1>2. /\ reset' = [Consume(reset, Live(reset)) EXCEPT ![c] = "live"]
      /\ Goto(c, "mail_reset") /\ changed' = changed /\ user' = user
      /\ call[c].at = "idle"
  BY DEF request_password_reset, At
<1>3. reset[c] = "absent" /\ LinkPlaces /\ ChangesCounted
  BY <1>2 DEF LinkInv, LinkPlaces
<1>4. /\ \A d \in Calls \ {c} : call'[d] = call[d]
      /\ call'[c].at = "mail_reset"
  BY <1>1, <1>2 DEF Goto, CallState
<1>5. /\ reset'[c] = "live"
      /\ \A t \in Calls \ {c} :
            reset'[t] = IF reset[t] = "live" THEN "consumed" ELSE reset[t]
  BY <1>1, <1>2 DEF Consume, Live
<1>6. LinkPlaces'
  BY <1>1, <1>3, <1>4, <1>5 DEF LinkPlaces, AtReset
<1>7. OneLive'
  BY <1>5 DEF OneLive
<1>8. ChangesCounted'
  BY <1>1, <1>2, <1>3, <1>5 DEF ChangesCounted
<1>9. QED
  BY <1>6, <1>7, <1>8 DEF LinkInv

(* The link is still live, so it is not among those that changed the       *)
(* password before.                                                        *)
LEMMA PasswordChanged ==
    ASSUME LinkInv, TypesInv', NEW c \in Calls, reset_password(c)
    PROVE  LinkInv'
<1> DEFINE t == call[c].about
<1>1. /\ call \in [Calls -> CallState] /\ reset \in [Calls -> LinkStates]
      /\ changed \in SUBSET Calls
      /\ user \in [status : {"absent", "pending_email", "active", "frozen"},
                   verified : BOOLEAN, password : Nat]
      /\ \A d \in Calls : AtReset(d) => call[d].about \in Calls
  BY DEF LinkInv, TypesInv, IdentityTypeOK, AboutSomething, AtReset, Dealing
<1>2. call[c].at = "hash" /\ AtReset(c) /\ t \in Calls /\ Finish(c)
  BY <1>1 DEF reset_password, At, AtReset
<1>3. (\A d \in Calls \ {c} : call'[d] = call[d]) /\ call'[c].at = "done"
  BY <1>1, <1>2 DEF Finish, Idle
<1>4. CASE reset[t] = "live"
  <2>1. /\ reset' = [reset EXCEPT ![t] = "consumed"] /\ changed' = changed \cup {t}
        /\ user' = [user EXCEPT !.password = @ + 1]
    BY <1>4 DEF reset_password, still_usable
  <2>2. /\ reset'[t] = "consumed" /\ \A s \in Calls \ {t} : reset'[s] = reset[s]
        /\ user'.password = user.password + 1
    BY <2>1, <1>1, <1>2
  <2>3. t \notin changed /\ LinkPlaces /\ OneLive /\ ChangesCounted
    BY <1>4 DEF LinkInv, ChangesCounted
  <2>4. LinkPlaces'
    BY <1>1, <1>2, <1>3, <1>4, <2>2, <2>3 DEF LinkPlaces, AtReset
  <2>5. OneLive'
    BY <1>2, <2>2, <2>3 DEF OneLive
  <2>6. ChangesCounted'
    <3>1. IsFiniteSet(changed)
      BY <1>1, FS_Subset, IdentityAssumption
    <3>2. Cardinality(changed \cup {t}) = Cardinality(changed) + 1
      BY <3>1, <2>3, FS_AddElement
    <3>3. QED
      BY <1>1, <1>2, <2>1, <2>2, <2>3, <3>2 DEF ChangesCounted
  <2>7. QED
    BY <2>4, <2>5, <2>6 DEF LinkInv
<1>5. CASE reset[t] # "live"
  <2>1. reset' = reset /\ changed' = changed /\ user' = user
    BY <1>5 DEF reset_password, still_usable
  <2>2. MovesOn /\ OnlyUsesUp
    BY <2>1, <1>3, MovingOn DEF AtReset, OnlyUsesUp
  <2>3. QED
    BY <2>1, <2>2, LinksUsedUp
<1>6. QED
  BY <1>4, <1>5

LEMMA LinksHold == IdentitySpec => []LinkInv
<1>1. IdentityInit => LinkInv
  <2> SUFFICES ASSUME IdentityInit PROVE LinkInv
    OBVIOUS
  <2>1. /\ \A c \in Calls : reset[c] = "absent" /\ call[c].at = "idle"
        /\ changed = {} /\ user.password = 0
    BY DEF IdentityInit, Idle
  <2>2. QED
    BY <2>1, TypesAtStart, FS_EmptySet
    DEF LinkInv, LinkPlaces, AtReset, OneLive, ChangesCounted
<1>2. LinkInv /\ [IdentityNext]_identityVars => LinkInv'
  <2> SUFFICES ASSUME LinkInv, [IdentityNext]_identityVars PROVE LinkInv'
    OBVIOUS
  <2>1. TypesInv'
    BY TypesKept DEF LinkInv
  <2>2. CASE UNCHANGED identityVars
    <3>1. OnlyUsesUp /\ MovesOn /\ user'.password = user.password /\ changed' = changed
      BY <2>2 DEF identityVars, OnlyUsesUp, MovesOn, AtReset
    <3>2. QED
      BY <2>1, <3>1, LinksUsedUp
  <2>3. CASE IdentityNext
    BY <2>1, <2>3, OtherSteps, ClosingSteps, LinkIssued, PasswordChanged, LinksUsedUp
    DEF IdentityNext
  <2>4. QED
    BY <2>2, <2>3
<1>3. QED
  BY <1>1, <1>2, PTL DEF IdentitySpec

(* A reset link changes the password at most once, however many requests   *)
(* carry it: reset_password reads it again under the user row's lock.      *)
THEOREM EachResetLinkOnceHolds == IdentitySpec => []EachResetLinkOnce
<1>1. LinkInv => EachResetLinkOnce
  <2> SUFFICES ASSUME LinkInv PROVE Cardinality(Live(reset)) <= 1
    BY DEF LinkInv, ChangesCounted, EachResetLinkOnce
  <2>1. CASE Live(reset) = {}
    BY <2>1, FS_EmptySet
  <2>2. CASE Live(reset) # {}
    <3>1. PICK t \in Live(reset) : Live(reset) = {t}
      BY <2>2 DEF LinkInv, OneLive, Live
    <3>2. Cardinality({t}) = 1
      BY FS_Singleton
    <3>3. QED
      BY <3>1, <3>2
  <2>3. QED
    BY <2>1, <2>2
<1>2. QED
  BY <1>1, LinksHold, PTL
=============================================================================
