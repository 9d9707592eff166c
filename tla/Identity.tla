------------------------------ MODULE Identity ------------------------------
(***************************************************************************)
(* One account and its credentials: e-mail verification, password reset,   *)
(* sessions, API keys and freezes (app/services/identity.py, the identity  *)
(* routes of app/__init__.py and require_session of app/auth.py).          *)
(*                                                                         *)
(* Every call is one HTTP request and is made once; a one-time link, a     *)
(* session and an API key carry the name of the call that made them.       *)
(*                                                                         *)
(* Granularity.  The database runs READ COMMITTED.  A transaction that     *)
(* waits for nothing between its first lock and its commit is one action.  *)
(* The others are cut where another request can come in: after an unlocked *)
(* read, between the check of a session and the work of the route, while   *)
(* create_key or a reset holds the user row, while issue_email_verification*)
(* holds the rows of the links it replaces, and around the mail server.    *)
(* `lock' is the holder of the user row; an INSERT that refers to the user *)
(* waits for it, as PostgreSQL checks the foreign key by a row lock.       *)
(*                                                                         *)
(* E-mail verification is required, as in production.  Left out: what is   *)
(* refused before anything is written (wrong passwords, unknown links,     *)
(* captchas), and expiry, which only turns a later use of a link or a      *)
(* session into a refusal.  An operator named after another with a suffix, *)
(* right before it, is a seeded fault.                                     *)
(***************************************************************************)
EXTENDS Naturals, FiniteSets

CONSTANTS
    Calls,            \* HTTP requests, each made at most once
    Nobody,           \* not a call
    InitialStatuses,  \* bound: where the account may stand at the start
    MaxActiveKeys     \* settings.max_active_api_keys

ASSUME IdentityAssumption ==
    /\ IsFiniteSet(Calls)
    /\ Nobody \notin Calls
    /\ InitialStatuses \subseteq {"absent", "active"}
    /\ MaxActiveKeys \in Nat \ {0}

VARIABLES
    user,     \* users: [status, verified, password]; password counts changes
    verify,   \* email_verification_tokens, one per issuing call
    reset,    \* password_reset_tokens, one per issuing call
    mailed,   \* links the customer has got
    session,  \* access_sessions: [status, password], the one logged in with
    key,      \* api_keys: [status, password], that of the session behind it
    lock,     \* the call that holds the user row FOR UPDATE
    call,     \* where each call is
    changed,  \* history: reset links that have changed the password
    overtaken \* history: calls past a check of the account when it was frozen

identityVars ==
    <<user, verify, reset, mailed, session, key, lock, call, changed,
      overtaken>>
history == <<changed, overtaken>>

LinkStates == {"absent", "live", "consumed"}
Steps ==
    {"idle", "done",
     "issue", "replace", "insert_link",       \* issue_email_verification
     "mail_verification", "mail_reset", "mail_failed",
     "verify", "reset", "hash",               \* the two links
     "login", "create_key", "insert_key", "revoke_key", "logout_all"}
NoCredential == [status |-> "absent", password |-> 0]
Credential == [status : {"absent", "active", "revoked"}, password : Nat]

(* about: the link, session or key it is about; held: link rows it is to   *)
(* replace, and holds once it is at its insert; password: the hash it has  *)
(* seen.                                                                   *)
Idle == [at |-> "idle", about |-> Nobody, held |-> {}, password |-> 0]
CallState ==
    [at : Steps, about : Calls \cup {Nobody}, held : SUBSET Calls, password : Nat]

IdentityTypeOK ==
    /\ user \in [status : {"absent", "pending_email", "active", "frozen"},
                 verified : BOOLEAN, password : Nat]
    /\ verify \in [Calls -> LinkStates]
    /\ reset \in [Calls -> LinkStates]
    /\ mailed \subseteq Calls
    /\ session \in [Calls -> Credential]
    /\ key \in [Calls -> Credential]
    /\ lock \in Calls \cup {Nobody}
    /\ call \in [Calls -> CallState]
    /\ \A c \in Calls : call[c].at \in {"hash", "insert_key"} <=> lock = c
    /\ changed \subseteq Calls
    /\ overtaken \subseteq Calls

IdentityInit ==
    /\ \E s \in InitialStatuses :
          user = [status |-> s, verified |-> s = "active", password |-> 0]
    /\ verify = [c \in Calls |-> "absent"]
    /\ reset = [c \in Calls |-> "absent"]
    /\ mailed = {}
    /\ session = [c \in Calls |-> NoCredential]
    /\ key = [c \in Calls |-> NoCredential]
    /\ lock = Nobody
    /\ call = [c \in Calls |-> Idle]
    /\ changed = {}
    /\ overtaken = {}

At(c, step) == call[c].at = step
Goto(c, step) == call' = [call EXCEPT ![c].at = step]
Start(c, step, about) ==
    /\ At(c, "idle")
    /\ call' = [call EXCEPT ![c].at = step, ![c].about = about]
Finish(c) == call' = [call EXCEPT ![c] = [Idle EXCEPT !.at = "done"]]

Live(links) == {t \in Calls : links[t] = "live"}
Active(credentials) == {k \in Calls : credentials[k].status = "active"}
Consume(links, ts) == [t \in Calls |-> IF t \in ts THEN "consumed" ELSE links[t]]
Revoke(credentials) ==
    [k \in Calls |-> IF credentials[k].status = "active"
                     THEN [credentials[k] EXCEPT !.status = "revoked"]
                     ELSE credentials[k]]

(* Verification links another call has updated and not yet committed.      *)
Held(c) ==
    UNION {call[d].held : d \in {d \in Calls \ {c} : At(d, "insert_link")}}

user_row_free_unlocked(c) == TRUE

(* SELECT ... FOR UPDATE of the user row goes through.                     *)
user_row_free(c) == lock \in {Nobody, c}

-----------------------------------------------------------------------------
(* Links by e-mail                                                         *)

(* A registration of a new address; of a pending one, it only sends a new  *)
(* link, as resend-verification does.                                      *)
register(c) ==
    /\ Start(c, "issue", Nobody)
    /\ \/ /\ user.status = "absent"
          /\ user' = [user EXCEPT !.status = "pending_email"]
       \/ user.status = "pending_email" /\ UNCHANGED user
    /\ UNCHANGED <<verify, reset, mailed, session, key, lock, history>>

(* issue_email_verification never locks the user row.  Its UPDATE finds    *)
(* the links to replace, waits for the rows others hold, and then holds    *)
(* those still unused until the new one is inserted.  A link inserted      *)
(* while it waits is not among them.                                       *)
finds_links(c) ==
    /\ At(c, "issue")
    /\ call' = [call EXCEPT ![c].at = "replace", ![c].held = Live(verify)]
    /\ UNCHANGED <<user, verify, reset, mailed, session, key, lock, history>>

replaces_links(c) ==
    /\ At(c, "replace")
    /\ call[c].held \cap Held(c) = {}
    /\ call' = [call EXCEPT ![c].at = "insert_link",
                            ![c].held = @ \cap Live(verify)]
    /\ UNCHANGED <<user, verify, reset, mailed, session, key, lock, history>>

inserts_link(c) ==
    /\ At(c, "insert_link")
    /\ user_row_free(c)
    /\ verify' = [Consume(verify, call[c].held) EXCEPT ![c] = "live"]
    /\ call' = [call EXCEPT ![c].at = "mail_verification", ![c].held = {}]
    /\ UNCHANGED <<user, reset, mailed, session, key, lock, history>>

request_password_reset(c) ==
    /\ At(c, "idle")
    /\ user_row_free(c)
    /\ user.status = "active"
    /\ reset' = [Consume(reset, Live(reset)) EXCEPT ![c] = "live"]
    /\ Goto(c, "mail_reset")
    /\ UNCHANGED <<user, verify, mailed, session, key, lock, history>>

(* The mail server takes the message, or fails, having delivered it or not.*)
send(c) ==
    /\ call[c].at \in {"mail_verification", "mail_reset"}
    /\ \/ mailed' = mailed \cup {c} /\ Finish(c)
       \/ /\ mailed' \in {mailed, mailed \cup {c}}
          /\ Goto(c, "mail_failed")
    /\ UNCHANGED <<user, verify, reset, session, key, lock, history>>

send_failed(c) ==
    /\ At(c, "mail_failed")
    /\ c \notin Held(c)
    /\ verify' = Consume(verify, {c} \cap Live(verify))
    /\ reset' = Consume(reset, {c} \cap Live(reset))
    /\ Finish(c)
    /\ UNCHANGED <<user, mailed, session, key, lock, history>>

-----------------------------------------------------------------------------
(* POST /auth/verify-email                                                 *)

verify_email(c, t) ==
    /\ t \in mailed
    /\ verify[t] = "live"
    /\ Start(c, "verify", t)
    /\ UNCHANGED <<user, verify, reset, mailed, session, key, lock, history>>

verifiable_unless_active == user.status # "active"
verifiable == user.status = "pending_email"

consume_email_verification(c) ==
    LET t == call[c].about
    IN  /\ At(c, "verify")
        /\ user_row_free(c)
        /\ t \notin Held(c)
        /\ IF verifiable /\ verify[t] = "live"
           THEN /\ verify' = [verify EXCEPT ![t] = "consumed"]
                /\ user' = [user EXCEPT !.status = "active", !.verified = TRUE]
           ELSE UNCHANGED <<verify, user>>
        /\ Finish(c)
        /\ UNCHANGED <<reset, mailed, session, key, lock, history>>

-----------------------------------------------------------------------------
(* POST /auth/reset-password                                               *)

perform_password_reset(c, t) ==
    /\ t \in mailed
    /\ reset[t] = "live"
    /\ Start(c, "reset", t)
    /\ UNCHANGED <<user, verify, reset, mailed, session, key, lock, history>>

(* Under the lock the new password is hashed, which is slow by design.     *)
reset_locks(c) ==
    /\ At(c, "reset")
    /\ user_row_free(c)
    /\ IF user.status = "active"
       THEN lock' = c /\ Goto(c, "hash") /\ UNCHANGED reset
       ELSE /\ reset' = Consume(reset, {call[c].about})
            /\ Finish(c)
            /\ UNCHANGED lock
    /\ UNCHANGED <<user, verify, mailed, session, key, history>>

still_usable_as_read(t) == reset[t] # "absent"
still_usable(t) == reset[t] = "live"

(* The link is read again before it is used up; everything issued before   *)
(* is revoked in the same transaction.                                     *)
reset_password(c) ==
    LET t == call[c].about
    IN  /\ At(c, "hash")
        /\ lock' = Nobody
        /\ IF still_usable(t)
           THEN /\ reset' = [reset EXCEPT ![t] = "consumed"]
                /\ user' = [user EXCEPT !.password = @ + 1]
                /\ session' = Revoke(session)
                /\ key' = Revoke(key)
                /\ changed' = changed \cup {t}
           ELSE UNCHANGED <<reset, user, session, key, changed>>
        /\ Finish(c)
        /\ UNCHANGED <<verify, mailed, overtaken>>

-----------------------------------------------------------------------------
(* Sessions and API keys                                                   *)

(* Reads the user without a lock and verifies the password against it.     *)
login(c) ==
    /\ At(c, "idle")
    /\ user.status = "active" /\ user.verified
    /\ call' = [call EXCEPT ![c].at = "login", ![c].password = user.password]
    /\ UNCHANGED <<user, verify, reset, mailed, session, key, lock, history>>

login_inserts(c) ==
    /\ At(c, "login")
    /\ user_row_free(c)
    /\ session' = [session EXCEPT ![c] =
         [status |-> "active", password |-> call[c].password]]
    /\ Finish(c)
    /\ UNCHANGED <<user, verify, reset, mailed, key, lock, history>>

(* A transaction of its own, before that of the route.                     *)
require_session(c, s) ==
    /\ session[s].status = "active"
    /\ user.status = "active"
    /\ \/ Start(c, "create_key", s)
       \/ Start(c, "logout_all", s)
       \/ \E k \in Active(key) : Start(c, "revoke_key", k)
    /\ UNCHANGED <<user, verify, reset, mailed, session, key, lock, history>>

below_key_limit == Cardinality(Active(key)) < MaxActiveKeys

(* "the serialization point for key creation"                              *)
enforce_key_limit(c) ==
    /\ At(c, "create_key")
    /\ user_row_free(c)
    /\ IF user.status = "active" /\ user.verified /\ below_key_limit
       THEN lock' = c /\ Goto(c, "insert_key")
       ELSE Finish(c) /\ UNCHANGED lock
    /\ UNCHANGED <<user, verify, reset, mailed, session, key, history>>

create_key(c) ==
    /\ At(c, "insert_key")
    /\ key' = [key EXCEPT ![c] =
         [status |-> "active", password |-> session[call[c].about].password]]
    /\ lock' = Nobody
    /\ Finish(c)
    /\ UNCHANGED <<user, verify, reset, mailed, session, history>>

revoke_key(c) ==
    /\ At(c, "revoke_key")
    /\ key' = [key EXCEPT ![call[c].about].status = "revoked"]
    /\ Finish(c)
    /\ UNCHANGED <<user, verify, reset, mailed, session, lock, history>>

logout_all(c) ==
    /\ At(c, "logout_all")
    /\ session' = Revoke(session)
    /\ Finish(c)
    /\ UNCHANGED <<user, verify, reset, mailed, key, lock, history>>

-----------------------------------------------------------------------------
(* Operators and crashes                                                   *)

links_after_freeze_kept(links) == links
links_after_freeze(links) == Consume(links, Live(links))

(* One transaction under the user row's lock; the rows of links that a     *)
(* verification is about to replace make it wait.                          *)
apply_user_freeze ==
    /\ lock = Nobody
    /\ Live(verify) \cap Held(Nobody) = {}
    /\ user.status \in {"pending_email", "active"}
    /\ user' = [user EXCEPT !.status = "frozen"]
    /\ key' = Revoke(key)
    /\ session' = Revoke(session)
    /\ verify' = Consume(verify, Live(verify))
    /\ reset' = links_after_freeze(reset)
    /\ overtaken' = overtaken
                      \cup {c \in Calls : At(c, "login") \/ At(c, "create_key")}
    /\ UNCHANGED <<mailed, lock, call, changed>>

unfreezable_unverified == user.status = "frozen"
unfreezable == user.status = "frozen" /\ user.verified

unfreeze ==
    /\ lock = Nobody
    /\ unfreezable
    /\ user' = [user EXCEPT !.status = "active"]
    /\ UNCHANGED <<verify, reset, mailed, session, key, lock, call, history>>

(* The process dies: what it has not committed is undone.                  *)
dies(c) ==
    /\ call[c].at \notin {"idle", "done"}
    /\ lock' = IF lock = c THEN Nobody ELSE lock
    /\ Finish(c)
    /\ UNCHANGED <<user, verify, reset, mailed, session, key, history>>

IdentityNext ==
    \/ \E c \in Calls :
          \/ register(c)
          \/ finds_links(c) \/ replaces_links(c) \/ inserts_link(c)
          \/ request_password_reset(c)
          \/ send(c) \/ send_failed(c)
          \/ \E t \in Calls : verify_email(c, t) \/ perform_password_reset(c, t)
          \/ consume_email_verification(c)
          \/ reset_locks(c) \/ reset_password(c)
          \/ login(c) \/ login_inserts(c)
          \/ \E s \in Calls : require_session(c, s)
          \/ enforce_key_limit(c) \/ create_key(c)
          \/ revoke_key(c) \/ logout_all(c)
          \/ dies(c)
    \/ apply_user_freeze
    \/ unfreeze

IdentitySpec == IdentityInit /\ [][IdentityNext]_identityVars

-----------------------------------------------------------------------------
(* Properties                                                              *)

(* However many key creations overlap, with each other, with revocations   *)
(* and resets, the customer's active keys stay within the configured cap.  *)
KeysWithinLimit == Cardinality(Active(key)) <= MaxActiveKeys

(* A password-reset link changes the password at most once, though several *)
(* requests may carry it at the same time and each has found it unused;    *)
(* and a newer link replaces the older one.                                *)
EachResetLinkOnce ==
    /\ user.password = Cardinality(changed)
    /\ Cardinality(Live(reset)) <= 1
    /\ \A t \in changed : reset[t] = "consumed"

(* While a freeze lasts no key works and no reset link can be used,        *)
(* whatever was under way when it began; and a session is there only of a  *)
(* login that had read the account before.  (It is refused until the       *)
(* account is active again: see CredentialsEndWithFreeze.)                 *)
FrozenIsLockedOut ==
    user.status = "frozen" =>
        /\ Active(key) = {} /\ Live(reset) = {}
        /\ Active(session) \subseteq overtaken

(* No account becomes active without its address having been verified,     *)
(* also not by being frozen and unfrozen before.                           *)
ActiveIsVerified == user.status = "active" => user.verified

(* A freeze ends only by an operator: no request of the customer, begun    *)
(* before the freeze or during it, brings the account back.                *)
FreezeEndsByOperator ==
    [][user.status = "frozen" /\ user'.status # "frozen" => call' = call]_identityVars

(* What the comment in reset_password promises ("every old session dies"): *)
(* a working session or key goes back to the current password.             *)
OldCredentialsDie ==
    /\ \A s \in Active(session) : session[s].password = user.password
    /\ \A k \in Active(key) : key[k].password = user.password

(* What the comment in the unfreeze route promises ("the owner must        *)
(* authenticate again"): once the account is active again, nothing works   *)
(* that a login or a key creation begun before the freeze has made.        *)
CredentialsEndWithFreeze ==
    user.status = "active" =>
        overtaken \cap (Active(session) \cup Active(key)) = {}
=============================================================================
