------------------------------- MODULE SignIn -------------------------------
(***************************************************************************)
(* Signing in to one account: Login, CompleteMFA and the setup of the      *)
(* second factor in internal/auth/service.go and totp.go, the lockout and  *)
(* the status in repo.go, the sessions in session.go and the middleware in *)
(* middleware.go, with their handlers in internal/httpapi/handlers_auth.go *)
(* and handlers_recovery.go.                                               *)
(*                                                                         *)
(* Browsers of the account's owner sign in and work at the same time,      *)
(* while an administrator changes the account.  No transaction spans a     *)
(* request: what it read may be stale by its next statement.               *)
(***************************************************************************)
EXTENDS Naturals, FiniteSets

CONSTANTS
    Browser,
    MaxFailures,    \* maxFailures of RegisterFailedLogin
    LockTime,       \* lockDuration, in ticks
    MaxSecret,      \* bound: TOTP secrets generated
    MaxTypos,       \* bound: wrong passwords since the last success
    MaxChanges      \* bound: what the administrator does

ASSUME SignInAssumption ==
    /\ MaxFailures \in Nat \ {0} /\ LockTime \in Nat \ {0} /\ MaxSecret \in Nat
    /\ MaxTypos \in Nat /\ MaxChanges \in Nat

VARIABLES
    user,       \* users: status, failed_login_count, ticks to locked_until, mfa_required
    mfa,        \* user_mfa: the secret, 0 for no row, and whether it is confirmed
    secrets,    \* secrets generated
    browser,    \* each browser: the step of its request and the secret it was shown
    session,    \* the row of user_sessions its cookie names: open, or none (any more)
    request,    \* an API request: its step, and whether the account was off when it came
    disabling,  \* handleSetUserStatus is between SetStatus and RevokeAllForUser
    changes

signInVars == <<user, mfa, secrets, browser, session, request, disabling, changes>>

SignInTypeOK ==
    /\ user \in [active : BOOLEAN, failed : 0..MaxTypos, lock : 0..LockTime, required : BOOLEAN]
    /\ mfa \in [secret : 0..MaxSecret, confirmed : BOOLEAN]
    /\ secrets \in 0..MaxSecret
    /\ browser \in [Browser -> [at : {"out", "verified", "verifiedMust", "setup", "enrolling", "confirming", "challenged", "granted"}, secret : 0..MaxSecret]]
    /\ session \in [Browser -> BOOLEAN]
    /\ request \in [at : {"idle", "validated", "admitted", "reauth", "reauthed"}, off : BOOLEAN]
    /\ disabling \in BOOLEAN /\ changes \in 0..MaxChanges

SignInInit ==
    /\ user = [active |-> TRUE, failed |-> 0, lock |-> 0, required |-> TRUE]
    /\ mfa = [secret |-> 0, confirmed |-> FALSE] /\ secrets = 0
    /\ browser = [b \in Browser |-> [at |-> "out", secret |-> 0]]
    /\ session = [b \in Browser |-> FALSE]
    /\ request = [at |-> "idle", off |-> FALSE]
    /\ disabling = FALSE /\ changes = 0

Becomes(b, step) == browser' = [browser EXCEPT ![b] = [at |-> step, secret |-> 0]]

----------------------------------------------------------------------------
(* Login *)

\* Login: locked_until lies ahead.
Locked == user.lock > 0

\* handleLogin, Login: the user is loaded and the password is right.  Whether a second
\* factor is required is known from here on.
VerifyPassword(b) ==
    /\ browser[b].at = "out" /\ user.active /\ ~Locked
    /\ Becomes(b, IF user.required THEN "verifiedMust" ELSE "verified")
    /\ UNCHANGED <<user, mfa, secrets, session, request, disabling, changes>>

\* RegisterFailedLogin, from Login or from handleMFASetupConfirm, which asks for the
\* password again and looks at neither the status nor the lock.
WrongPassword(b) ==
    /\ browser[b].at = "enrolling" \/ (browser[b].at = "out" /\ user.active /\ ~Locked)
    /\ user.failed < MaxTypos
    /\ user' = [user EXCEPT !.failed = @ + 1, !.lock = IF user.failed + 1 >= MaxFailures THEN LockTime ELSE @]
    /\ UNCHANGED <<mfa, secrets, browser, session, request, disabling, changes>>

\* Time passes; locked_until is not cleared, only passed.
LockTick ==
    /\ user.lock > 0 /\ user' = [user EXCEPT !.lock = @ - 1]
    /\ UNCHANGED <<mfa, secrets, browser, session, request, disabling, changes>>

\* IsConfirmed decides between a challenge, the setup and, without a second factor, the
\* session.
ChooseFactor(b) ==
    /\ browser[b].at \in {"verified", "verifiedMust"}
    /\ Becomes(b, IF mfa.confirmed THEN "challenged" ELSE IF browser[b].at = "verifiedMust" THEN "setup" ELSE "granted")
    /\ UNCHANGED <<user, mfa, secrets, session, request, disabling, changes>>

\* Mutant: the upsert has no WHERE.
BeginSetupAlways(b) ==
    /\ browser[b].at = "setup" /\ secrets < MaxSecret
    /\ secrets' = secrets + 1
    /\ browser' = [browser EXCEPT ![b] = [at |-> "enrolling", secret |-> secrets + 1]]
    /\ mfa' = [secret |-> secrets + 1, confirmed |-> FALSE]
    /\ UNCHANGED <<user, session, request, disabling, changes>>

\* BeginSetup: the new secret replaces one that is not confirmed; it is shown anyway.
BeginSetup(b) ==
    /\ browser[b].at = "setup" /\ secrets < MaxSecret
    /\ secrets' = secrets + 1
    /\ browser' = [browser EXCEPT ![b] = [at |-> "enrolling", secret |-> secrets + 1]]
    /\ mfa' = IF mfa.confirmed THEN mfa ELSE [secret |-> secrets + 1, confirmed |-> FALSE]
    /\ UNCHANGED <<user, session, request, disabling, changes>>

\* handleMFASetupConfirm, ConfirmSetup: the secret is loaded and the code is of it.
CheckFirstCode(b) ==
    /\ browser[b].at = "enrolling"
    /\ Becomes(b, IF ~mfa.confirmed /\ mfa.secret = browser[b].secret THEN "confirming" ELSE "out")
    /\ UNCHANGED <<user, mfa, secrets, session, request, disabling, changes>>

\* ConfirmSetup: the UPDATE of whatever secret the row has by then, confirmed by another
\* login or not.  It also replaces the recovery codes, which are left out.
StoreConfirmed(b) ==
    /\ browser[b].at = "confirming" /\ Becomes(b, "granted")
    /\ mfa' = [mfa EXCEPT !.confirmed = TRUE]
    /\ UNCHANGED <<user, secrets, session, request, disabling, changes>>

\* handleTOTP, CompleteMFA: the code is right and the challenge is consumed.  The UPDATE
\* is unconditional, so a browser that sends a right code twice at once gets two rows of
\* user_sessions, which the model does not tell apart.
CompleteMFA(b) ==
    /\ browser[b].at = "challenged"
    /\ Becomes(b, "granted")
    /\ UNCHANGED <<user, mfa, secrets, session, request, disabling, changes>>

\* The challenge expires or is used up by wrong codes, a statement fails or the page is
\* left: the owner starts over.
AbandonLogin(b) ==
    /\ browser[b].at \notin {"out", "granted"}
    /\ Becomes(b, "out")
    /\ UNCHANGED <<user, mfa, secrets, session, request, disabling, changes>>

\* ResetFailedLogins and Sessions.Create, which may fail.
CreateSession(b) ==
    /\ browser[b].at = "granted" /\ Becomes(b, "out")
    /\ user' = [user EXCEPT !.failed = 0, !.lock = 0]
    /\ session' \in {session, [session EXCEPT ![b] = TRUE]}
    /\ UNCHANGED <<mfa, secrets, request, disabling, changes>>

----------------------------------------------------------------------------
(* Sessions *)

\* handleLogout, or an expiry.
SessionCloses(b) ==
    /\ session[b] /\ session' = [session EXCEPT ![b] = FALSE]
    /\ UNCHANGED <<user, mfa, secrets, browser, request, disabling, changes>>

\* Validate, called by RequireSession or, for the one route with a session outside of
\* it, by handleReauth ...
ValidateSession(b) ==
    /\ request.at = "idle" /\ session[b]
    /\ request' \in {[at |-> a, off |-> ~user.active /\ ~disabling] : a \in {"validated", "reauth"}}
    /\ UNCHANGED <<user, mfa, secrets, browser, session, disabling, changes>>

\* Mutant: a session that is valid is enough.
AdmitAnyway ==
    /\ request.at = "validated"
    /\ request' = [request EXCEPT !.at = "admitted"]
    /\ UNCHANGED <<user, mfa, secrets, browser, session, disabling, changes>>

\* ... and in RequireSession GetByID: the user must be active.
AdmitRequest ==
    /\ request.at = "validated"
    /\ request' = IF user.active THEN [request EXCEPT !.at = "admitted"] ELSE [at |-> "idle", off |-> FALSE]
    /\ UNCHANGED <<user, mfa, secrets, browser, session, disabling, changes>>

\* Reauth, which looks at the password and the code and not at the status: with right
\* ones there is a row of reauth_tokens.  Only routes behind RequireSession use it up.
HandleReauth ==
    /\ request.at = "reauth"
    /\ \/ mfa.confirmed /\ request' = [request EXCEPT !.at = "reauthed"]
       \/ request' = [at |-> "idle", off |-> FALSE]
    /\ UNCHANGED <<user, mfa, secrets, browser, session, disabling, changes>>

RequestDone ==
    /\ request.at \in {"admitted", "reauthed"}
    /\ request' = [at |-> "idle", off |-> FALSE]
    /\ UNCHANGED <<user, mfa, secrets, browser, session, disabling, changes>>

----------------------------------------------------------------------------
(* The administrator *)

ChangeAccount == ~disabling /\ changes < MaxChanges /\ changes' = changes + 1

\* handleSetUserStatus: SetStatus to active, or to disabled or locked ...
SetStatus(on) ==
    /\ ChangeAccount
    /\ user' = [user EXCEPT !.active = on, !.lock = 0]
    /\ disabling' = ~on
    /\ request' = [request EXCEPT !.off = FALSE]
    /\ UNCHANGED <<mfa, secrets, browser, session>>

RevokeAll == session' = [b \in Browser |-> FALSE]

\* ... and RevokeAllForUser, whose failure is ignored.
RevokeDisabled ==
    /\ disabling /\ disabling' = FALSE
    /\ RevokeAll \/ UNCHANGED session
    /\ UNCHANGED <<user, mfa, secrets, browser, request, changes>>

\* handleRevokeUserSessions.
RevokeUserSessions ==
    /\ ChangeAccount /\ RevokeAll
    /\ UNCHANGED <<user, mfa, secrets, browser, request, disabling>>

SetMFARequired ==
    /\ ChangeAccount /\ user' = [user EXCEPT !.required = ~@]
    /\ UNCHANGED <<mfa, secrets, browser, session, request, disabling>>

\* handleLogin and handleMFASetupConfirm, step by step.
HandleLogin(b) == VerifyPassword(b) \/ ChooseFactor(b) \/ BeginSetup(b) \/ CreateSession(b)
ConfirmMFASetup(b) == CheckFirstCode(b) \/ StoreConfirmed(b)

SignInNext ==
    \/ LockTick \/ (\E on \in BOOLEAN : SetStatus(on)) \/ RevokeDisabled \/ RevokeUserSessions \/ SetMFARequired
    \/ AdmitRequest \/ HandleReauth \/ RequestDone
    \/ \E b \in Browser :
          \/ HandleLogin(b) \/ WrongPassword(b) \/ ConfirmMFASetup(b) \/ CompleteMFA(b) \/ AbandonLogin(b)
          \/ SessionCloses(b) \/ ValidateSession(b)

SignInSpec == SignInInit /\ [][SignInNext]_signInVars

----------------------------------------------------------------------------
\* BeginSetup: a second factor that is confirmed is never replaced or unconfirmed, also
\* not by a login that saw it unconfirmed just before.
ConfirmedStays == [][mfa.confirmed => mfa' = mfa]_mfa

\* handleSetUserStatus, RequireSession: a change away from active takes effect
\* immediately.  No request that comes after it gets past RequireSession while the
\* account is off, not even on a session that a login under way created after the
\* revocation.  It says nothing of POST /auth/reauth, which is not behind it.
DisabledIsOut == request.at = "admitted" => ~request.off
=============================================================================
