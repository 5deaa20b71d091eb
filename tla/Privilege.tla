------------------------------ MODULE Privilege -----------------------------
(***************************************************************************)
(* Elevated rights for one remote session: internal/remotesession/         *)
(* privilege.go, the grant and revoke handlers of                          *)
(* internal/httpapi/handlers_sessions.go, and the reauthentication they    *)
(* ask for, Reauth and ConsumeReauth of internal/auth/service.go.          *)
(*                                                                         *)
(* Requests run concurrently with one another, with the close of the       *)
(* session and with the expiry sweeper.  The agent only logs a privilege   *)
(* update, so the grant is its row.                                        *)
(***************************************************************************)
EXTENDS Naturals, FiniteSets

CONSTANTS
    Grantor,    \* concurrent POST requests
    Reauth,     \* reauth_tokens an administrator may obtain
    NoReauth,
    MaxGrants   \* bound: rows of privilege_sessions

ASSUME PrivilegeAssumption == MaxGrants \in Nat /\ NoReauth \notin Reauth

VARIABLES
    active,     \* the remote session is active
    reauth,     \* each token: absent, fresh, consumed or expired
    grantor,    \* each request: its step, the token it came with, the state it loaded
    grants,     \* rows in order: valid, expired or revoked, and the token they rest on
    revoker,    \* DELETE request: the row it loaded, 0 for none
    expiring    \* the sweeper: rows it still has to revoke

privilegeVars == <<active, reauth, grantor, grants, revoker, expiring>>

GrantId == 1..MaxGrants
NoGrantor == [at |-> "idle", token |-> NoReauth, loaded |-> FALSE]
NoGrant == [state |-> "absent", token |-> NoReauth]

PrivilegeTypeOK ==
    /\ active \in BOOLEAN
    /\ reauth \in [Reauth -> {"absent", "fresh", "consumed", "expired"}]
    /\ grantor \in [Grantor -> [at : {"idle", "loaded", "confirmed"}, token : Reauth \cup {NoReauth}, loaded : BOOLEAN]]
    /\ grants \in [GrantId -> [state : {"absent", "valid", "expired", "revoked"}, token : Reauth \cup {NoReauth}]]
    /\ revoker \in 0..MaxGrants
    /\ expiring \subseteq GrantId

PrivilegeInit ==
    /\ active = TRUE /\ reauth = [t \in Reauth |-> "absent"]
    /\ grantor = [g \in Grantor |-> NoGrantor] /\ grants = [i \in GrantId |-> NoGrant]
    /\ revoker = 0 /\ expiring = {}

InState(s) == {i \in GrantId : grants[i].state = s}

----------------------------------------------------------------------------
\* handleReauth, Reauth: password and code are right; five minutes.
IssueReauth(t) ==
    /\ reauth[t] = "absent" /\ reauth' = [reauth EXCEPT ![t] = "fresh"]
    /\ UNCHANGED <<active, grantor, grants, revoker, expiring>>

ReauthExpires(t) ==
    /\ reauth[t] = "fresh" /\ reauth' = [reauth EXCEPT ![t] = "expired"]
    /\ UNCHANGED <<active, grantor, grants, revoker, expiring>>

\* The session ends; nothing is done about its grants.
SessionEnds ==
    /\ active /\ active' = FALSE
    /\ UNCHANGED <<reauth, grantor, grants, revoker, expiring>>

\* handleGrantPrivilege: loadSessionWithAccess.
LoadSession(g, t) ==
    /\ grantor[g].at = "idle" /\ reauth[t] # "absent"
    /\ grantor' = [grantor EXCEPT ![g] = [at |-> "loaded", token |-> t, loaded |-> active]]
    /\ UNCHANGED <<active, reauth, grants, revoker, expiring>>

\* Mutant: the token is checked and marked in two statements, the second one missing.
CheckReauth(g) ==
    /\ grantor[g].at = "loaded"
    /\ grantor' = [grantor EXCEPT ![g] = IF reauth[grantor[g].token] = "fresh" THEN [@ EXCEPT !.at = "confirmed"] ELSE NoGrantor]
    /\ UNCHANGED <<active, reauth, grants, revoker, expiring>>

\* ConsumeReauth: one UPDATE tests and marks the token.
ConsumeReauth(g) ==
    LET t == grantor[g].token IN
    /\ grantor[g].at = "loaded"
    /\ IF reauth[t] = "fresh"
       THEN /\ reauth' = [reauth EXCEPT ![t] = "consumed"]
            /\ grantor' = [grantor EXCEPT ![g].at = "confirmed"]
       ELSE grantor' = [grantor EXCEPT ![g] = NoGrantor] /\ UNCHANGED reauth
    /\ UNCHANGED <<active, grants, revoker, expiring>>

\* Create.
CreateGrant(i, t) == [grants EXCEPT ![i] = [state |-> "valid", token |-> t]]

\* GrantPrivilege: the state tested is the loaded one; Create, or its failure.
GrantPrivilege(g) ==
    /\ grantor[g].at = "confirmed" /\ grantor' = [grantor EXCEPT ![g] = NoGrantor]
    /\ \/ /\ grantor[g].loaded
          /\ \E i \in InState("absent") :
                /\ \A j \in InState("absent") : i <= j
                /\ grants' = CreateGrant(i, grantor[g].token)
       \/ UNCHANGED grants
    /\ UNCHANGED <<active, reauth, revoker, expiring>>

\* valid_until passes.
GrantExpires(i) ==
    /\ grants[i].state = "valid" /\ grants' = [grants EXCEPT ![i].state = "expired"]
    /\ UNCHANGED <<active, reauth, grantor, revoker, expiring>>

\* handleRevokePrivilege: ActiveForSession, the newest ...
LoadActive ==
    /\ revoker = 0
    /\ \E i \in InState("valid") : (\A j \in InState("valid") : j <= i) /\ revoker' = i
    /\ UNCHANGED <<active, reauth, grantor, grants, expiring>>

RevokeRow(i) == [grants EXCEPT ![i].state = "revoked"]

\* ... and RevokePrivilege, also of one that has expired or is revoked since; or the
\* request fails.
RevokeLoaded ==
    /\ revoker # 0 /\ revoker' = 0
    /\ grants' \in {RevokeRow(revoker), grants}
    /\ UNCHANGED <<active, reauth, grantor, expiring>>

\* Mutant: only grants of a session that is still active are looked for.
ListExpiredActive ==
    /\ expiring = {} /\ InState("expired") # {} /\ active
    /\ expiring' = InState("expired")
    /\ UNCHANGED <<active, reauth, grantor, grants, revoker>>

\* RunPrivilegeExpirySweeper: expiredButNotRevoked ...
ListExpired ==
    /\ expiring = {} /\ InState("expired") # {}
    /\ expiring' = InState("expired")
    /\ UNCHANGED <<active, reauth, grantor, grants, revoker>>

\* ... and RevokePrivilege of each; one that fails is left for the next tick.
RevokeExpired(i) ==
    /\ i \in expiring /\ expiring' = expiring \ {i}
    /\ grants' = RevokeRow(i)
    /\ UNCHANGED <<active, reauth, grantor, revoker>>

RevokeExpiredFails(i) ==
    /\ i \in expiring /\ expiring' = expiring \ {i}
    /\ UNCHANGED <<active, reauth, grantor, grants, revoker>>

\* handleGrantPrivilege, step by step.
HandleGrant(g) == (\E t \in Reauth : LoadSession(g, t)) \/ ConsumeReauth(g) \/ GrantPrivilege(g)

PrivilegeNext ==
    \/ SessionEnds
    \/ \E t \in Reauth : IssueReauth(t) \/ ReauthExpires(t)
    \/ \E g \in Grantor : HandleGrant(g)
    \/ LoadActive \/ RevokeLoaded \/ ListExpired
    \/ \E i \in GrantId : GrantExpires(i) \/ RevokeExpired(i) \/ RevokeExpiredFails(i)

PrivilegeSpec == PrivilegeInit /\ [][PrivilegeNext]_privilegeVars

----------------------------------------------------------------------------
\* One reauthentication pays for at most one grant, however many requests present it.
OneGrantPerReauth ==
    \A i, j \in GrantId :
        grants[i].state # "absent" /\ grants[i].token = grants[j].token => i = j

SpentReauths == [t \in Reauth |-> {i \in GrantId : grants[i].token = t}]
ReauthUse == INSTANCE SingleUse WITH Secret <- Reauth, User <- GrantId, spent <- SpentReauths

\* ConsumeReauth: the token is single use.  However requests, the sweeper and a revocation
\* interleave, a grant rests on a token no other grant rested on, and goes on doing so
\* when it is revoked or has expired.
ReauthUsedOnce == ReauthUse!Spec

\* Elevated rights are withdrawn even without further activity: every grant, also one
\* made as its session closed or hidden behind a newer one, is revoked in the end.
GrantsEnd == []<>(InState("valid") \cup InState("expired") = {})
=============================================================================
