----------------------------- MODULE Enrollment -----------------------------
(***************************************************************************)
(* Enrollment of devices: the tokens and the Consume transaction of        *)
(* internal/enrollment/enrollment.go, the handlers of                      *)
(* internal/httpapi/handlers_enrollment.go and handlers_recovery.go, and   *)
(* the agent's Enroll in internal/agentcore/enroll.go.                     *)
(*                                                                         *)
(* Every attempt of an agent has a fresh key pair and install id, here its *)
(* number.  The server's transaction holds the token's row from SELECT ... *)
(* FOR UPDATE to its commit; the agent learns the outcome from the answer, *)
(* which may be lost.                                                      *)
(***************************************************************************)
EXTENDS Naturals, FiniteSets

CONSTANTS
    Agent,          \* installations that enroll
    Token,          \* enrollment tokens
    MaxAttempts,    \* bound: attempts of one agent
    NoToken

ASSUME EnrollmentAssumption == NoToken \notin Token /\ MaxAttempts \in Nat

VARIABLES
    token,      \* enrollment_tokens: absent, open, consumed or revoked, and expired
    reusable,   \* the tokens for a bulk rollout
    expired,    \* tokens past expires_at
    lock,       \* tokens whose row a transaction holds
    attempt,    \* of each agent: the number, step and token of its attempt
    devices,    \* devices with their credential: <<agent, attempt, token>>
    identity,   \* the attempt whose key and device the agent stored, 0 for none
    tokenFile   \* the token on the agent's disk

enrollVars == <<token, reusable, expired, lock, attempt, devices, identity, tokenFile>>

Attempt == 1..MaxAttempts

EnrollmentTypeOK ==
    /\ token \in [Token -> {"absent", "open", "consumed", "revoked"}]
    /\ reusable \subseteq Token /\ expired \subseteq Token /\ lock \subseteq Token
    /\ attempt \in [Agent -> [n : 0..MaxAttempts, at : {"idle", "sent", "held", "created", "rejected", "accepted", "stored"}]]
    /\ devices \subseteq Agent \X Attempt \X Token
    /\ identity \in [Agent -> 0..MaxAttempts]
    /\ tokenFile \in [Agent -> Token \cup {NoToken}]

EnrollmentInit ==
    /\ token = [t \in Token |-> "absent"] /\ reusable = {} /\ expired = {} /\ lock = {}
    /\ attempt = [a \in Agent |-> [n |-> 0, at |-> "idle"]]
    /\ devices = {} /\ identity = [a \in Agent |-> 0]
    /\ tokenFile = [a \in Agent |-> NoToken]

EnrollAt(a, step) == attempt[a].at = step
EnrollGoTo(a, step) == attempt' = [attempt EXCEPT ![a].at = step]

----------------------------------------------------------------------------
(* The administrator *)

\* handleCreateEnrollment, Create: for one device, or for a bulk rollout.
CreateToken(t) ==
    /\ token[t] = "absent" /\ token' = [token EXCEPT ![t] = "open"]
    /\ reusable' \in {reusable, reusable \cup {t}}
    /\ UNCHANGED <<expired, lock, attempt, devices, identity, tokenFile>>

\* The plain token, shown once, is put on a machine.
Deploy(a, t) ==
    /\ token[t] # "absent" /\ tokenFile[a] = NoToken /\ identity[a] = 0
    /\ tokenFile' = [tokenFile EXCEPT ![a] = t]
    /\ UNCHANGED <<token, reusable, expired, lock, attempt, devices, identity>>

TokenExpires(t) ==
    /\ token[t] # "absent" /\ t \notin expired /\ expired' = expired \cup {t}
    /\ UNCHANGED <<token, reusable, lock, attempt, devices, identity, tokenFile>>

\* handleRevokeEnrollment, Revoke: the UPDATE waits for the row.
RevokeToken(t) ==
    /\ token[t] = "open" /\ t \notin lock
    /\ token' = [token EXCEPT ![t] = "revoked"]
    /\ UNCHANGED <<reusable, expired, lock, attempt, devices, identity, tokenFile>>

\* handleRevokeAllEnrollments, RevokeAllOutstanding: expired ones too.
RevokeAllOutstanding ==
    /\ \E t \in Token : token[t] = "open"
    /\ \A t \in Token : token[t] = "open" => t \notin lock
    /\ token' = [t \in Token |-> IF token[t] = "open" THEN "revoked" ELSE token[t]]
    /\ UNCHANGED <<reusable, expired, lock, attempt, devices, identity, tokenFile>>

----------------------------------------------------------------------------
(* The agent and the transaction *)

\* Enroll: the service is started without an identity and with a token.
SendRequest(a) ==
    /\ EnrollAt(a, "idle") /\ identity[a] = 0 /\ tokenFile[a] # NoToken /\ attempt[a].n < MaxAttempts
    /\ attempt' = [attempt EXCEPT ![a] = [n |-> @.n + 1, at |-> "sent"]]
    /\ UNCHANGED <<token, reusable, expired, lock, devices, identity, tokenFile>>

\* Mutant: the token is read without FOR UPDATE.
SelectPlain(a) ==
    LET t == tokenFile[a] IN
    /\ EnrollAt(a, "sent")
    /\ IF token[t] = "open" /\ t \notin expired THEN EnrollGoTo(a, "held") ELSE EnrollGoTo(a, "rejected")
    /\ UNCHANGED <<token, reusable, expired, lock, devices, identity, tokenFile>>

\* handleAgentEnroll, Consume: SELECT ... FOR UPDATE and the checks; a token that is
\* not valid ends the transaction.
SelectForUpdate(a) ==
    LET t == tokenFile[a] IN
    /\ EnrollAt(a, "sent") /\ t \notin lock
    /\ IF token[t] = "open" /\ t \notin expired
       THEN EnrollGoTo(a, "held") /\ lock' = lock \cup {t}
       ELSE EnrollGoTo(a, "rejected") /\ UNCHANGED lock
    /\ UNCHANGED <<token, reusable, expired, devices, identity, tokenFile>>

\* Consume: the device, its credential and the token's new state, in one commit.  The
\* install id is new, so ErrInstallExists cannot come up.
CommitEnrollment(a) ==
    LET t == tokenFile[a] IN
    /\ EnrollAt(a, "held") /\ EnrollGoTo(a, "created")
    /\ devices' = devices \cup {<<a, attempt[a].n, t>>}
    /\ token' = [token EXCEPT ![t] = IF t \in reusable THEN @ ELSE "consumed"]
    /\ lock' = lock \ {t}
    /\ UNCHANGED <<reusable, expired, identity, tokenFile>>

\* A statement fails, or the request's context ends: the transaction is rolled back.
RollbackEnrollment(a) ==
    /\ EnrollAt(a, "held") /\ EnrollGoTo(a, "rejected") /\ lock' = lock \ {tokenFile[a]}
    /\ UNCHANGED <<token, reusable, expired, devices, identity, tokenFile>>

\* The answer with the device id arrives.
ReceiveAnswer(a) ==
    /\ EnrollAt(a, "created") /\ EnrollGoTo(a, "accepted")
    /\ UNCHANGED <<token, reusable, expired, lock, devices, identity, tokenFile>>

\* Enroll returns an error: a rejection, a request or an answer that is lost, its timeout,
\* an identity that cannot be stored, or the process dies.  The service is restarted;
\* the next attempt makes a new key.
AttemptFails(a) ==
    /\ attempt[a].at \in {"sent", "rejected", "created", "accepted"} /\ EnrollGoTo(a, "idle")
    /\ UNCHANGED <<token, reusable, expired, lock, devices, identity, tokenFile>>

\* Persist.
PersistIdentity(a) ==
    /\ EnrollAt(a, "accepted") /\ EnrollGoTo(a, "stored")
    /\ identity' = [identity EXCEPT ![a] = attempt[a].n]
    /\ UNCHANGED <<token, reusable, expired, lock, devices, tokenFile>>

\* The token file is removed, best effort.
RemoveTokenFile(a) ==
    /\ EnrollAt(a, "stored") /\ EnrollGoTo(a, "idle")
    /\ tokenFile' \in {tokenFile, [tokenFile EXCEPT ![a] = NoToken]}
    /\ UNCHANGED <<token, reusable, expired, lock, devices, identity>>

\* handleAgentEnroll on the server, and Enroll on the agent, as runAgent calls it.
HandleAgentEnroll(a) == SelectForUpdate(a) \/ CommitEnrollment(a) \/ RollbackEnrollment(a)
Enroll(a) == SendRequest(a) \/ ReceiveAnswer(a) \/ AttemptFails(a) \/ PersistIdentity(a) \/ RemoveTokenFile(a)

EnrollmentNext ==
    \/ \E t \in Token : CreateToken(t) \/ TokenExpires(t) \/ RevokeToken(t)
    \/ RevokeAllOutstanding
    \/ \E a \in Agent :
          \/ \E t \in Token : Deploy(a, t)
          \/ Enroll(a) \/ HandleAgentEnroll(a)

EnrollmentSpec == EnrollmentInit /\ [][EnrollmentNext]_enrollVars

----------------------------------------------------------------------------
\* Consume: a token can never be consumed twice even under concurrent attempts.  One
\* that is not reusable enrolls at most one device, and only by being consumed, so
\* one that was revoked enrolled none.
SingleUseOneDevice ==
    \A d, e \in devices :
        /\ d[3] = e[3] /\ d[3] \notin reusable => d = e
        /\ d[3] \notin reusable => token[d[3]] = "consumed"

SpentTokens == [t \in Token |-> {d \in devices : d[3] = t /\ t \notin reusable}]
TokenUse == INSTANCE SingleUse WITH Secret <- Token, User <- Agent \X Attempt \X Token, spent <- SpentTokens

\* docs/STATE_MACHINES.md 2: only ISSUED may change to CONSUMED, atomically.  The locked
\* SELECT, the INSERTs and the UPDATE of Consume, rolled back or answered into the void,
\* behave as one step that uses a token for one device for good.
TokenUsedOnce == TokenUse!Spec
=============================================================================
