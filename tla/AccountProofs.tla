-------------------------- MODULE AccountProofs ---------------------------
(***************************************************************************)
(* Enrollment, sign-in and elevated rights, for any number of agents,      *)
(* tokens, browsers and requests; the agent's self-update, for any versions*)
(* and any number of updates and crashes; and the types of the support     *)
(* account and of the releases.                                            *)
(*                                                                         *)
(* Enrollment.  The transaction of Consume holds the token's row, so the   *)
(* token it saw open is open when it commits; a token with a device is     *)
(* consumed unless it is reusable, and nothing opens a token again.        *)
(*                                                                         *)
(* Elevated rights.  ConsumeReauth tests and marks a token in one UPDATE,  *)
(* so at most one request is confirmed by it, and a consumed token is      *)
(* never fresh again.                                                      *)
(*                                                                         *)
(* Sign-in.  The middleware reads the account after the session, so a      *)
(* request that came while the account was off finds it off, unless an     *)
(* administrator turned it on in between.                                  *)
(*                                                                         *)
(* Self-update.  Between the two renames the binary is under its other     *)
(* name: while an update is staged the new file is there, after the first  *)
(* rename the backup too, and a rollback removes the current file only     *)
(* when there is a backup.                                                 *)
(***************************************************************************)
EXTENDS Integers, Enrollment, Privilege, SignIn, AgentUpdate, SupportAccount,
        Releases, TLAPS

----------------------------------------------------------------------------
(* Enrollment *)

\* An attempt in progress has a number, and a token that stays on the disk until it is
\* over.
HasToken == \A a \in Agent : attempt[a].at # "idle" => attempt[a].n >= 1 /\ tokenFile[a] \in Token

\* A transaction past its SELECT holds the row of an open token, alone.
Holds ==
    \A a \in Agent : attempt[a].at = "held" =>
        /\ tokenFile[a] \in lock /\ token[tokenFile[a]] = "open"
        /\ \A b \in Agent : attempt[b].at = "held" /\ tokenFile[b] = tokenFile[a] => a = b

DevicesHaveTokens == \A d \in devices : token[d[3]] # "absent"

EnrollmentInv == EnrollmentTypeOK /\ HasToken /\ Holds /\ DevicesHaveTokens /\ SingleUseOneDevice

\* No token, attempt or device at first.
LEMMA EnrollmentInitially == EnrollmentInit => EnrollmentInv
  BY EnrollmentAssumption DEF EnrollmentInit, EnrollmentInv, EnrollmentTypeOK, HasToken, Holds, DevicesHaveTokens, SingleUseOneDevice

\* The administrator: a token becomes reusable only as it is created, and a token
\* whose row is held is not revoked.
LEMMA EnrollAdminPreserves ==
    ASSUME EnrollmentInv,
           \/ \E t \in Token : CreateToken(t) \/ TokenExpires(t) \/ RevokeToken(t)
           \/ RevokeAllOutstanding
    PROVE  EnrollmentInv'
  <1> USE DEF EnrollmentInv
  <1>1. UNCHANGED <<attempt, devices, tokenFile, lock>>
    BY Zenon DEF CreateToken, TokenExpires, RevokeToken, RevokeAllOutstanding
  <1>2. /\ token' \in [Token -> {"absent", "open", "consumed", "revoked"}]
        /\ \A t \in Token : /\ token[t] = "open" /\ t \in lock => token'[t] = "open"
                            /\ token[t] # "absent" => token'[t] # "absent"
                            /\ token[t] = "consumed" => token'[t] = "consumed"
    BY Zenon DEF CreateToken, TokenExpires, RevokeToken, RevokeAllOutstanding, EnrollmentTypeOK
  <1>3. /\ reusable \subseteq reusable'
        /\ \A t \in Token : token[t] # "absent" /\ t \in reusable' => t \in reusable
    BY Zenon DEF CreateToken, TokenExpires, RevokeToken, RevokeAllOutstanding
  <1>t. identity' = identity /\ reusable' \subseteq Token /\ expired' \subseteq Token
    BY Zenon DEF CreateToken, TokenExpires, RevokeToken, RevokeAllOutstanding, EnrollmentTypeOK
  <1>4. (EnrollmentTypeOK /\ HasToken)' BY <1>1, <1>2, <1>t, Zenon DEF EnrollmentTypeOK, HasToken
  <1>5. Holds' BY <1>1, <1>2 DEF EnrollmentTypeOK, HasToken, Holds
  <1>6. \A d \in devices : d[3] \in Token BY Zenon DEF EnrollmentTypeOK
  <1>7. DevicesHaveTokens' BY <1>1, <1>2, <1>6, Zenon DEF DevicesHaveTokens
  <1>8. SingleUseOneDevice' BY <1>1, <1>2, <1>3, <1>6, Zenon DEF DevicesHaveTokens, SingleUseOneDevice
  <1> QED BY <1>4, <1>5, <1>7, <1>8, Zenon

\* A token is put on a machine that has none.
LEMMA DeployPreserves ==
    ASSUME EnrollmentInv, NEW a \in Agent, NEW t \in Token, Deploy(a, t)
    PROVE  EnrollmentInv'
  <1> USE DEF EnrollmentInv, Deploy
  <1>1. attempt[a].at = "idle" BY EnrollmentAssumption, Zenon DEF HasToken
  <1>2. (EnrollmentTypeOK /\ HasToken)' BY <1>1, Zenon DEF EnrollmentTypeOK, HasToken
  <1>3. Holds' BY <1>1 DEF EnrollmentTypeOK, Holds
  <1>4. (DevicesHaveTokens /\ SingleUseOneDevice)' BY Zenon DEF DevicesHaveTokens, SingleUseOneDevice
  <1> QED BY <1>2, <1>3, <1>4, Zenon

\* The agent's own steps never touch a transaction.
LEMMA EnrollAgentPreserves ==
    ASSUME EnrollmentInv, NEW a \in Agent, Enroll(a)
    PROVE  EnrollmentInv'
  <1> USE DEF EnrollmentInv
  <1>1. UNCHANGED <<token, reusable, lock, devices>>
    BY Zenon DEF Enroll, SendRequest, ReceiveAnswer, AttemptFails, PersistIdentity, RemoveTokenFile
  <1>2. attempt[a].at # "held"
    BY Zenon DEF Enroll, SendRequest, ReceiveAnswer, AttemptFails, PersistIdentity, RemoveTokenFile, EnrollAt
  <1>3. /\ attempt' \in [Agent -> [n : 0..MaxAttempts, at : {"idle", "sent", "held", "created", "rejected", "accepted", "stored"}]]
        /\ attempt'[a].at # "held" /\ (attempt'[a].at # "idle" => attempt'[a].n >= 1)
        /\ \A b \in Agent \ {a} : attempt'[b] = attempt[b]
    <2> USE DEF EnrollAt, HasToken
    <2>1. CASE SendRequest(a)
      <3>1. attempt[a].n + 1 \in 0..MaxAttempts BY <2>1, EnrollmentAssumption DEF SendRequest, EnrollmentTypeOK
      <3>2. attempt' = [attempt EXCEPT ![a] = [n |-> attempt[a].n + 1, at |-> "sent"]] BY <2>1, Zenon DEF SendRequest
      <3> QED BY <3>1, <3>2 DEF EnrollmentTypeOK
    <2>2. CASE ReceiveAnswer(a) BY <2>2, Zenon DEF ReceiveAnswer, EnrollGoTo, EnrollmentTypeOK
    <2>3. CASE AttemptFails(a) BY <2>3, Zenon DEF AttemptFails, EnrollGoTo, EnrollmentTypeOK
    <2>4. CASE PersistIdentity(a) BY <2>4, Zenon DEF PersistIdentity, EnrollGoTo, EnrollmentTypeOK
    <2>5. CASE RemoveTokenFile(a) BY <2>5 DEF RemoveTokenFile, EnrollGoTo, EnrollmentTypeOK
    <2> QED BY <2>1, <2>2, <2>3, <2>4, <2>5, Zenon DEF Enroll
  <1>4. /\ tokenFile' \in [Agent -> Token \cup {NoToken}]
        /\ \A b \in Agent \ {a} : tokenFile'[b] = tokenFile[b]
        /\ attempt'[a].at # "idle" => tokenFile'[a] = tokenFile[a] /\ tokenFile[a] \in Token
    <2>1. CASE RemoveTokenFile(a) BY <2>1 DEF RemoveTokenFile, EnrollGoTo, EnrollmentTypeOK
    <2>2. CASE SendRequest(a) BY <2>2, Zenon DEF SendRequest, EnrollmentTypeOK
    <2>3. CASE ReceiveAnswer(a) \/ AttemptFails(a) \/ PersistIdentity(a)
      BY <2>3, Zenon DEF ReceiveAnswer, AttemptFails, PersistIdentity, EnrollAt, EnrollmentTypeOK, HasToken
    <2> QED BY <2>1, <2>2, <2>3, Zenon DEF Enroll
  <1>t. expired' = expired /\ identity' \in [Agent -> 0..MaxAttempts]
    BY Zenon DEF Enroll, SendRequest, ReceiveAnswer, AttemptFails, PersistIdentity, RemoveTokenFile, EnrollmentTypeOK
  <1>5. EnrollmentTypeOK' BY <1>1, <1>3, <1>4, <1>t, Zenon DEF EnrollmentTypeOK
  <1>6. HasToken' BY <1>3, <1>4, Zenon DEF HasToken
  <1>7. Holds' BY <1>1, <1>3, <1>4 DEF Holds
  <1>8. (DevicesHaveTokens /\ SingleUseOneDevice)' BY <1>1, Zenon DEF DevicesHaveTokens, SingleUseOneDevice
  <1> QED BY <1>5, <1>6, <1>7, <1>8, Zenon

\* SELECT ... FOR UPDATE: the row is free, so no transaction holds the token.
LEMMA SelectPreserves ==
    ASSUME EnrollmentInv, NEW a \in Agent, SelectForUpdate(a)
    PROVE  EnrollmentInv'
  <1> USE DEF EnrollmentInv, SelectForUpdate, EnrollAt, EnrollGoTo
  <1>1. tokenFile[a] \in Token BY Zenon DEF HasToken
  <1>2. \A b \in Agent : attempt[b].at = "held" => tokenFile[b] # tokenFile[a] BY Zenon DEF Holds
  <1>3. EnrollmentTypeOK' BY <1>1 DEF EnrollmentTypeOK
  <1>n. /\ attempt'[a].n = attempt[a].n /\ attempt[a].n >= 1
        /\ \A b \in Agent \ {a} : attempt'[b] = attempt[b]
    BY DEF EnrollmentTypeOK, HasToken
  <1>4. HasToken'
    <2>1. tokenFile' = tokenFile /\ \A b \in Agent : attempt[b].at # "idle" => attempt[b].n >= 1 /\ tokenFile[b] \in Token
      BY Zenon DEF HasToken
    <2> QED BY <1>1, <1>n, <2>1, Zenon DEF HasToken
  <1>5. Holds'
    <2>1. /\ UNCHANGED <<token, tokenFile>> /\ lock \subseteq lock'
          /\ attempt'[a].at = "held" => token[tokenFile[a]] = "open" /\ tokenFile[a] \in lock'
      BY DEF EnrollmentTypeOK
    <2> QED BY <1>2, <1>n, <2>1 DEF Holds
  <1>6. (DevicesHaveTokens /\ SingleUseOneDevice)' BY Zenon DEF DevicesHaveTokens, SingleUseOneDevice
  <1> QED BY <1>3, <1>4, <1>5, <1>6, Zenon

\* The commit: the token is open, so unless it is reusable it has no device yet, and
\* it is consumed with the one it gets.
LEMMA CommitEnrollmentPreserves ==
    ASSUME EnrollmentInv, NEW a \in Agent, CommitEnrollment(a)
    PROVE  EnrollmentInv'
  <1> USE DEF EnrollmentInv
  <1> DEFINE t == tokenFile[a]
             new == <<a, attempt[a].n, t>>
  <1>1. /\ t \in Token /\ token[t] = "open" /\ attempt[a].at = "held"
        /\ devices' = devices \cup {new}
        /\ token' = [token EXCEPT ![t] = IF t \in reusable THEN token[t] ELSE "consumed"]
        /\ lock' = lock \ {t} /\ attempt' = [attempt EXCEPT ![a].at = "created"]
        /\ UNCHANGED <<reusable, tokenFile>>
    BY Zenon DEF CommitEnrollment, HasToken, Holds, EnrollAt, EnrollGoTo, EnrollmentTypeOK
  <1>2. \A b \in Agent \ {a} : attempt[b].at = "held" => tokenFile[b] # t BY <1>1, Zenon DEF Holds
  <1>3. EnrollmentTypeOK'
    <2>1. attempt[a].n \in Attempt BY <1>1, EnrollmentAssumption DEF EnrollmentTypeOK, HasToken, Attempt
    <2>2. new \in Agent \X Attempt \X Token BY <1>1, <2>1, Zenon DEF EnrollmentTypeOK
    <2>3. UNCHANGED <<expired, identity>> BY Zenon DEF CommitEnrollment
    <2>4. token' \in [Token -> {"absent", "open", "consumed", "revoked"}] BY <1>1, Zenon DEF EnrollmentTypeOK
    <2> QED BY <1>1, <2>2, <2>3, <2>4 DEF EnrollmentTypeOK
  <1>4. HasToken' BY <1>1, Zenon DEF EnrollmentTypeOK, HasToken
  <1>5. Holds' BY <1>1, <1>2 DEF EnrollmentTypeOK, HasToken, Holds
  <1>6. \A d \in devices : d[3] \in Token BY Zenon DEF EnrollmentTypeOK
  <1>7. DevicesHaveTokens' BY <1>1, <1>6 DEF DevicesHaveTokens, EnrollmentTypeOK
  <1>8. SingleUseOneDevice'
    <2>1. \A d \in devices : d[3] \notin reusable => token[d[3]] = "consumed" /\ d[3] # t
      BY <1>1, Zenon DEF SingleUseOneDevice
    <2>2. \A d \in devices' : d[3] \notin reusable => token'[d[3]] = "consumed"
      BY <1>1, <1>6, <2>1 DEF EnrollmentTypeOK
    <2>3. \A d, e \in devices' : d[3] = e[3] /\ d[3] \notin reusable => d = e
      BY <1>1, <2>1 DEF SingleUseOneDevice
    <2> QED BY <1>1, <2>2, <2>3, Zenon DEF SingleUseOneDevice
  <1> QED BY <1>3, <1>4, <1>5, <1>7, <1>8, Zenon

\* The rollback gives up the row and changes nothing else.
LEMMA RollbackEnrollmentPreserves ==
    ASSUME EnrollmentInv, NEW a \in Agent, RollbackEnrollment(a)
    PROVE  EnrollmentInv'
  <1> USE DEF EnrollmentInv, RollbackEnrollment, EnrollAt, EnrollGoTo
  <1>1. \A b \in Agent \ {a} : attempt[b].at = "held" => tokenFile[b] # tokenFile[a] BY Zenon DEF Holds
  <1>2. (EnrollmentTypeOK /\ HasToken)' BY Zenon DEF EnrollmentTypeOK, HasToken
  <1>3. Holds' BY <1>1 DEF EnrollmentTypeOK, Holds
  <1>4. (DevicesHaveTokens /\ SingleUseOneDevice)' BY Zenon DEF DevicesHaveTokens, SingleUseOneDevice
  <1> QED BY <1>2, <1>3, <1>4, Zenon

\* Every reachable state of the enrollment satisfies the inductive invariant.
LEMMA EnrollmentInvariant == EnrollmentSpec => []EnrollmentInv
  <1>1. EnrollmentInv /\ [EnrollmentNext]_enrollVars => EnrollmentInv'
    <2> SUFFICES ASSUME EnrollmentInv, [EnrollmentNext]_enrollVars PROVE EnrollmentInv' BY Zenon
    <2>1. ASSUME NEW a \in Agent, HandleAgentEnroll(a) PROVE EnrollmentInv'
      BY <2>1, SelectPreserves, CommitEnrollmentPreserves, RollbackEnrollmentPreserves, Zenon DEF HandleAgentEnroll
    <2>2. CASE UNCHANGED enrollVars
      BY <2>2 DEF enrollVars, EnrollmentInv, EnrollmentTypeOK, HasToken, Holds, DevicesHaveTokens, SingleUseOneDevice
    <2> QED BY <2>1, <2>2, EnrollAdminPreserves, DeployPreserves, EnrollAgentPreserves, Zenon DEF EnrollmentNext
  <1> QED BY <1>1, EnrollmentInitially, PTL DEF EnrollmentSpec

\* enrollment.go, Consume: a token can never be consumed twice even under concurrent
\* attempts; what one enrolled before it was revoked, and that it is then not revoked
\* but consumed, included.
THEOREM OneDevicePerToken == EnrollmentSpec => []SingleUseOneDevice
  <1>1. EnrollmentInv => SingleUseOneDevice BY Zenon DEF EnrollmentInv
  <1> QED BY <1>1, EnrollmentInvariant, PTL

\* The commit uses its token, or the token is reusable and none is used.
LEMMA CommitUses ==
    ASSUME EnrollmentInv, NEW a \in Agent, CommitEnrollment(a)
    PROVE  [TokenUse!Next]_SpentTokens
  <1> DEFINE t == tokenFile[a]
             new == <<a, attempt[a].n, t>>
  <1>1. t \in Token /\ token[t] = "open" /\ new \in Agent \X Attempt \X Token
    BY EnrollmentAssumption
       DEF EnrollmentInv, CommitEnrollment, EnrollAt, HasToken, Holds, EnrollmentTypeOK, Attempt
  <1>2. devices' = devices \cup {new} /\ reusable' = reusable /\ new[3] = t BY Zenon DEF CommitEnrollment
  <1> HIDE DEF new, t
  <1>3. CASE t \in reusable
    <2>1. SpentTokens' = SpentTokens BY <1>2, <1>3, Zenon DEF SpentTokens
    <2> QED BY <2>1, Zenon
  <1>4. CASE t \notin reusable
    <2>1. \A d \in devices : d[3] # t BY <1>1, <1>4, Zenon DEF EnrollmentInv, SingleUseOneDevice
    <2>2. SpentTokens[t] = {} BY <1>1, <2>1, Zenon DEF SpentTokens
    <2>3. SpentTokens'[t] = {new} BY <1>1, <1>2, <1>4, <2>1, Zenon DEF SpentTokens
    <2>4. ASSUME NEW s \in Token \ {t} PROVE SpentTokens'[s] = SpentTokens[s] BY <1>2, Zenon DEF SpentTokens
    <2>5. /\ SpentTokens' = [s \in Token |-> SpentTokens'[s]]
          /\ DOMAIN SpentTokens = Token
      BY Zenon DEF SpentTokens
    <2>6. SpentTokens' = [SpentTokens EXCEPT ![t] = {new}] BY <2>3, <2>4, <2>5, Zenon
    <2> QED BY <1>1, <2>2, <2>6, Zenon DEF TokenUse!Next, TokenUse!Use
  <1> QED BY <1>3, <1>4, Zenon

\* docs/STATE_MACHINES.md 2: a token for one device is used atomically, at most once and
\* for good, for any number of agents, tokens and attempts.
THEOREM TokensAreSingleUse == EnrollmentSpec => TokenUsedOnce
  <1>1. EnrollmentInit => TokenUse!Init BY Zenon DEF EnrollmentInit, TokenUse!Init, SpentTokens
  <1>2. EnrollmentInv /\ [EnrollmentNext]_enrollVars => [TokenUse!Next]_SpentTokens
    <2> SUFFICES ASSUME EnrollmentInv, [EnrollmentNext]_enrollVars PROVE [TokenUse!Next]_SpentTokens BY Zenon
    <2>1. ASSUME NEW t \in Token, CreateToken(t) PROVE SpentTokens' = SpentTokens
      <3>1. devices' = devices /\ reusable' \in {reusable, reusable \cup {t}} /\ token[t] = "absent"
        BY <2>1, Zenon DEF CreateToken
      <3>2. \A d \in devices : d[3] # t BY <3>1, Zenon DEF EnrollmentInv, DevicesHaveTokens
      <3> QED BY <3>1, <3>2, Zenon DEF SpentTokens
    <2>2. CASE UNCHANGED <<devices, reusable>> BY <2>2, Zenon DEF SpentTokens
    <2>3. \/ \E t \in Token : CreateToken(t)
          \/ \E a \in Agent : CommitEnrollment(a)
          \/ UNCHANGED <<devices, reusable>>
      BY Zenon DEF EnrollmentNext, TokenExpires, RevokeToken, RevokeAllOutstanding, Deploy, Enroll, HandleAgentEnroll,
         SendRequest, ReceiveAnswer, AttemptFails, PersistIdentity, RemoveTokenFile, SelectForUpdate,
         RollbackEnrollment, enrollVars
    <2> QED BY <2>1, <2>2, <2>3, CommitUses, Zenon
  <1> QED BY <1>1, <1>2, EnrollmentInvariant, PTL DEF EnrollmentSpec, TokenUsedOnce, TokenUse!Spec

\* An agent that was answered has the device the answer is about, and one that stored
\* its identity does not enroll any more.
IdentityInv ==
    \A a \in Agent :
        /\ attempt[a].at \in {"created", "accepted"} => <<a, attempt[a].n, tokenFile[a]>> \in devices
        /\ identity[a] # 0 => attempt[a].at \in {"idle", "stored"} /\ \E t \in Token : <<a, identity[a], t>> \in devices

\* The identity an agent stored is of a device the server has enrolled with that key.
IdentityIsEnrolled == \A a \in Agent : identity[a] # 0 => \E t \in Token : <<a, identity[a], t>> \in devices

\* An identity that is stored is not replaced.
IdentityStays == [][\A a \in Agent : identity[a] # 0 => identity'[a] = identity[a]]_identity

\* What a step of one agent does to another, and a step of an administrator to any.
LEMMA OtherIdentityStays ==
    ASSUME EnrollmentInv, IdentityInv, NEW a \in Agent, devices \subseteq devices',
           attempt'[a] = attempt[a], identity'[a] = identity[a], attempt[a].at # "idle" => tokenFile'[a] = tokenFile[a]
    PROVE  /\ attempt'[a].at \in {"created", "accepted"} => <<a, attempt'[a].n, tokenFile'[a]>> \in devices'
           /\ identity'[a] # 0 => attempt'[a].at \in {"idle", "stored"} /\ \E t \in Token : <<a, identity'[a], t>> \in devices'
  BY Zenon DEF IdentityInv

\* Every step of an agent's attempt: the device is there before the answer, the answer
\* before the identity, and an agent with an identity sends no request.
LEMMA IdentityStep ==
    ASSUME EnrollmentInv, IdentityInv, NEW a \in Agent, Enroll(a) \/ HandleAgentEnroll(a)
    PROVE  IdentityInv' /\ \A b \in Agent : identity[b] # 0 => identity'[b] = identity[b]
  <1> USE DEF Enroll, HandleAgentEnroll, SendRequest, ReceiveAnswer, AttemptFails, PersistIdentity, RemoveTokenFile,
              SelectForUpdate, CommitEnrollment, RollbackEnrollment, EnrollAt, EnrollGoTo
  <1>t. /\ attempt \in [Agent -> [n : 0..MaxAttempts, at : {"idle", "sent", "held", "created", "rejected", "accepted", "stored"}]]
        /\ identity \in [Agent -> 0..MaxAttempts] /\ tokenFile \in [Agent -> Token \cup {NoToken}]
        /\ \A b \in Agent : attempt[b].at # "idle" => tokenFile[b] \in Token
    BY Zenon DEF EnrollmentInv, EnrollmentTypeOK, HasToken
  <1>1. devices \subseteq devices' BY Zenon
  <1>2. ASSUME NEW b \in Agent \ {a}
        PROVE  attempt'[b] = attempt[b] /\ identity'[b] = identity[b] /\ tokenFile'[b] = tokenFile[b]
    BY <1>t, ZenonT(30)
  <1>3. /\ attempt'[a].at \in {"created", "accepted"} => <<a, attempt'[a].n, tokenFile'[a]>> \in devices'
        /\ identity'[a] # 0 => attempt'[a].at \in {"idle", "stored"} /\ \E t \in Token : <<a, identity'[a], t>> \in devices'
        /\ identity[a] # 0 => identity'[a] = identity[a]
    <2>i. /\ attempt[a].at \in {"created", "accepted"} => <<a, attempt[a].n, tokenFile[a]>> \in devices
          /\ identity[a] # 0 => attempt[a].at \in {"idle", "stored"} /\ \E t \in Token : <<a, identity[a], t>> \in devices
      BY Zenon DEF IdentityInv
    <2>1. CASE SendRequest(a)
      <3>1. attempt'[a].at = "sent" /\ identity'[a] = 0 /\ identity[a] = 0 BY <1>t, <2>1, Zenon
      <3> QED BY <3>1, Zenon
    <2>2. CASE PersistIdentity(a)
      <3>1. attempt[a].at = "accepted" /\ attempt'[a].at = "stored" /\ identity'[a] = attempt[a].n /\ devices' = devices
        BY <1>t, <2>2, Zenon
      <3> QED BY <1>t, <2>i, <3>1, Zenon
    <2>3. CASE CommitEnrollment(a)
      <3>1. /\ attempt[a].at = "held" /\ attempt'[a].n = attempt[a].n /\ tokenFile'[a] = tokenFile[a]
            /\ identity'[a] = identity[a] /\ <<a, attempt[a].n, tokenFile[a]>> \in devices'
        BY <1>t, <2>3, Zenon
      <3> QED BY <2>i, <3>1, Zenon
    <2>4. CASE RemoveTokenFile(a)
      <3>1. attempt[a].at = "stored" /\ attempt'[a].at = "idle" /\ identity' = identity /\ devices' = devices
        BY <1>t, <2>4, Zenon
      <3> QED BY <2>i, <3>1, Zenon
    <2>5. CASE ReceiveAnswer(a) \/ AttemptFails(a) \/ SelectForUpdate(a) \/ RollbackEnrollment(a)
      <3>1. UNCHANGED <<identity, tokenFile, devices>> BY <2>5, Zenon
      <3>2. attempt[a].at \notin {"idle", "stored"} BY <2>5, Zenon
      <3>3. attempt'[a].n = attempt[a].n /\ attempt'[a].at \in {"accepted", "idle", "held", "rejected"}
        BY <1>t, <2>5, ZenonT(30)
      <3>4. attempt'[a].at = "accepted" => attempt[a].at = "created" BY <1>t, <2>5, Zenon
      <3> QED BY <2>i, <3>1, <3>2, <3>3, <3>4, Zenon
    <2> QED BY <2>1, <2>2, <2>3, <2>4, <2>5, Zenon
  <1> QED BY <1>1, <1>2, <1>3, OtherIdentityStays, Zenon DEF IdentityInv

\* Every reachable state, with the identities: the rest of the steps leave them alone.
LEMMA IdentitySteps ==
    ASSUME EnrollmentInv, IdentityInv, [EnrollmentNext]_enrollVars
    PROVE  IdentityInv' /\ \A b \in Agent : identity[b] # 0 => identity'[b] = identity[b]
  <1>1. ASSUME UNCHANGED <<attempt, identity, devices>>,
               \A b \in Agent : attempt[b].at # "idle" => tokenFile'[b] = tokenFile[b]
        PROVE  IdentityInv' /\ \A b \in Agent : identity[b] # 0 => identity'[b] = identity[b]
    BY <1>1, OtherIdentityStays, Zenon DEF IdentityInv
  <1>2. ASSUME NEW a \in Agent, NEW t \in Token, Deploy(a, t)
        PROVE  IdentityInv' /\ \A b \in Agent : identity[b] # 0 => identity'[b] = identity[b]
    <2>1. tokenFile[a] = NoToken /\ tokenFile' = [tokenFile EXCEPT ![a] = t] /\ UNCHANGED <<attempt, identity, devices>>
      BY <1>2, Zenon DEF Deploy
    <2>2. attempt[a].at = "idle" BY <2>1, EnrollmentAssumption, Zenon DEF EnrollmentInv, HasToken
    <2>3. \A b \in Agent \ {a} : tokenFile'[b] = tokenFile[b] BY <2>1, Zenon DEF EnrollmentInv, EnrollmentTypeOK
    <2> QED BY <1>1, <2>1, <2>2, <2>3, Zenon
  <1>3. \/ \E a \in Agent : Enroll(a) \/ HandleAgentEnroll(a)
        \/ \E a \in Agent, t \in Token : Deploy(a, t)
        \/ UNCHANGED <<attempt, identity, devices, tokenFile>>
    BY Zenon DEF EnrollmentNext, CreateToken, TokenExpires, RevokeToken, RevokeAllOutstanding, enrollVars
  <1> QED BY <1>1, <1>2, <1>3, IdentityStep, Zenon

\* Enroll and Consume: whatever answers were lost and however often it was tried, the
\* identity an agent stores is of a device that is enrolled with its key, and it keeps
\* it: it neither enrolls a second time nor takes a later answer for its own.
THEOREM EnrolledForGood == EnrollmentSpec => []IdentityIsEnrolled /\ IdentityStays
  <1>1. EnrollmentInit => IdentityInv BY DEF EnrollmentInit, IdentityInv
  <1>2. EnrollmentInv /\ IdentityInv /\ [EnrollmentNext]_enrollVars
        => IdentityInv' /\ [\A a \in Agent : identity[a] # 0 => identity'[a] = identity[a]]_identity
    BY IdentitySteps, Zenon
  <1>3. IdentityInv => IdentityIsEnrolled BY Zenon DEF IdentityInv, IdentityIsEnrolled
  <1> QED BY <1>1, <1>2, <1>3, EnrollmentInvariant, PTL DEF EnrollmentSpec, IdentityStays

----------------------------------------------------------------------------
(* Elevated rights *)

PrivilegeShape ==
    /\ active \in BOOLEAN
    /\ reauth \in [Reauth -> {"absent", "fresh", "consumed", "expired"}]
    /\ grantor \in [Grantor -> [at : {"idle", "loaded", "confirmed"}, token : Reauth \cup {NoReauth}, loaded : BOOLEAN]]
    /\ grants \in [GrantId -> [state : {"absent", "valid", "expired", "revoked"}, token : Reauth \cup {NoReauth}]]

\* A row rests on a consumed token; a row that does not exist on none.
GrantsRest ==
    \A i \in GrantId : IF grants[i].state = "absent" THEN grants[i].token = NoReauth
                       ELSE grants[i].token \in Reauth /\ reauth[grants[i].token] = "consumed"

\* A request past ConsumeReauth has consumed its token, and nobody else has.
Confirmed ==
    \A g \in Grantor :
        /\ grantor[g].at # "idle" => grantor[g].token \in Reauth
        /\ grantor[g].at = "confirmed" =>
              /\ reauth[grantor[g].token] = "consumed"
              /\ \A i \in GrantId : grants[i].token # grantor[g].token
              /\ \A f \in Grantor : grantor[f].at = "confirmed" /\ grantor[f].token = grantor[g].token => f = g

\* What the revoke handler and the sweeper have loaded are rows.
LoadedExist ==
    /\ revoker # 0 => revoker \in GrantId /\ grants[revoker].state # "absent"
    /\ expiring \subseteq GrantId /\ \A i \in expiring : grants[i].state # "absent"

PrivilegeInv == PrivilegeShape /\ GrantsRest /\ Confirmed /\ LoadedExist /\ OneGrantPerReauth

\* No token, request or row at first.
LEMMA PrivilegeInitially == PrivilegeInit => PrivilegeInv
  BY PrivilegeAssumption DEF PrivilegeInit, PrivilegeInv, PrivilegeShape, GrantsRest, Confirmed, LoadedExist,
     OneGrantPerReauth, NoGrantor, NoGrant, GrantId

\* Tokens are issued and expire; neither touches a consumed one.
LEMMA ReauthPreserves ==
    ASSUME PrivilegeInv, NEW t \in Reauth, IssueReauth(t) \/ ReauthExpires(t)
    PROVE  PrivilegeInv'
  <1> USE DEF PrivilegeInv
  <1>1. UNCHANGED <<grantor, grants, revoker, expiring>> BY Zenon DEF IssueReauth, ReauthExpires
  <1>2. /\ reauth' \in [Reauth -> {"absent", "fresh", "consumed", "expired"}]
        /\ \A s \in Reauth : reauth[s] = "consumed" => reauth'[s] = "consumed"
    BY Zenon DEF IssueReauth, ReauthExpires, PrivilegeShape
  <1>3. active' = active BY Zenon DEF IssueReauth, ReauthExpires
  <1>4. PrivilegeShape' BY <1>1, <1>2, <1>3, Zenon DEF PrivilegeShape
  <1>5. (GrantsRest /\ Confirmed)' BY <1>1, <1>2, Zenon DEF GrantsRest, Confirmed
  <1>6. (LoadedExist /\ OneGrantPerReauth)' BY <1>1, Zenon DEF LoadedExist, OneGrantPerReauth
  <1> QED BY <1>4, <1>5, <1>6, Zenon

\* handleGrantPrivilege up to the grant: only a fresh token confirms, and a fresh one
\* is behind no row and no other confirmed request.
LEMMA ConfirmPreserves ==
    ASSUME PrivilegeInv, NEW g \in Grantor, (\E t \in Reauth : LoadSession(g, t)) \/ ConsumeReauth(g)
    PROVE  PrivilegeInv'
  <1> USE PrivilegeAssumption DEF PrivilegeInv
  <1>1. UNCHANGED <<grants, revoker, expiring>> BY Zenon DEF LoadSession, ConsumeReauth
  <1>2. (OneGrantPerReauth /\ LoadedExist)' BY <1>1, Zenon DEF OneGrantPerReauth, LoadedExist
  <1>3. ASSUME NEW t \in Reauth, LoadSession(g, t) PROVE PrivilegeInv'
    <2>1. /\ grantor' = [grantor EXCEPT ![g] = [at |-> "loaded", token |-> t, loaded |-> active]]
          /\ UNCHANGED <<reauth, active>>
      BY <1>3, Zenon DEF LoadSession
    <2>2. PrivilegeShape' BY <1>1, <2>1, Zenon DEF PrivilegeShape
    <2>3. (GrantsRest /\ Confirmed)' BY <1>1, <2>1 DEF PrivilegeShape, GrantsRest, Confirmed
    <2> QED BY <1>2, <2>2, <2>3, Zenon
  <1>4. CASE ConsumeReauth(g) /\ reauth[grantor[g].token] = "fresh"
    <2> DEFINE t == grantor[g].token
    <2>1. /\ reauth' = [reauth EXCEPT ![t] = "consumed"] /\ active' = active
          /\ grantor' = [grantor EXCEPT ![g].at = "confirmed"]
      BY <1>4, Zenon DEF ConsumeReauth
    <2>2. t \in Reauth /\ reauth[t] = "fresh" BY <1>4, Zenon DEF ConsumeReauth, Confirmed
    <2>3. /\ \A i \in GrantId : grants[i].token # t
          /\ \A f \in Grantor : grantor[f].at = "confirmed" => grantor[f].token # t
      BY <2>2, Zenon DEF GrantsRest, Confirmed
    <2>4. PrivilegeShape' BY <1>1, <2>1, ZenonT(30) DEF PrivilegeShape
    <2>5. GrantsRest' BY <1>1, <2>1, <2>2, Zenon DEF PrivilegeShape, GrantsRest
    <2>6. Confirmed' BY <1>1, <2>1, <2>2, <2>3 DEF PrivilegeShape, Confirmed
    <2> QED BY <1>2, <2>4, <2>5, <2>6, Zenon
  <1>5. CASE ConsumeReauth(g) /\ reauth[grantor[g].token] # "fresh"
    <2>1. grantor' = [grantor EXCEPT ![g] = NoGrantor] /\ UNCHANGED <<active, reauth>>
      BY <1>5, Zenon DEF ConsumeReauth
    <2>2. PrivilegeShape' BY <1>1, <2>1, Zenon DEF PrivilegeShape, NoGrantor
    <2>3. (GrantsRest /\ Confirmed)' BY <1>1, <2>1 DEF PrivilegeShape, GrantsRest, Confirmed, NoGrantor
    <2> QED BY <1>2, <2>2, <2>3, Zenon
  <1> QED BY <1>3, <1>4, <1>5, Zenon

\* GrantPrivilege: the row it inserts is the first to rest on the request's token.
LEMMA GrantPreserves ==
    ASSUME PrivilegeInv, NEW g \in Grantor, GrantPrivilege(g)
    PROVE  PrivilegeInv'
  <1> USE PrivilegeAssumption DEF PrivilegeInv
  <1> DEFINE t == grantor[g].token
  <1>1. /\ t \in Reauth /\ reauth[t] = "consumed"
        /\ \A i \in GrantId : grants[i].token # t
        /\ \A f \in Grantor \ {g} : grantor[f].at = "confirmed" => grantor[f].token # t
    BY Zenon DEF GrantPrivilege, Confirmed
  <1>2. grantor' = [grantor EXCEPT ![g] = NoGrantor] /\ UNCHANGED <<active, reauth, revoker, expiring>>
    BY Zenon DEF GrantPrivilege
  <1>3. CASE grants' = grants
    BY <1>2, <1>3 DEF PrivilegeShape, GrantsRest, Confirmed, LoadedExist, OneGrantPerReauth, NoGrantor
  <1>4. ASSUME NEW i \in GrantId, grants[i].state = "absent", grants' = [grants EXCEPT ![i] = [state |-> "valid", token |-> t]]
        PROVE  PrivilegeInv'
    <2>1. PrivilegeShape' BY <1>1, <1>2, <1>4, Zenon DEF PrivilegeShape, NoGrantor
    <2>2. (GrantsRest /\ LoadedExist)' BY <1>1, <1>2, <1>4, Zenon DEF PrivilegeShape, GrantsRest, LoadedExist
    <2>3. Confirmed' BY <1>1, <1>2, <1>4 DEF PrivilegeShape, Confirmed, NoGrantor
    <2>4. OneGrantPerReauth' BY <1>1, <1>4, Zenon DEF PrivilegeShape, OneGrantPerReauth
    <2> QED BY <2>1, <2>2, <2>3, <2>4, Zenon
  <1> QED BY <1>3, <1>4, Zenon DEF GrantPrivilege, CreateGrant, InState

\* Expiry and the revocations change the state of rows that exist, nothing else.
LEMMA RevokePreserves ==
    ASSUME PrivilegeInv,
           \/ RevokeLoaded
           \/ \E i \in GrantId : GrantExpires(i) \/ RevokeExpired(i) \/ RevokeExpiredFails(i)
    PROVE  PrivilegeInv'
  <1> USE DEF PrivilegeInv
  <1>1. UNCHANGED <<active, reauth, grantor>>
    BY Zenon DEF RevokeLoaded, GrantExpires, RevokeExpired, RevokeExpiredFails
  <1>2. \/ grants' = grants
        \/ \E i \in GrantId, v \in {"expired", "revoked"} :
              grants[i].state # "absent" /\ grants' = [grants EXCEPT ![i].state = v]
    BY Zenon DEF RevokeLoaded, GrantExpires, RevokeExpired, RevokeExpiredFails, RevokeRow, LoadedExist
  <1>3. /\ grants' \in [GrantId -> [state : {"absent", "valid", "expired", "revoked"}, token : Reauth \cup {NoReauth}]]
        /\ \A i \in GrantId : /\ grants'[i].token = grants[i].token
                              /\ grants'[i].state = "absent" <=> grants[i].state = "absent"
    <2>1. CASE grants' = grants BY <2>1, Zenon DEF PrivilegeShape
    <2>2. ASSUME NEW i \in GrantId, NEW v \in {"expired", "revoked"},
                 grants[i].state # "absent", grants' = [grants EXCEPT ![i].state = v]
          PROVE  <1>3
      BY <2>2 DEF PrivilegeShape
    <2> QED BY <1>2, <2>1, <2>2, Zenon
  <1>4. revoker' \in {0, revoker} /\ expiring' \subseteq expiring
    BY Zenon DEF RevokeLoaded, GrantExpires, RevokeExpired, RevokeExpiredFails
  <1>5. PrivilegeShape' BY <1>1, <1>3, Zenon DEF PrivilegeShape
  <1>6. (GrantsRest /\ LoadedExist)' BY <1>1, <1>3, <1>4, SMTT(30) DEF GrantsRest, LoadedExist
  <1>7. (Confirmed /\ OneGrantPerReauth)' BY <1>1, <1>3 DEF Confirmed, OneGrantPerReauth
  <1> QED BY <1>5, <1>6, <1>7, Zenon

\* The end of the session and the two queries write no row and no token.
LEMMA QueryPreserves ==
    ASSUME PrivilegeInv, SessionEnds \/ LoadActive \/ ListExpired
    PROVE  PrivilegeInv'
  <1> USE DEF PrivilegeInv
  <1>1. UNCHANGED <<reauth, grantor, grants>> /\ active' \in BOOLEAN
    BY Zenon DEF SessionEnds, LoadActive, ListExpired, PrivilegeShape
  <1>2. (PrivilegeShape /\ GrantsRest /\ Confirmed /\ OneGrantPerReauth)'
    BY <1>1 DEF PrivilegeShape, GrantsRest, Confirmed, OneGrantPerReauth
  <1>3. LoadedExist' BY <1>1, Zenon DEF SessionEnds, LoadActive, ListExpired, InState, LoadedExist
  <1> QED BY <1>2, <1>3, Zenon

\* The invariant gives the types, the revoker's row id included.
LEMMA PrivilegeTypes == PrivilegeInv => PrivilegeTypeOK
  <1> SUFFICES ASSUME PrivilegeInv PROVE PrivilegeTypeOK BY Zenon
  <1>1. revoker \in 0..MaxGrants BY PrivilegeAssumption DEF PrivilegeInv, LoadedExist, GrantId
  <1> QED BY <1>1, Zenon DEF PrivilegeInv, PrivilegeShape, LoadedExist, PrivilegeTypeOK

\* Every reachable state of the grants satisfies the inductive invariant.
LEMMA PrivilegeInvariant == PrivilegeSpec => []PrivilegeInv
  <1>1. PrivilegeInv /\ [PrivilegeNext]_privilegeVars => PrivilegeInv'
    <2> SUFFICES ASSUME PrivilegeInv, [PrivilegeNext]_privilegeVars PROVE PrivilegeInv' BY Zenon
    <2>1. ASSUME NEW g \in Grantor, HandleGrant(g) PROVE PrivilegeInv'
      BY <2>1, ConfirmPreserves, GrantPreserves, Zenon DEF HandleGrant
    <2>2. CASE UNCHANGED privilegeVars
      BY <2>2 DEF privilegeVars, PrivilegeInv, PrivilegeShape, GrantsRest, Confirmed, LoadedExist, OneGrantPerReauth
    <2> QED BY <2>1, <2>2, ReauthPreserves, RevokePreserves, QueryPreserves, Zenon DEF PrivilegeNext
  <1> QED BY <1>1, PrivilegeInitially, PTL DEF PrivilegeSpec

\* ConsumeReauth and GrantPrivilege: no reauthentication pays for two grants, however
\* many requests present it at once or later.
THEOREM OneGrantEach == PrivilegeSpec => []OneGrantPerReauth
  <1>1. PrivilegeInv => OneGrantPerReauth BY Zenon DEF PrivilegeInv
  <1> QED BY <1>1, PrivilegeInvariant, PTL

\* A new row uses the token of its request; without one nothing is used.
LEMMA GrantUses ==
    ASSUME PrivilegeInv, NEW g \in Grantor, GrantPrivilege(g)
    PROVE  [ReauthUse!Next]_SpentReauths
  <1> DEFINE t == grantor[g].token
  <1>1. t \in Reauth /\ \A i \in GrantId : grants[i].token # t BY Zenon DEF PrivilegeInv, GrantPrivilege, Confirmed
  <1>2. CASE grants' = grants
    <2>1. SpentReauths' = SpentReauths BY <1>2, Zenon DEF SpentReauths
    <2> QED BY <2>1, Zenon
  <1>3. ASSUME NEW i \in GrantId, grants[i].state = "absent", grants' = [grants EXCEPT ![i] = [state |-> "valid", token |-> t]]
        PROVE  ReauthUse!Next
    <2>1. /\ grants'[i].token = t /\ grants[i].token = NoReauth
          /\ \A j \in GrantId \ {i} : grants'[j] = grants[j]
      BY <1>3, Zenon DEF PrivilegeInv, PrivilegeShape, GrantsRest
    <2> HIDE DEF t
    <2>2. SpentReauths[t] = {} BY <1>1, Zenon DEF SpentReauths
    <2>3. SpentReauths'[t] = {i} BY <1>1, <2>1, Zenon DEF SpentReauths
    <2>4. ASSUME NEW s \in Reauth \ {t} PROVE SpentReauths'[s] = SpentReauths[s]
      BY <2>1, PrivilegeAssumption, Zenon DEF SpentReauths
    <2>5. /\ SpentReauths' = [s \in Reauth |-> SpentReauths'[s]]
          /\ DOMAIN SpentReauths = Reauth
      BY Zenon DEF SpentReauths
    <2>6. SpentReauths' = [SpentReauths EXCEPT ![t] = {i}] BY <2>3, <2>4, <2>5, Zenon
    <2> QED BY <1>1, <2>2, <2>6, Zenon DEF ReauthUse!Next, ReauthUse!Use
  <1> QED BY <1>2, <1>3, Zenon DEF GrantPrivilege, CreateGrant, InState

\* ConsumeReauth: a reauthentication is used atomically, at most once and for good, for
\* any number of requests, tokens and grants.
THEOREM ReauthsAreSingleUse == PrivilegeSpec => ReauthUsedOnce
  <1>1. PrivilegeInit => ReauthUse!Init BY PrivilegeAssumption DEF PrivilegeInit, ReauthUse!Init, SpentReauths, NoGrant
  <1>2. PrivilegeInv /\ [PrivilegeNext]_privilegeVars => [ReauthUse!Next]_SpentReauths
    <2> SUFFICES ASSUME PrivilegeInv, [PrivilegeNext]_privilegeVars PROVE [ReauthUse!Next]_SpentReauths BY Zenon
    <2>1. CASE \E i \in GrantId, v \in {"expired", "revoked"} : grants' = [grants EXCEPT ![i].state = v]
      <3>1. \A i \in GrantId : grants'[i].token = grants[i].token BY <2>1 DEF PrivilegeInv, PrivilegeShape
      <3>2. SpentReauths' = SpentReauths BY <3>1, Zenon DEF SpentReauths
      <3> QED BY <3>2, Zenon
    <2>2. CASE grants' = grants
      <3>1. SpentReauths' = SpentReauths BY <2>2, Zenon DEF SpentReauths
      <3> QED BY <3>1, Zenon
    <2>3. ASSUME RevokeLoaded \/ \E i \in GrantId : GrantExpires(i) \/ RevokeExpired(i) \/ RevokeExpiredFails(i)
          PROVE  \/ grants' = grants
                 \/ \E i \in GrantId, v \in {"expired", "revoked"} : grants' = [grants EXCEPT ![i].state = v]
      BY <2>3, Zenon DEF RevokeLoaded, GrantExpires, RevokeExpired, RevokeExpiredFails, RevokeRow, PrivilegeInv, LoadedExist
    <2>4. \/ \E g \in Grantor : GrantPrivilege(g)
          \/ RevokeLoaded \/ \E i \in GrantId : GrantExpires(i) \/ RevokeExpired(i) \/ RevokeExpiredFails(i)
          \/ grants' = grants
      BY Zenon DEF PrivilegeNext, SessionEnds, IssueReauth, ReauthExpires, HandleGrant, LoadSession, ConsumeReauth,
         LoadActive, ListExpired, privilegeVars
    <2> QED BY <2>1, <2>2, <2>3, <2>4, GrantUses, Zenon
  <1> QED BY <1>1, <1>2, PrivilegeInvariant, PTL DEF PrivilegeSpec, ReauthUsedOnce, ReauthUse!Spec

----------------------------------------------------------------------------
(* Sign-in *)

\* A request that came while the account was off finds it off.
OffIsStillOff == request.off => ~user.active

SignInInv == SignInTypeOK /\ OffIsStillOff /\ DisabledIsOut

UserRow == [active : BOOLEAN, failed : 0..MaxTypos, lock : 0..LockTime, required : BOOLEAN]
RequestRow == [at : {"idle", "validated", "admitted", "reauth", "reauthed"}, off : BOOLEAN]
BrowserRow == [at : {"out", "verified", "verifiedMust", "setup", "enrolling", "confirming", "challenged", "granted"},
               secret : 0..MaxSecret]

\* The rows and the numbers in them.
LEMMA SignInTypes ==
    ASSUME SignInTypeOK
    PROVE  /\ user \in UserRow /\ user.active \in BOOLEAN /\ user.failed \in 0..MaxTypos /\ user.lock \in 0..LockTime
           /\ user.required \in BOOLEAN
           /\ browser \in [Browser -> BrowserRow] /\ 0 \in 0..MaxSecret /\ 0 \in 0..MaxTypos /\ 0 \in 0..LockTime
           /\ LockTime \in 0..LockTime
           /\ request \in RequestRow
  <1>1. user \in UserRow BY Zenon DEF SignInTypeOK, UserRow
  <1>2. browser \in [Browser -> BrowserRow] BY Zenon DEF SignInTypeOK, BrowserRow
  <1>3. 0 \in 0..MaxSecret /\ 0 \in 0..MaxTypos /\ 0 \in 0..LockTime /\ LockTime \in 0..LockTime
    BY SignInAssumption
  <1> QED BY <1>1, <1>2, <1>3, Zenon DEF SignInTypeOK, UserRow, RequestRow

\* The account is active, nobody is signed in.
LEMMA SignInInitially == SignInInit => SignInInv
  <1> SUFFICES ASSUME SignInInit PROVE SignInInv BY Zenon
  <1>1. 0 \in 0..MaxSecret /\ 0 \in 0..MaxTypos /\ 0 \in 0..LockTime /\ 0 \in 0..MaxChanges BY SignInAssumption
  <1>2. SignInTypeOK BY <1>1, Zenon DEF SignInInit, SignInTypeOK
  <1>3. OffIsStillOff /\ DisabledIsOut BY Zenon DEF SignInInit, OffIsStillOff, DisabledIsOut
  <1> QED BY <1>2, <1>3, Zenon DEF SignInInv

\* The steps of a login: none touches the account's status or a request.
LEMMA LoginPreserves ==
    ASSUME SignInInv, NEW b \in Browser,
           HandleLogin(b) \/ ConfirmMFASetup(b) \/ CompleteMFA(b) \/ AbandonLogin(b)
    PROVE  SignInInv'
  <1> USE DEF HandleLogin, ConfirmMFASetup, VerifyPassword, ChooseFactor, BeginSetup, CreateSession, CheckFirstCode,
              StoreConfirmed, CompleteMFA, AbandonLogin
  <1>t. SignInTypeOK BY Zenon DEF SignInInv
  <1>1. UNCHANGED <<request, disabling, changes>> BY Zenon
  <1>2. user' \in UserRow /\ user'.active = user.active
    <2>1. user' \in {user, [user EXCEPT !.failed = 0, !.lock = 0]} BY Zenon
    <2> QED BY <1>t, <2>1, SignInTypes, Zenon DEF UserRow
  <1>3. secrets' \in 0..MaxSecret /\ mfa' \in [secret : 0..MaxSecret, confirmed : BOOLEAN]
    <2>1. secrets < MaxSecret => secrets + 1 \in 0..MaxSecret BY <1>t, SignInAssumption DEF SignInTypeOK
    <2>2. CASE BeginSetup(b) BY <1>t, <2>1, <2>2, Zenon DEF SignInTypeOK
    <2>3. CASE StoreConfirmed(b) BY <1>t, <2>3, Zenon DEF SignInTypeOK
    <2>4. CASE ~BeginSetup(b) /\ ~StoreConfirmed(b)
      <3>1. UNCHANGED <<mfa, secrets>> BY <2>4, Zenon
      <3> QED BY <1>t, <3>1, Zenon DEF SignInTypeOK
    <2> QED BY <2>2, <2>3, <2>4, Zenon
  <1>4. browser' \in [Browser -> BrowserRow]
    <2>1. CASE BeginSetup(b)
      <3>1. [at |-> "enrolling", secret |-> secrets + 1] \in BrowserRow
        BY <1>t, <2>1, SignInAssumption DEF SignInTypeOK, BrowserRow
      <3> QED BY <1>t, <2>1, <3>1, SignInTypes, Zenon
    <2>2. CASE ~BeginSetup(b)
      <3>1. PICK s \in {"out", "verified", "verifiedMust", "setup", "confirming", "challenged", "granted"} : Becomes(b, s)
        BY <2>2, Zenon
      <3>2. [at |-> s, secret |-> 0] \in BrowserRow BY <1>t, SignInTypes, Zenon DEF BrowserRow
      <3> QED BY <1>t, <3>1, <3>2, SignInTypes, Zenon DEF Becomes
    <2> QED BY <2>1, <2>2, Zenon
  <1>5. session' \in [Browser -> BOOLEAN]
    <2>1. session' \in {session, [session EXCEPT ![b] = TRUE]} BY Zenon
    <2> QED BY <1>t, <2>1, Zenon DEF SignInTypeOK
  <1>6. SignInTypeOK' BY <1>t, <1>1, <1>2, <1>3, <1>4, <1>5, Zenon DEF SignInTypeOK, UserRow, BrowserRow
  <1>7. (OffIsStillOff /\ DisabledIsOut)' BY <1>1, <1>2, Zenon DEF SignInInv, OffIsStillOff, DisabledIsOut
  <1> QED BY <1>6, <1>7, Zenon DEF SignInInv

\* Wrong passwords and the lock's end: only the counters.
LEMMA LockPreserves ==
    ASSUME SignInInv, LockTick \/ \E b \in Browser : WrongPassword(b)
    PROVE  SignInInv'
  <1>t. SignInTypeOK BY Zenon DEF SignInInv
  <1>1. UNCHANGED <<mfa, secrets, browser, session, request, disabling, changes>> BY Zenon DEF LockTick, WrongPassword
  <1>2. user' \in UserRow /\ user'.active = user.active
    <2>1. CASE LockTick
      <3>1. user.lock - 1 \in 0..LockTime BY <1>t, <2>1, SignInTypes, SignInAssumption DEF LockTick
      <3> QED BY <1>t, <2>1, <3>1, SignInTypes, Zenon DEF LockTick, UserRow
    <2>2. ASSUME NEW b \in Browser, WrongPassword(b) PROVE <1>2
      <3>1. user.failed + 1 \in 0..MaxTypos BY <1>t, <2>2, SignInTypes, SignInAssumption DEF WrongPassword
      <3>2. \E k \in 0..LockTime : user' = [user EXCEPT !.failed = user.failed + 1, !.lock = k]
        BY <1>t, <2>2, SignInTypes, Zenon DEF WrongPassword
      <3> QED BY <1>t, <3>1, <3>2, SignInTypes, Zenon DEF UserRow
    <2> QED BY <2>1, <2>2, Zenon
  <1>3. SignInTypeOK' BY <1>t, <1>1, <1>2, Zenon DEF SignInTypeOK, UserRow
  <1> QED BY <1>1, <1>2, <1>3, Zenon DEF SignInInv, OffIsStillOff, DisabledIsOut

\* The middleware: the account is read after the session.
LEMMA RequestPreserves ==
    ASSUME SignInInv, AdmitRequest \/ HandleReauth \/ RequestDone \/ \E b \in Browser : ValidateSession(b)
    PROVE  SignInInv'
  <1>t. SignInTypeOK BY Zenon DEF SignInInv
  <1>1. UNCHANGED <<user, mfa, secrets, browser, session, disabling, changes>>
    BY Zenon DEF AdmitRequest, HandleReauth, RequestDone, ValidateSession
  <1>2. /\ request' \in RequestRow
        /\ request'.off => ~user.active
        /\ request'.at = "admitted" => ~request'.off
    <2>1. CASE AdmitRequest
      <3>1. CASE user.active
        <4>1. request' = [request EXCEPT !.at = "admitted"] BY <2>1, <3>1, Zenon DEF AdmitRequest
        <4>2. request'.off = request.off BY <1>t, <4>1, SignInTypes, Zenon DEF RequestRow
        <4>3. ~request.off BY <3>1, Zenon DEF SignInInv, OffIsStillOff
        <4> QED BY <1>t, <4>1, <4>2, <4>3, SignInTypes, Zenon DEF RequestRow
      <3>2. CASE ~user.active BY <2>1, <3>2, Zenon DEF AdmitRequest, RequestRow
      <3> QED BY <3>1, <3>2, Zenon
    <2>2. CASE request' = [at |-> "idle", off |-> FALSE] BY <2>2, Zenon DEF RequestRow
    <2>3. ASSUME NEW b \in Browser, ValidateSession(b) PROVE <1>2
      <3>1. PICK a \in {"validated", "reauth"} : request' = [at |-> a, off |-> ~user.active /\ ~disabling]
        BY <2>3, Zenon DEF ValidateSession
      <3> QED BY <3>1, Zenon DEF RequestRow
    <2>4. CASE request' = [request EXCEPT !.at = "reauthed"]
      <3>1. request' \in RequestRow /\ request'.at = "reauthed" /\ request'.off = request.off
        BY <1>t, <2>4, SignInTypes, Zenon DEF RequestRow
      <3> QED BY <3>1, Zenon DEF SignInInv, OffIsStillOff
    <2> QED BY <2>1, <2>2, <2>3, <2>4, Zenon DEF RequestDone, HandleReauth
  <1>3. SignInTypeOK' BY <1>t, <1>1, <1>2, Zenon DEF SignInTypeOK, RequestRow
  <1> QED BY <1>1, <1>2, <1>3, Zenon DEF SignInInv, OffIsStillOff, DisabledIsOut

\* The administrator and the sessions: an account that is changed has no request that
\* came before.
LEMMA AccountPreserves ==
    ASSUME SignInInv,
           \/ \E on \in BOOLEAN : SetStatus(on)
           \/ RevokeDisabled \/ RevokeUserSessions \/ SetMFARequired \/ \E b \in Browser : SessionCloses(b)
    PROVE  SignInInv'
  <1>t. SignInTypeOK BY Zenon DEF SignInInv
  <1>1. UNCHANGED <<mfa, secrets, browser>>
    BY Zenon DEF SetStatus, RevokeDisabled, RevokeUserSessions, SetMFARequired, SessionCloses
  <1>2. changes' \in 0..MaxChanges
    <2>1. changes' = changes \/ (changes < MaxChanges /\ changes' = changes + 1)
      BY Zenon DEF SetStatus, RevokeDisabled, RevokeUserSessions, SetMFARequired, SessionCloses, ChangeAccount
    <2> QED BY <1>t, <2>1, SignInAssumption, SMTT(30) DEF SignInTypeOK
  <1>3. session' \in [Browser -> BOOLEAN]
    <2>1. session' \in {session, [b \in Browser |-> FALSE]} \/ \E b \in Browser : session' = [session EXCEPT ![b] = FALSE]
      BY Zenon DEF SetStatus, RevokeDisabled, RevokeUserSessions, SetMFARequired, SessionCloses, RevokeAll
    <2> QED BY <1>t, <2>1, ZenonT(30) DEF SignInTypeOK
  <1>4. disabling' \in BOOLEAN
    BY <1>t, Zenon DEF SetStatus, RevokeDisabled, RevokeUserSessions, SetMFARequired, SessionCloses, SignInTypeOK
  <1>5. /\ user' \in UserRow /\ request' \in RequestRow
        /\ request'.off => request' = request /\ ~user'.active
        /\ request'.at = request.at
    <2>1. ASSUME NEW on \in BOOLEAN, SetStatus(on) PROVE <1>5
      <3>1. user' = [user EXCEPT !.active = on, !.lock = 0] /\ request' = [request EXCEPT !.off = FALSE]
        BY <2>1, Zenon DEF SetStatus
      <3>2. user' \in UserRow BY <1>t, <3>1, SignInTypes, Zenon DEF UserRow
      <3>3. request' \in RequestRow /\ request'.off = FALSE
            /\ request'.at = request.at
        BY <1>t, <3>1, SignInTypes, Zenon DEF RequestRow
      <3> QED BY <3>2, <3>3, Zenon
    <2>2. CASE SetMFARequired
      <3>1. user' = [user EXCEPT !.required = ~user.required] /\ request' = request BY <2>2, Zenon DEF SetMFARequired
      <3>2. user' \in UserRow /\ user'.active = user.active BY <1>t, <3>1, SignInTypes, Zenon DEF UserRow
      <3> QED BY <1>t, <3>1, <3>2, SignInTypes, Zenon DEF SignInInv, OffIsStillOff
    <2>3. CASE RevokeDisabled \/ RevokeUserSessions \/ \E b \in Browser : SessionCloses(b)
      <3>1. UNCHANGED <<user, request>> BY <2>3, Zenon DEF RevokeDisabled, RevokeUserSessions, SessionCloses
      <3> QED BY <1>t, <3>1, SignInTypes, Zenon DEF SignInInv, OffIsStillOff
    <2> QED BY <2>1, <2>2, <2>3, Zenon
  <1>6. SignInTypeOK' BY <1>t, <1>1, <1>2, <1>3, <1>4, <1>5, Zenon DEF SignInTypeOK, UserRow, RequestRow
  <1>7. (OffIsStillOff /\ DisabledIsOut)' BY <1>5, Zenon DEF SignInInv, OffIsStillOff, DisabledIsOut
  <1> QED BY <1>6, <1>7, Zenon DEF SignInInv

\* Every reachable state of the sign-in satisfies the inductive invariant.
LEMMA SignInInvariant == SignInSpec => []SignInInv
  <1>1. SignInInv /\ [SignInNext]_signInVars => SignInInv'
    <2> SUFFICES ASSUME SignInInv, [SignInNext]_signInVars PROVE SignInInv' BY Zenon
    <2>1. CASE UNCHANGED signInVars BY <2>1, Zenon DEF signInVars, SignInInv, SignInTypeOK, OffIsStillOff, DisabledIsOut
    <2> QED BY <2>1, LoginPreserves, LockPreserves, RequestPreserves, AccountPreserves, Zenon DEF SignInNext
  <1> QED BY <1>1, SignInInitially, PTL DEF SignInSpec

\* handleSetUserStatus and RequireSession: no request that comes while an account is off
\* gets past RequireSession before it is on again, whatever sessions a login under way
\* creates.  Routes that are not behind RequireSession are not meant.
THEOREM DisabledAccountIsOut == SignInSpec => []DisabledIsOut
  <1>1. SignInInv => DisabledIsOut BY Zenon DEF SignInInv
  <1> QED BY <1>1, SignInInvariant, PTL

\* BeginSetup and ConfirmSetup: no step of any login replaces a confirmed second factor
\* or takes back its confirmation.
THEOREM ConfirmedFactorStays == SignInSpec => ConfirmedStays
  <1>1. SignInInv /\ [SignInNext]_signInVars => [mfa.confirmed => mfa' = mfa]_mfa
    <2> SUFFICES ASSUME SignInInv, SignInNext, mfa.confirmed PROVE mfa' = mfa BY Zenon DEF signInVars
    <2>1. mfa \in [secret : 0..MaxSecret, confirmed : BOOLEAN] BY Zenon DEF SignInInv, SignInTypeOK
    <2>2. mfa' \in {mfa, [mfa EXCEPT !.confirmed = TRUE]}
      BY Zenon DEF SignInNext, HandleLogin, ConfirmMFASetup, LockTick, SetStatus, RevokeDisabled, RevokeUserSessions,
             SetMFARequired, AdmitRequest, HandleReauth, RequestDone, VerifyPassword, ChooseFactor, BeginSetup, CreateSession,
             WrongPassword, CheckFirstCode, StoreConfirmed, CompleteMFA, AbandonLogin, SessionCloses, ValidateSession
    <2> QED BY <2>1, <2>2, Zenon
  <1> QED BY <1>1, SignInInvariant, PTL DEF SignInSpec, ConfirmedStays
----------------------------------------------------------------------------
(* Self-update *)

File == {"current", "old", "new"}
Files == [File -> Version \cup {NoVersion}]
Processes == [v : Version \cup {NoVersion}, at : Steps]

\* Where the binary is while a swap or a rollback is under way.
SwapHasFiles ==
    /\ process.at \in {"staged", "cleared", "moved"} => exe["new"] # NoVersion
    /\ process.at \in {"moved", "restoring"} => exe["old"] # NoVersion

UpdateInv == UpdateTypeOK /\ SwapHasFiles

\* What a step leaves the path in: a binary, the next rename, or one of the losses.
KeepsPath ==
    PathServed => \/ PathServed' \/ AgentDies \/ faults' = faults + 2
                  \/ process.at = "restoring" /\ faults' = faults + 1

\* The files and the process.
LEMMA UpdateTypes ==
    ASSUME UpdateTypeOK
    PROVE  /\ exe \in Files /\ process \in Processes /\ process.v \in Version \cup {NoVersion}
           /\ NoMarker \in 0..NoMarker /\ 0 \in 0..NoMarker /\ marker \in 0..NoMarker
           /\ MaxBootAttempts # NoMarker
  BY UpdateAssumption DEF UpdateTypeOK, NoMarker, File, Files, Processes

\* A failed operation is counted within its bound.
LEMMA FaultCounted ==
    ASSUME UpdateTypeOK, faults' = faults \/ Fault(1) \/ Fault(2)
    PROVE  faults' \in 0..MaxFaults
  BY UpdateAssumption DEF UpdateTypeOK, Fault

\* The installed version runs.
LEMMA UpdateInitially == UpdateInit => UpdateInv
  <1> SUFFICES ASSUME UpdateInit PROVE UpdateInv BY Zenon
  <1>1. UpdateTypeOK
    <2>1. Installed \in Version BY UpdateAssumption, Zenon
    <2>2. exe \in [{"current", "old", "new"} -> Version \cup {NoVersion}] BY <2>1, Zenon DEF UpdateInit
    <2>3. process \in [v : Version \cup {NoVersion}, at : Steps] BY <2>1, Zenon DEF UpdateInit, Steps
    <2>4. /\ marker \in 0..NoMarker /\ updates \in 0..MaxUpdates /\ crashes \in 0..MaxCrashes
          /\ faults \in 0..MaxFaults
      BY UpdateAssumption DEF UpdateInit, NoMarker
    <2> QED BY <2>2, <2>3, <2>4, Zenon DEF UpdateInit, UpdateTypeOK
  <1>2. SwapHasFiles BY Zenon DEF UpdateInit, SwapHasFiles
  <1> QED BY <1>1, <1>2, Zenon DEF UpdateInv

\* A start and what follows it up to the first connection, but for the rollback: the
\* current file stays.
LEMMA BootPreserves ==
    ASSUME UpdateInv, StartAgent \/ RestoreExit \/ BootFails \/ FirstConnect \/ CommitUpdate
    PROVE  UpdateInv' /\ KeepsPath
  <1>t. UpdateTypeOK BY Zenon DEF UpdateInv
  <1> USE DEF StartAgent, CountAttempt, RestoreExit, BootFails, FirstConnect, CommitUpdate, Goto, Off, TryRemove,
              Remove, DeleteMarker
  <1>1. UNCHANGED <<exitDue, updates, crashes>> BY Zenon
  <1>2. exe' \in Files /\ exe'["current"] = exe["current"]
    <2>1. exe' \in {exe, [exe EXCEPT !["old"] = NoVersion]} BY Zenon
    <2> QED BY <1>t, <2>1, UpdateTypes, Zenon DEF File, Files
  <1>3. process' \in Processes /\ process'.at \in {"restore", "up", "off", "online", "forgetting"}
    <2>1. CASE StartAgent
      <3>1. PICK a \in {"restore", "up"} : process' = [v |-> exe["current"], at |-> a] BY <2>1, Zenon
      <3>2. exe["current"] \in Version \cup {NoVersion} BY <1>t, UpdateTypes, Zenon DEF File, Files
      <3>3. a \in Steps BY Zenon DEF Steps
      <3> QED BY <3>1, <3>2, <3>3, Zenon DEF Processes
    <2>2. CASE RestoreExit \/ BootFails
      <3>1. process' = [v |-> NoVersion, at |-> "off"] BY <2>2, Zenon
      <3> QED BY <3>1, Zenon DEF Steps, Processes
    <2>3. CASE FirstConnect \/ CommitUpdate
      <3>1. \E a \in {"online", "forgetting"} : process' = [process EXCEPT !.at = a] BY <2>3, Zenon
      <3> QED BY <1>t, <3>1, UpdateTypes, Zenon DEF Steps, Processes
    <2> QED BY <2>1, <2>2, <2>3, Zenon
  <1>4. marker' \in 0..NoMarker
    <2>1. marker' \in {marker, NoMarker} \/ (marker < MaxBootAttempts /\ marker' = marker + 1) BY Zenon
    <2> QED BY <1>t, <2>1, UpdateTypes, UpdateAssumption DEF NoMarker
  <1>5. faults' \in 0..MaxFaults
    <2>1. faults' = faults \/ Fault(1) BY Zenon
    <2> QED BY <1>t, <2>1, FaultCounted, Zenon
  <1>6. UpdateTypeOK' BY <1>t, <1>1, <1>2, <1>3, <1>4, <1>5, Zenon DEF UpdateTypeOK, File, Files, Processes
  <1>7. process.at \notin {"moved", "restoring"} BY Zenon
  <1> QED BY <1>2, <1>3, <1>6, <1>7, Zenon DEF UpdateInv, SwapHasFiles, KeepsPath, PathServed

\* RestoreBackup: the current file is removed and the backup takes its name, unless the
\* rename fails.
LEMMA RestorePreserves ==
    ASSUME UpdateInv, Restore \/ RestoreRename
    PROVE  UpdateInv' /\ KeepsPath
  <1>t. UpdateTypeOK BY Zenon DEF UpdateInv
  <1>1. UNCHANGED <<marker, exitDue, updates, crashes>> BY Zenon DEF Restore, RestoreRename
  <1>2. faults' \in 0..MaxFaults
    <2>1. faults' = faults \/ Fault(1) BY Zenon DEF Restore, RestoreRename, TryRemove
    <2> QED BY <1>t, <2>1, FaultCounted, Zenon
  <1>3. \E a \in {"up", "restoring", "restored"} :
          /\ process' = [process EXCEPT !.at = a]
          /\ exe' \in Files
          /\ a = "restoring" => exe'["old"] # NoVersion
          /\ PathServed /\ a # "restoring" => exe'["current"] # NoVersion \/ (process.at = "restoring" /\ Fault(1))
    <2>1. CASE Restore
      <3>1. CASE exe["old"] = NoVersion
        <4>1. process' = [process EXCEPT !.at = "up"] /\ exe' = exe /\ process.at = "restore"
          BY <2>1, <3>1, Zenon DEF Restore, Goto
        <4> QED BY <1>t, <4>1, UpdateTypes, Zenon DEF PathServed
      <3>2. CASE exe["old"] # NoVersion
        <4>1. /\ process' = [process EXCEPT !.at = "restoring"]
              /\ exe' \in {exe, [exe EXCEPT !["current"] = NoVersion]}
          BY <2>1, <3>2, Zenon DEF Restore, Goto, TryRemove, Remove
        <4>2. exe' \in Files /\ exe'["old"] = exe["old"] BY <1>t, <4>1, UpdateTypes, Zenon DEF File, Files
        <4> QED BY <3>2, <4>1, <4>2, Zenon
      <3> QED BY <3>1, <3>2, Zenon
    <2>2. CASE RestoreRename
      <3>1. process.at = "restoring" /\ exe["old"] # NoVersion
        BY <2>2, Zenon DEF RestoreRename, UpdateInv, SwapHasFiles
      <3>2. CASE Move("old", "current") /\ Goto("restored")
        <4>1. exe' = [exe EXCEPT !["current"] = exe["old"], !["old"] = NoVersion] BY <3>2, Zenon DEF Move
        <4>2. exe' \in Files /\ exe'["current"] = exe["old"] BY <1>t, <4>1, UpdateTypes, Zenon DEF File, Files
        <4> QED BY <3>1, <3>2, <4>2, Zenon DEF Goto
      <3>3. CASE Fault(1) /\ Goto("up") /\ UNCHANGED exe
        BY <1>t, <3>1, <3>3, UpdateTypes, Zenon DEF Goto
      <3> QED BY <2>2, <3>2, <3>3, Zenon DEF RestoreRename
    <2> QED BY <2>1, <2>2, Zenon
  <1>4. PICK a \in {"up", "restoring", "restored"} : <1>3!(a)
    BY <1>3, Zenon
  <1>5. process' \in Processes /\ process'.at = a BY <1>t, <1>4, UpdateTypes, Zenon DEF Steps, Processes
  <1>6. UpdateTypeOK' BY <1>t, <1>1, <1>2, <1>4, <1>5, Zenon DEF UpdateTypeOK, File, Files, Processes
  <1> QED BY <1>4, <1>5, <1>6, Zenon DEF UpdateInv, SwapHasFiles, KeepsPath, PathServed, Fault

\* StageAndSwap: the new file is written before the current one is moved, and that one
\* is moved back when the new one cannot take its name.
LEMMA SwapPreserves ==
    ASSUME UpdateInv, (\E v \in Version : StageBinary(v)) \/ DropOldBackup \/ BackUpCurrent \/ MoveIntoPlace
    PROVE  UpdateInv' /\ KeepsPath
  <1>t. UpdateTypeOK BY Zenon DEF UpdateInv
  <1>1. UNCHANGED <<marker, exitDue, crashes>> BY Zenon DEF StageBinary, DropOldBackup, BackUpCurrent, MoveIntoPlace
  <1>2. updates' \in 0..MaxUpdates
    <2>1. updates' = updates \/ (updates < MaxUpdates /\ updates' = updates + 1)
      BY Zenon DEF StageBinary, DropOldBackup, BackUpCurrent, MoveIntoPlace
    <2> QED BY <1>t, <2>1, UpdateAssumption DEF UpdateTypeOK
  <1>3. faults' \in 0..MaxFaults
    <2>1. faults' = faults \/ Fault(1) \/ Fault(2)
      BY Zenon DEF StageBinary, DropOldBackup, BackUpCurrent, MoveIntoPlace, TryRemove
    <2> QED BY <1>t, <2>1, FaultCounted, Zenon
  <1>3a. \E a \in {"staged", "cleared", "moved", "swapped", "exiting", "online"} :
           /\ process' = [process EXCEPT !.at = a]
           /\ a \in {"staged", "cleared", "moved"} => exe'["new"] # NoVersion
           /\ a = "moved" => exe'["old"] # NoVersion
           /\ PathServed /\ a # "moved" => exe'["current"] # NoVersion \/ Fault(2)
           /\ exe' \in Files
    <2>1. ASSUME NEW v \in Version, StageBinary(v) PROVE <1>3a!:
      <3>1. /\ exe' = [exe EXCEPT !["new"] = v] /\ process' = [process EXCEPT !.at = "staged"]
            /\ process.at \in {"online", "exiting"}
        BY <2>1, Zenon DEF StageBinary, Goto
      <3>3. exe' \in Files BY <1>t, <3>1, UpdateTypes, Zenon DEF Files
      <3>4. exe'["new"] = v /\ exe'["current"] = exe["current"] BY <1>t, <3>1, UpdateTypes, Zenon DEF File, Files
      <3>5. v # NoVersion BY UpdateAssumption, Zenon
      <3> QED BY <3>1, <3>3, <3>4, <3>5, Zenon DEF PathServed
    <2>2. CASE DropOldBackup
      <3>1. /\ exe' \in {exe, [exe EXCEPT !["old"] = NoVersion]} /\ process' = [process EXCEPT !.at = "cleared"]
            /\ process.at = "staged"
        BY <2>2, Zenon DEF DropOldBackup, TryRemove, Remove, Goto
      <3>2. exe["new"] # NoVersion BY <3>1, Zenon DEF UpdateInv, SwapHasFiles
      <3>3. exe' \in Files /\ exe'["new"] = exe["new"] /\ exe'["current"] = exe["current"]
        BY <1>t, <3>1, UpdateTypes, Zenon DEF File, Files
      <3> QED BY <3>1, <3>2, <3>3, Zenon DEF PathServed
    <2>3. CASE BackUpCurrent
      <3>1. process.at = "cleared" /\ exe["new"] # NoVersion
        BY <2>3, Zenon DEF BackUpCurrent, UpdateInv, SwapHasFiles
      <3>2. CASE exe["current"] # NoVersion /\ Move("current", "old") /\ Goto("moved")
        <4>1. exe' = [exe EXCEPT !["old"] = exe["current"], !["current"] = NoVersion] BY <3>2, Zenon DEF Move
        <4>2. exe' \in Files /\ exe'["old"] = exe["current"] /\ exe'["new"] = exe["new"]
          BY <1>t, <4>1, UpdateTypes, Zenon DEF File, Files
        <4> QED BY <3>1, <3>2, <4>2, Zenon DEF Goto
      <3>3. CASE Remove("new") /\ GiveUp
        <4>1. /\ exe' = [exe EXCEPT !["new"] = NoVersion]
              /\ \E a \in {"exiting", "online"} : process' = [process EXCEPT !.at = a]
          BY <3>3, Zenon DEF Remove, Goto, GiveUp
        <4>2. exe' \in Files /\ exe'["current"] = exe["current"] BY <1>t, <4>1, UpdateTypes, Zenon DEF File, Files
        <4> QED BY <3>1, <4>1, <4>2, Zenon DEF PathServed
      <3> QED BY <2>3, <3>2, <3>3, Zenon DEF BackUpCurrent
    <2>4. CASE MoveIntoPlace
      <3>1. exe["old"] # NoVersion /\ exe["new"] # NoVersion BY <2>4, Zenon DEF MoveIntoPlace, UpdateInv, SwapHasFiles
      <3>2. CASE Move("new", "current") /\ Goto("swapped")
        <4>1. exe' = [exe EXCEPT !["current"] = exe["new"], !["new"] = NoVersion] BY <3>2, Zenon DEF Move
        <4>2. exe' \in Files /\ exe'["current"] = exe["new"] BY <1>t, <4>1, UpdateTypes, Zenon DEF File, Files
        <4> QED BY <3>1, <3>2, <4>2, Zenon DEF Goto
      <3>3. CASE Move("old", "current") /\ GiveUp
        <4>1. /\ exe' = [exe EXCEPT !["current"] = exe["old"], !["old"] = NoVersion]
              /\ \E a \in {"exiting", "online"} : process' = [process EXCEPT !.at = a]
          BY <3>3, Zenon DEF Move, Goto, GiveUp
        <4>2. exe' \in Files /\ exe'["current"] = exe["old"] BY <1>t, <4>1, UpdateTypes, Zenon DEF File, Files
        <4> QED BY <3>1, <4>1, <4>2, Zenon
      <3>4. CASE Fault(2) /\ GiveUp /\ UNCHANGED exe
        <4>1. \E a \in {"exiting", "online"} : process' = [process EXCEPT !.at = a] BY <3>4, Zenon DEF Goto, GiveUp
        <4> QED BY <1>t, <3>4, <4>1, UpdateTypes, Zenon
      <3> QED BY <2>4, <3>2, <3>3, <3>4, Zenon DEF MoveIntoPlace
    <2> QED BY <2>1, <2>2, <2>3, <2>4, Zenon
  <1>4. PICK a \in {"staged", "cleared", "moved", "swapped", "exiting", "online"} : <1>3a!(a)
    BY <1>3a, Zenon
  <1>5. process' \in Processes /\ process'.at = a
    BY <1>t, <1>4, UpdateTypes, Zenon DEF Steps, Processes
  <1>6. UpdateTypeOK' BY <1>t, <1>1, <1>2, <1>3, <1>4, <1>5, Zenon DEF UpdateTypeOK, File, Files, Processes
  <1> QED BY <1>4, <1>5, <1>6, Zenon DEF UpdateInv, SwapHasFiles, KeepsPath, PathServed, Fault

\* The end of an update, and the death of the process, which is counted.
LEMMA ExitPreserves ==
    ASSUME UpdateInv, SaveMarker \/ ExitForUpdate \/ AgentDies
    PROVE  UpdateInv' /\ KeepsPath
  <1>t. UpdateTypeOK BY Zenon DEF UpdateInv
  <1>1. UNCHANGED <<exe, updates>> /\ exitDue' \in BOOLEAN BY Zenon DEF SaveMarker, ExitForUpdate, AgentDies
  <1>2. marker' \in 0..NoMarker /\ faults' \in 0..MaxFaults
    <2>1. marker' \in {0, marker, NoMarker} /\ (faults' = faults \/ Fault(1))
      BY Zenon DEF SaveMarker, ExitForUpdate, AgentDies
    <2> QED BY <1>t, <2>1, UpdateTypes, FaultCounted, Zenon
  <1>3. crashes' \in 0..MaxCrashes
    <2>1. crashes' = crashes \/ (crashes < MaxCrashes /\ crashes' = crashes + 1)
      BY Zenon DEF SaveMarker, ExitForUpdate, AgentDies
    <2> QED BY <1>t, <2>1, UpdateAssumption DEF UpdateTypeOK
  <1>4. process' \in Processes /\ process'.at \in {"exiting", "off"}
    <2>1. CASE process' = [process EXCEPT !.at = "exiting"] BY <1>t, <2>1, UpdateTypes, Zenon DEF Steps, Processes
    <2>2. CASE process' = [v |-> NoVersion, at |-> "off"] BY <2>2, Zenon DEF Steps, Processes
    <2> QED BY <2>1, <2>2, Zenon DEF SaveMarker, ExitForUpdate, AgentDies, Goto, Off
  <1>5. UpdateTypeOK' BY <1>t, <1>1, <1>2, <1>3, <1>4, Zenon DEF UpdateTypeOK, Processes
  <1>6. SwapHasFiles' BY <1>4, Zenon DEF SwapHasFiles
  <1>7. KeepsPath BY <1>1, Zenon DEF KeepsPath, PathServed, SaveMarker, ExitForUpdate
  <1> QED BY <1>5, <1>6, <1>7, Zenon DEF UpdateInv

\* Every step of the self-update.
LEMMA UpdateStep ==
    ASSUME UpdateInv, UpdateNext
    PROVE  UpdateInv' /\ KeepsPath
  BY BootPreserves, RestorePreserves, SwapPreserves, ExitPreserves, Zenon DEF UpdateNext

\* Every reachable state of the self-update satisfies the inductive invariant.
LEMMA UpdateInvariant == UpdateSpec => []UpdateInv
  <1>1. UpdateInv /\ [UpdateNext]_updateVars => UpdateInv'
    <2> SUFFICES ASSUME UpdateInv, [UpdateNext]_updateVars PROVE UpdateInv' BY Zenon
    <2>1. CASE UNCHANGED updateVars BY <2>1, Zenon DEF updateVars, UpdateInv, UpdateTypeOK, SwapHasFiles
    <2> QED BY <2>1, UpdateStep, Zenon
  <1> QED BY <1>1, UpdateInitially, PTL DEF UpdateSpec

\* StageAndSwap and RestoreBackup: it takes a death, two failed renames of one swap or a
\* failed rename of a rollback to leave the path empty, whatever was updated, died or
\* failed before.
THEOREM BinaryIsInstalled == UpdateSpec => InstallHasBinary
  <1>1. UpdateInv /\ [UpdateNext]_updateVars => [KeepsPath]_updateVars
    BY UpdateStep, Zenon
  <1> QED BY <1>1, UpdateInvariant, PTL DEF UpdateSpec, InstallHasBinary, KeepsPath

----------------------------------------------------------------------------
(* The support account and the releases: their types *)

\* A report sent and a report read.
LEMMA ReportQueue ==
    ASSUME NEW q \in Seq(BOOLEAN)
    PROVE  /\ \A b \in BOOLEAN : Append(q, b) \in Seq(BOOLEAN)
           /\ q # <<>> => Tail(q) \in Seq(BOOLEAN)
  OBVIOUS

TaskRow == [job : {"none", "provision", "command"}, at : {"idle", "asked", "set", "reported"},
            here : BOOLEAN, fresh : BOOLEAN]

\* Every step leaves the goroutines in a step of their job, and the queues in bounds.
LEMMA SupportTypes == SupportSpec => []SupportTypeOK
  <1> USE SupportAssumption
  <1>1. SupportInit => SupportTypeOK
    <2> SUFFICES ASSUME SupportInit PROVE SupportTypeOK BY Zenon
    <2>1. NoTask \in TaskRow BY Zenon DEF NoTask, TaskRow
    <2>2. task \in [Task -> TaskRow] BY <2>1, Zenon DEF SupportInit
    <2>3. commands \in 0..MaxQueued /\ drops \in 0..MaxDrops /\ turns \in 0..MaxTurns BY DEF SupportInit
    <2>4. reports \in Seq(BOOLEAN) BY DEF SupportInit
    <2> QED BY <2>2, <2>3, <2>4, Zenon DEF SupportInit, SupportTypeOK, TaskRow
  <1>2. ASSUME SupportTypeOK, SupportNext PROVE SupportTypeOK'
    <2> USE DEF SessionStarts, TakeRotate, SupportLinkDrops, EnsureSupportAccount, EnsureFails, ReportCredential,
                WriteMarker, Upsert, UpsertFails, RotateDue, RotateNow, SetRotationDays
    <2>t. /\ task \in [Task -> TaskRow] /\ reports \in Seq(BOOLEAN) /\ commands \in 0..MaxQueued
          /\ drops \in 0..MaxDrops /\ turns \in 0..MaxTurns
          /\ provisioned \in BOOLEAN /\ rotating \in BOOLEAN /\ attached \in BOOLEAN
          /\ credential \in {"none", "stale", "current"}
      BY <1>2, Zenon DEF SupportTypeOK, TaskRow
    <2>1. commands' \in 0..MaxQueued
      <3>1. \/ commands' = commands
            \/ commands > 0 /\ commands' = commands - 1
            \/ commands < MaxQueued /\ commands' = commands + 1
            \/ commands = 0 /\ commands' = commands + 1
            \/ commands' = 0
        BY <1>2, Zenon DEF SupportNext
      <3> QED BY <2>t, <3>1
    <2>2. drops' \in 0..MaxDrops /\ turns' \in 0..MaxTurns
      <3>1. drops' = drops \/ (drops < MaxDrops /\ drops' = drops + 1) BY <1>2, Zenon DEF SupportNext
      <3>2. turns' = turns \/ (turns < MaxTurns /\ turns' = turns + 1) BY <1>2, Zenon DEF SupportNext
      <3> QED BY <2>t, <3>1, <3>2
    <2>3. credential' \in {"none", "stale", "current"}
      <3>1. credential' \in {credential, "current", "stale"} BY <1>2, Zenon DEF SupportNext
      <3> QED BY <2>t, <3>1, Zenon
    <2>4. provisioned' \in BOOLEAN /\ rotating' \in BOOLEAN /\ attached' \in BOOLEAN
      <3>1. provisioned' \in {TRUE, provisioned} BY <1>2, Zenon DEF SupportNext
      <3>2. rotating' = rotating \/ rotating' = ~rotating BY <1>2, Zenon DEF SupportNext
      <3>3. attached' \in {TRUE, FALSE, attached} BY <1>2, Zenon DEF SupportNext
      <3> QED BY <2>t, <3>1, <3>2, <3>3, Zenon
    <2>5. reports' \in Seq(BOOLEAN)
      <3>1. \/ reports' = reports
            \/ reports' = <<>>
            \/ reports' = [i \in DOMAIN reports |-> FALSE]
            \/ \E t \in Task : reports' = Append(reports, task[t].fresh)
            \/ reports # <<>> /\ reports' = Tail(reports)
        BY <1>2, Zenon DEF SupportNext
      <3>2. <<>> \in Seq(BOOLEAN) OBVIOUS
      <3>3. [i \in DOMAIN reports |-> FALSE] \in Seq(BOOLEAN)
        <4>1. PICK n \in Nat : n = Len(reports) BY <2>t
        <4>2. [i \in 1..n |-> FALSE] \in Seq(BOOLEAN) OBVIOUS
        <4> QED BY <2>t, <4>1, <4>2
      <3>4. \A t \in Task : task[t].fresh \in BOOLEAN BY <2>t, Zenon DEF TaskRow
      <3>5. \A b \in BOOLEAN : Append(reports, b) \in Seq(BOOLEAN) BY <2>t, ReportQueue, Zenon
      <3>6. reports # <<>> => Tail(reports) \in Seq(BOOLEAN) BY <2>t, ReportQueue, Zenon
      <3> QED BY <2>t, <3>1, <3>2, <3>3, <3>4, <3>5, <3>6, Zenon
    <2>6. task' \in [Task -> TaskRow]
      <3>1. NoTask \in TaskRow BY Zenon DEF NoTask, TaskRow
      <3>2. ASSUME NEW t \in Task, NEW j \in {"provision", "command"}, Begin(t, j) PROVE task' \in [Task -> TaskRow]
        BY <2>t, <3>2, Zenon DEF Begin, TaskRow
      <3>3. CASE UNCHANGED task BY <2>t, <3>3, Zenon
      <3>4. CASE SupportLinkDrops BY <2>t, <3>4, Zenon DEF TaskRow
      <3>5. ASSUME NEW t \in Task, EnsureSupportAccount(t) PROVE task' \in [Task -> TaskRow]
        <4>1. [task[t] EXCEPT !.at = "set", !.fresh = TRUE] \in TaskRow BY <2>t, Zenon DEF TaskRow
        <4>2. \A u \in Task : [task[u] EXCEPT !.fresh = FALSE] \in TaskRow BY <2>t, Zenon DEF TaskRow
        <4> QED BY <3>5, <4>1, <4>2, Zenon
      <3>6. ASSUME NEW t \in Task, EnsureFails(t) \/ ReportCredential(t) \/ WriteMarker(t)
            PROVE  task' \in [Task -> TaskRow]
        <4>1. [task[t] EXCEPT !.at = "reported"] \in TaskRow BY <2>t, Zenon DEF TaskRow
        <4>2. \E r \in {NoTask, [task[t] EXCEPT !.at = "reported"]} : task' = [task EXCEPT ![t] = r]
          BY <2>t, <3>6, Zenon
        <4> QED BY <2>t, <3>1, <4>1, <4>2, Zenon
      <3> QED BY <1>2, <3>2, <3>3, <3>4, <3>5, <3>6, ZenonT(30) DEF SupportNext
    <2> QED BY <2>1, <2>2, <2>3, <2>4, <2>5, <2>6, Zenon DEF SupportTypeOK, TaskRow
  <1>3. SupportTypeOK /\ UNCHANGED supportVars => SupportTypeOK' BY Zenon DEF SupportTypeOK, supportVars
  <1> QED BY <1>1, <1>2, <1>3, PTL DEF SupportSpec

SyncRow == [at : {"idle", "fetched", "importing"}, todo : SUBSET Asset, seen : SUBSET Release]

\* Every step leaves rows of releases in the table and assets of releases to do.
LEMMA ReleaseTypes == ReleaseSpec => []ReleaseTypeOK
  <1>1. ReleaseInit => ReleaseTypeOK
    <2> SUFFICES ASSUME ReleaseInit PROVE ReleaseTypeOK BY Zenon
    <2>1. github \in [Release -> {"absent", "partial", "complete"}] BY Zenon DEF ReleaseInit
    <2>2. NoSync \in SyncRow BY Zenon DEF NoSync, SyncRow
    <2> QED BY <2>1, <2>2, Zenon DEF ReleaseInit, ReleaseTypeOK, SyncRow
  <1>2. ASSUME ReleaseTypeOK, ReleaseNext PROVE ReleaseTypeOK'
    <2>t. /\ syncer \in [Syncer -> SyncRow] /\ manifest \subseteq Row /\ prerelease \in [Release -> Channel]
          /\ github \in [Release -> {"absent", "partial", "complete"}]
      BY <1>2, Zenon DEF ReleaseTypeOK, SyncRow
    <2>1. CASE \E v \in Release : GitHubUploads(v) BY <2>t, <2>1, Zenon DEF GitHubUploads, ReleaseTypeOK, SyncRow
    <2>2. CASE \E v \in Release, c \in Channel : CreateRelease(v, c)
      <3>1. manifest' \subseteq Row BY <2>t, <2>2 DEF CreateRelease, Insert, Row
      <3> QED BY <2>t, <2>2, <3>1, Zenon DEF CreateRelease, ReleaseTypeOK, SyncRow
    <2>3. ASSUME NEW s \in Syncer, SyncOnce(s) PROVE ReleaseTypeOK'
      <3>1. UNCHANGED <<github, prerelease>>
        BY <2>3, Zenon DEF SyncOnce, FetchReleases, ListExisting, EndSync, ImportAsset, ImportFails
      <3>2. manifest' \subseteq Row
        <4>1. manifest' = manifest \/ \E a \in Asset : manifest' = Insert(a.version, prerelease[a.version])
          BY <2>3, ZenonT(30) DEF SyncOnce, FetchReleases, ListExisting, EndSync, ImportAsset, ImportFails
        <4>2. \A a \in Asset : a.version \in Release /\ prerelease[a.version] \in Channel BY <2>t, Zenon DEF Asset
        <4> QED BY <2>t, <4>1, <4>2 DEF Insert, Row
      <3>3. \E r \in SyncRow : syncer' = [syncer EXCEPT ![s] = r]
        <4>1. CASE FetchReleases(s)
          <5> DEFINE T == {[version |-> v, complete |-> github[v] = "complete"] : v \in Listed}
          <5>1. T \in SUBSET Asset
            <6> SUFFICES ASSUME NEW v \in Release
                         PROVE  [version |-> v, complete |-> github[v] = "complete"] \in Asset
              BY Zenon DEF Listed
            <6>1. (github[v] = "complete") \in BOOLEAN BY Zenon
            <6> QED BY <6>1, Zenon DEF Asset
          <5>2. [syncer[s] EXCEPT !.at = "fetched", !.todo = T] \in SyncRow BY <2>t, <5>1, Zenon DEF SyncRow
          <5>3. syncer' = [syncer EXCEPT ![s] = [syncer[s] EXCEPT !.at = "fetched", !.todo = T]]
            BY <2>t, <4>1, Zenon DEF FetchReleases, SyncRow
          <5> QED BY <5>2, <5>3, Zenon
        <4>2. CASE ListExisting(s)
          <5>1. Versions \in SUBSET Release BY <2>t, Zenon DEF Versions, Row
          <5>2. [syncer[s] EXCEPT !.at = "importing", !.seen = Versions] \in SyncRow
            BY <2>t, <5>1, Zenon DEF SyncRow
          <5> QED BY <2>t, <4>2, <5>2, Zenon DEF ListExisting, SyncRow
        <4>3. CASE EndSync(s) BY <4>3, Zenon DEF EndSync, NoSync, SyncRow
        <4>4. ASSUME NEW a \in Asset, ImportAsset(s, a) \/ ImportFails(s, a) PROVE <3>3!:
          <5>1. PICK V \in {syncer[s].seen, syncer[s].seen \cup {a.version}} :
                   syncer' = [syncer EXCEPT ![s] = [syncer[s] EXCEPT !.todo = syncer[s].todo \ {a}, !.seen = V]]
            BY <2>t, <4>4, Zenon DEF ImportAsset, ImportFails, SyncRow
          <5>2. syncer[s].todo \ {a} \in SUBSET Asset /\ V \in SUBSET Release BY <2>t, Zenon DEF SyncRow, Asset
          <5>3. [syncer[s] EXCEPT !.todo = syncer[s].todo \ {a}, !.seen = V] \in SyncRow
            BY <2>t, <5>2, ZenonT(30) DEF SyncRow
          <5> QED BY <5>1, <5>3, Zenon
        <4> QED BY <2>3, <4>1, <4>2, <4>3, <4>4, Zenon DEF SyncOnce
      <3>4. syncer' \in [Syncer -> SyncRow] BY <2>t, <3>3, Zenon
      <3> QED BY <2>t, <3>1, <3>2, <3>4, Zenon DEF ReleaseTypeOK, SyncRow
    <2> QED BY <1>2, <2>1, <2>2, <2>3, Zenon DEF ReleaseNext
  <1>3. ReleaseTypeOK /\ UNCHANGED releaseVars => ReleaseTypeOK' BY Zenon DEF ReleaseTypeOK, releaseVars
  <1> QED BY <1>1, <1>2, <1>3, PTL DEF ReleaseSpec

\* A sync skips only versions that have a row, and takes for complete what is complete,
\* however old the listing and the rows are that it works on.
SyncInv ==
    \A s \in Syncer :
        /\ syncer[s].seen \subseteq Versions
        /\ \A a \in syncer[s].todo : a.complete => github[a.version] = "complete"

\* A version that a sync takes for known has a row, also if another sync or an
\* administrator made it meanwhile.
SkippedHasRow == \A s \in Syncer : syncer[s].seen \subseteq Versions

\* No step removes a row; a sync adds rows only for releases whose assets are complete,
\* on the channel GitHub gives them.
RowsAreReleases ==
    [][/\ manifest \subseteq manifest'
       /\ (\E s \in Syncer : SyncOnce(s)) =>
             \A r \in manifest' \ manifest : github[r.version] = "complete" /\ r.channel = prerelease[r.version]]_manifest

\* One step of a sync: what it has seen and still has to do, and what it adds.
LEMMA SyncStep ==
    ASSUME ReleaseTypeOK, SyncInv, NEW s \in Syncer, SyncOnce(s)
    PROVE  /\ SyncInv' /\ manifest \subseteq manifest'
           /\ \A r \in manifest' \ manifest : github[r.version] = "complete" /\ r.channel = prerelease[r.version]
  <1>t. syncer \in [Syncer -> SyncRow] BY Zenon DEF ReleaseTypeOK, SyncRow
  <1>i. /\ syncer[s].seen \subseteq Versions
        /\ \A a \in syncer[s].todo : a.complete => github[a.version] = "complete"
    BY Zenon DEF SyncInv
  <1>1. UNCHANGED <<github, prerelease>>
    BY Zenon DEF SyncOnce, FetchReleases, ListExisting, EndSync, ImportAsset, ImportFails
  <1>2. /\ manifest \subseteq manifest' /\ syncer'[s].seen \subseteq Versions'
        /\ \A a \in syncer'[s].todo : a.complete => github[a.version] = "complete"
        /\ \A r \in manifest' \ manifest : github[r.version] = "complete" /\ r.channel = prerelease[r.version]
    <2>1. CASE FetchReleases(s)
      <3>1. /\ syncer'[s].seen = syncer[s].seen /\ manifest' = manifest
            /\ syncer'[s].todo = {[version |-> v, complete |-> github[v] = "complete"] : v \in Listed}
        BY <1>t, <2>1, ZenonT(30) DEF FetchReleases, SyncRow
      <3>2. ASSUME NEW a \in syncer'[s].todo, a.complete PROVE github[a.version] = "complete"
        <4>1. PICK v \in Release : a = [version |-> v, complete |-> github[v] = "complete"] BY <3>1, <3>2, Zenon DEF Listed
        <4>2. a.version = v /\ a.complete = (github[v] = "complete") BY <4>1, Zenon
        <4> QED BY <3>2, <4>2, Zenon
      <3> QED BY <1>i, <3>1, <3>2, Zenon DEF Versions
    <2>2. CASE ListExisting(s)
      <3>1. syncer'[s].seen = Versions /\ manifest' = manifest /\ syncer'[s].todo = syncer[s].todo
        BY <1>t, <2>2, ZenonT(30) DEF ListExisting, SyncRow
      <3> QED BY <1>i, <3>1, Zenon DEF Versions
    <2>3. CASE EndSync(s)
      <3>1. syncer'[s] = NoSync /\ manifest' = manifest BY <1>t, <2>3, Zenon DEF EndSync
      <3>2. syncer'[s].seen = {} /\ syncer'[s].todo = {} BY <3>1 DEF NoSync
      <3> QED BY <3>1, <3>2, Zenon
    <2>4. ASSUME NEW a \in Asset, ImportAsset(s, a) PROVE <1>2!:
      <3>1. /\ a \in syncer[s].todo
            /\ manifest' = IF a.complete /\ a.version \notin syncer[s].seen
                           THEN Insert(a.version, prerelease[a.version]) ELSE manifest
        BY <2>4, Zenon DEF ImportAsset, NextAsset
      <3>2. /\ syncer'[s].todo = syncer[s].todo \ {a}
            /\ syncer'[s].seen = IF a.complete THEN syncer[s].seen \cup {a.version} ELSE syncer[s].seen
        BY <1>t, <2>4, ZenonT(30) DEF ImportAsset, SyncRow
      <3>3. manifest \subseteq manifest' BY <3>1, Zenon DEF Insert
      <3>4. ASSUME NEW r \in manifest' \ manifest PROVE github[r.version] = "complete" /\ r.channel = prerelease[r.version]
        <4>1. a.complete /\ r = [version |-> a.version, channel |-> prerelease[a.version]] BY <3>1, <3>4, Zenon DEF Insert
        <4> QED BY <1>i, <3>1, <4>1, Zenon
      <3>5. Versions \subseteq Versions' BY <3>3, Zenon DEF Versions
      <3>6. a.complete => a.version \in Versions'
        <4>1. CASE a.complete /\ a.version \notin syncer[s].seen
          <5>1. [version |-> a.version, channel |-> prerelease[a.version]] \in manifest' BY <3>1, <4>1, Zenon DEF Insert
          <5> QED BY <5>1 DEF Versions
        <4>2. CASE a.version \in syncer[s].seen BY <1>i, <3>5, <4>2, Zenon
        <4> QED BY <4>1, <4>2, Zenon
      <3> QED BY <1>i, <3>2, <3>3, <3>4, <3>5, <3>6, Zenon
    <2>5. ASSUME NEW a \in Asset, ImportFails(s, a) PROVE <1>2!:
      <3>1. manifest' = manifest /\ syncer'[s].seen = syncer[s].seen /\ syncer'[s].todo = syncer[s].todo \ {a}
        BY <1>t, <2>5, ZenonT(30) DEF ImportFails, SyncRow
      <3> QED BY <1>i, <3>1, Zenon DEF Versions
    <2> QED BY <2>1, <2>2, <2>3, <2>4, <2>5, Zenon DEF SyncOnce
  <1>3. ASSUME NEW u \in Syncer \ {s} PROVE syncer'[u] = syncer[u]
    BY <1>t, ZenonT(30) DEF SyncOnce, FetchReleases, ListExisting, EndSync, ImportAsset, ImportFails
  <1>4. Versions \subseteq Versions' BY <1>2, Zenon DEF Versions
  <1>5. SyncInv' BY <1>1, <1>2, <1>3, <1>4, Zenon DEF SyncInv
  <1> QED BY <1>2, <1>5, Zenon

\* SyncOnce, List and Create: with two syncs and an administrator at work at once, a sync
\* skips no release that is without a row, imports none that is incomplete, and no row
\* is lost.
THEOREM SyncsAreSound == ReleaseSpec => []SkippedHasRow /\ RowsAreReleases
  <1>1. ReleaseInit => SyncInv BY DEF ReleaseInit, SyncInv, NoSync
  <1>2. ReleaseTypeOK /\ SyncInv /\ [ReleaseNext]_releaseVars
        => /\ SyncInv'
           /\ [/\ manifest \subseteq manifest'
               /\ (\E s \in Syncer : SyncOnce(s)) =>
                     \A r \in manifest' \ manifest : github[r.version] = "complete" /\ r.channel = prerelease[r.version]]_manifest
    <2> SUFFICES ASSUME ReleaseTypeOK, SyncInv, [ReleaseNext]_releaseVars
                 PROVE  /\ SyncInv' /\ manifest \subseteq manifest'
                        /\ (\E s \in Syncer : SyncOnce(s)) =>
                              \A r \in manifest' \ manifest : github[r.version] = "complete" /\ r.channel = prerelease[r.version]
      BY Zenon
    <2>1. ASSUME NEW s \in Syncer, SyncOnce(s) PROVE SyncInv' /\ manifest \subseteq manifest' BY <2>1, SyncStep, Zenon
    <2>2. ASSUME NEW v \in Release, NEW c \in Channel, CreateRelease(v, c) PROVE SyncInv' /\ manifest \subseteq manifest'
      <3>1. manifest \subseteq manifest' /\ UNCHANGED <<github, syncer>> BY <2>2, Zenon DEF CreateRelease, Insert
      <3>2. Versions \subseteq Versions' BY <3>1, Zenon DEF Versions
      <3> QED BY <3>1, <3>2, Zenon DEF SyncInv
    <2>3. ASSUME NEW v \in Release, GitHubUploads(v) PROVE SyncInv' /\ manifest \subseteq manifest'
      <3>1. UNCHANGED <<manifest, syncer>> /\ github[v] # "complete" BY <2>3, Zenon DEF GitHubUploads
      <3>2. \A w \in Release \ {v} : github'[w] = github[w] BY <2>3, Zenon DEF GitHubUploads, ReleaseTypeOK
      <3>3. ASSUME NEW s \in Syncer, NEW a \in syncer[s].todo PROVE a.version \in Release
        <4>1. syncer[s] \in SyncRow BY Zenon DEF ReleaseTypeOK, SyncRow
        <4>2. a \in Asset BY <4>1, Zenon DEF SyncRow
        <4> QED BY <4>2, Zenon DEF Asset
      <3> QED BY <3>1, <3>2, <3>3, Zenon DEF SyncInv, Versions
    <2>4. ASSUME UNCHANGED releaseVars PROVE SyncInv' /\ manifest \subseteq manifest'
      BY <2>4, Zenon DEF releaseVars, SyncInv, Versions
    <2>5. SyncInv' /\ manifest \subseteq manifest' BY <2>1, <2>2, <2>3, <2>4, Zenon DEF ReleaseNext
    <2> QED BY <2>5, SyncStep, Zenon
  <1>3. SyncInv => SkippedHasRow BY Zenon DEF SyncInv, SkippedHasRow
  <1> QED BY <1>1, <1>2, <1>3, ReleaseTypes, PTL DEF ReleaseSpec, RowsAreReleases
=============================================================================
