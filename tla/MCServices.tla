----------------------------- MODULE MCServices -----------------------------
(***************************************************************************)
(* The services that share no state with one another, each on a small      *)
(* instance.  The initial state chooses one of them and only that one      *)
(* moves: the behaviours are those of the modules side by side.            *)
(***************************************************************************)
EXTENDS AgentUpdate, NetworkTraffic, SupportAccount, Enrollment, AuditChain,
        Alerting, Privilege, Releases, SignIn

VARIABLE service

servicesVars == <<service, updateVars, trafficVars, supportVars, enrollVars, auditVars,
                  alertVars, privilegeVars, releaseVars, signInVars>>

\* Every variable of every service has its type.
ServicesTypeOK ==
    /\ UpdateTypeOK /\ TrafficTypeOK /\ SupportTypeOK /\ EnrollmentTypeOK /\ AuditTypeOK
    /\ AlertTypeOK /\ PrivilegeTypeOK /\ ReleaseTypeOK /\ SignInTypeOK

\* What a module's Init leaves open is open only if that module moves.
ServicesInit ==
    /\ service \in {"update", "traffic", "support", "enrollment", "audit", "alerts", "privilege", "releases", "signin"}
    /\ UpdateInit /\ TrafficInit /\ SupportInit /\ EnrollmentInit /\ AuditInit
    /\ AlertInit /\ PrivilegeInit /\ ReleaseInit /\ SignInInit
    /\ service # "traffic" => \A k \in RawChoices : rawKept <= k
    /\ service # "support" => ~rotating
    /\ service # "alerts" => \A r \in Rule : scope[r] = {}

ServicesNext ==
    \/ /\ service = "update" /\ UpdateNext
       /\ UNCHANGED <<service, trafficVars, supportVars, enrollVars, auditVars, alertVars,
                      privilegeVars, releaseVars, signInVars>>
    \/ /\ service = "traffic" /\ TrafficNext
       /\ UNCHANGED <<service, updateVars, supportVars, enrollVars, auditVars, alertVars,
                      privilegeVars, releaseVars, signInVars>>
    \/ /\ service = "support" /\ SupportNext
       /\ UNCHANGED <<service, updateVars, trafficVars, enrollVars, auditVars, alertVars,
                      privilegeVars, releaseVars, signInVars>>
    \/ /\ service = "enrollment" /\ EnrollmentNext
       /\ UNCHANGED <<service, updateVars, trafficVars, supportVars, auditVars, alertVars,
                      privilegeVars, releaseVars, signInVars>>
    \/ /\ service = "audit" /\ AuditNext
       /\ UNCHANGED <<service, updateVars, trafficVars, supportVars, enrollVars, alertVars,
                      privilegeVars, releaseVars, signInVars>>
    \/ /\ service = "alerts" /\ AlertNext
       /\ UNCHANGED <<service, updateVars, trafficVars, supportVars, enrollVars, auditVars,
                      privilegeVars, releaseVars, signInVars>>
    \/ /\ service = "privilege" /\ PrivilegeNext
       /\ UNCHANGED <<service, updateVars, trafficVars, supportVars, enrollVars, auditVars,
                      alertVars, releaseVars, signInVars>>
    \/ /\ service = "releases" /\ ReleaseNext
       /\ UNCHANGED <<service, updateVars, trafficVars, supportVars, enrollVars, auditVars,
                      alertVars, privilegeVars, signInVars>>
    \/ /\ service = "signin" /\ SignInNext
       /\ UNCHANGED <<service, updateVars, trafficVars, supportVars, enrollVars, auditVars,
                      alertVars, privilegeVars, releaseVars>>

\* Processes, goroutines and sweepers run on, connections are restored and time
\* passes.
Running ==
    /\ WF_updateVars(service = "update" /\ AgentProgress)
    /\ WF_supportVars(service = "support" /\ SessionStarts)
    /\ WF_supportVars(service = "support" /\ TakeRotate)
    /\ WF_supportVars(service = "support" /\ Upsert)
    /\ WF_supportVars(service = "support" /\ RotateDue)
    /\ \A t \in Task : WF_supportVars(service = "support" /\ (ReportCredential(t) \/ WriteMarker(t)))
    /\ WF_alertVars(service = "alerts" /\ SweeperStep)
    /\ \A i \in GrantId : WF_privilegeVars(service = "privilege" /\ GrantExpires(i))
    /\ WF_privilegeVars(service = "privilege" /\ ListExpired)
    /\ WF_privilegeVars(service = "privilege" /\ \E i \in GrantId : RevokeExpired(i) \/ RevokeExpiredFails(i))
    /\ WF_releaseVars(service = "releases" /\ SyncOnce("sweeper"))

\* What is tried again and again succeeds at some time: useradd and chpasswd, the
\* evaluation of one rule, the UPDATE of one expired grant, the download of one
\* release.  Only one module moves, so the strong fairness of one action of each is
\* that of their disjunction.
Retried(i) ==
    \/ /\ service = "support" /\ EnsureSupportAccount(i)
       /\ UNCHANGED <<alertVars, privilegeVars, releaseVars>>
    \/ /\ service = "alerts" /\ \E p \in Pair : p[1] \in (IF i = 1 THEN OfflineRule ELSE ServiceRule) /\ EvaluateRule(p)
       /\ UNCHANGED <<supportVars, privilegeVars, releaseVars>>
    \/ /\ service = "privilege" /\ RevokeExpired(i)
       /\ UNCHANGED <<supportVars, alertVars, releaseVars>>
    \/ /\ service = "releases" /\ ImportAsset("sweeper", [version |-> i, complete |-> TRUE])
       /\ UNCHANGED <<supportVars, alertVars, privilegeVars>>

retriedVars == <<supportVars, alertVars, privilegeVars, releaseVars>>

ServicesSpec == ServicesInit /\ [][ServicesNext]_servicesVars
ServicesFairSpec == ServicesSpec /\ Running /\ SF_retriedVars(Retried(1)) /\ SF_retriedVars(Retried(2))

----------------------------------------------------------------------------
\* Enrollment tokens and reauthentications are used as SingleUse says, and the audit log
\* grows as AppendLog says: each behaves as if its statements were one.
ServicesImplement == TokenUsedOnce /\ ReauthUsedOnce /\ AuditAppendOnly
=============================================================================
