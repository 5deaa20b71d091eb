------------------------------ MODULE Alerting ------------------------------
(***************************************************************************)
(* Alert rules and alerts: the engine of internal/alerting/engine.go, the  *)
(* tables of alerting.go and the handlers of                               *)
(* internal/httpapi/handlers_alerts.go.                                    *)
(*                                                                         *)
(* One sweeper evaluates the rules and devices it has listed at the start  *)
(* of the sweep, while devices change and administrators edit rules and    *)
(* handle alerts.  A resolved alert is never looked at again, so of the    *)
(* alerts of a rule and a device only those in state open or acknowledged  *)
(* are kept, as numbers.  A threshold is either reached or not.            *)
(***************************************************************************)
EXTENDS Naturals, FiniteSets

CONSTANTS
    Monitored,      \* devices
    OfflineRule, MetricRule, VersionRule, ServiceRule,  \* rules by rule_type
    Condition,      \* of "offline", "reached" (a metric), "old" (the version), "down" (the service)
    MaxAdmin        \* bound: what administrators do to rules and alerts

Rule == OfflineRule \cup MetricRule \cup VersionRule \cup ServiceRule
Pair == Rule \X Monitored

ASSUME AlertAssumption == MaxAdmin \in Nat /\ "offline" \in Condition /\ IsFiniteSet(Monitored)

VARIABLES
    rules,      \* alert_rules: absent, enabled or disabled
    scope,      \* the devices each rule covers now
    facts,      \* the conditions that hold of each device
    live,       \* alerts of each rule and device: open, acknowledged
    orphaned,   \* live alerts whose rule was deleted
    sweep,      \* the sweeper: pairs to evaluate, and what it listed of the devices
    current,    \* the pair in evaluation and its step
    edits

alertVars == <<rules, scope, facts, live, orphaned, sweep, current, edits>>

Count == 0..2
NoPair == [at |-> "none"]

AlertTypeOK ==
    /\ rules \in [Rule -> {"absent", "enabled", "disabled"}]
    /\ scope \in [Rule -> SUBSET Monitored]
    /\ facts \in [Monitored -> SUBSET Condition]
    /\ live \in [Pair -> [open : Count, acknowledged : Count]]
    /\ orphaned \in Nat
    /\ sweep \in [running : BOOLEAN, todo : SUBSET Pair, listed : [Monitored -> SUBSET Condition]]
    /\ current \in {NoPair} \cup [at : {"triggered", "cleared", "insert"}, pair : Pair]
    /\ edits \in 0..MaxAdmin

NoAlert == [open |-> 0, acknowledged |-> 0]
Live(p) == live[p] # NoAlert

AlertInit ==
    /\ rules = [r \in Rule |-> "absent"]
    /\ scope \in [Rule -> {{}, Monitored}]
    /\ facts = [d \in Monitored |-> {"offline"}]
    /\ live = [p \in Pair |-> NoAlert] /\ orphaned = 0
    /\ sweep = [running |-> FALSE, todo |-> {}, listed |-> [d \in Monitored |-> {}]]
    /\ current = NoPair /\ edits = 0

----------------------------------------------------------------------------
(* Devices and administrators *)

\* The device reports, disconnects, or is updated.
FactChanges(d, f) ==
    /\ f # facts[d] /\ facts' = [facts EXCEPT ![d] = f]
    /\ UNCHANGED <<rules, scope, live, orphaned, sweep, current, edits>>

Edit == edits < MaxAdmin /\ edits' = edits + 1

\* handlePatchDevice: the device changes its customer or group.
MoveDevice(r, d) ==
    /\ Edit
    /\ scope' = [scope EXCEPT ![r] = IF d \in @ THEN @ \ {d} ELSE @ \cup {d}]
    /\ UNCHANGED <<rules, facts, live, orphaned, sweep, current>>

\* handleCreateAlertRule, CreateRule.
CreateRule(r) ==
    /\ Edit /\ rules[r] = "absent"
    /\ \E s \in {"enabled", "disabled"} : rules' = [rules EXCEPT ![r] = s]
    /\ UNCHANGED <<scope, facts, live, orphaned, sweep, current>>

\* handleSetAlertRuleEnabled, SetRuleEnabled: alerts that are open stay so.
SetRuleEnabled(r) ==
    /\ Edit /\ rules[r] # "absent"
    /\ rules' = [rules EXCEPT ![r] = IF @ = "enabled" THEN "disabled" ELSE "enabled"]
    /\ UNCHANGED <<scope, facts, live, orphaned, sweep, current>>

\* handleDeleteAlertRule, DeleteRule: alerts.rule_id is set to NULL.
DeleteRule(r) ==
    /\ Edit /\ rules[r] # "absent"
    /\ rules' = [rules EXCEPT ![r] = "absent"]
    /\ orphaned' = orphaned + Cardinality({d \in Monitored : Live(<<r, d>>)})
    /\ live' = [p \in Pair |-> IF p[1] = r THEN NoAlert ELSE live[p]]
    /\ UNCHANGED <<scope, facts, sweep, current>>

\* handleAcknowledgeAlert, Acknowledge: an open one.
Acknowledge(p) ==
    /\ Edit /\ live[p].open > 0 /\ live[p].acknowledged < 2
    /\ live' = [live EXCEPT ![p] = [open |-> @.open - 1, acknowledged |-> @.acknowledged + 1]]
    /\ UNCHANGED <<rules, scope, facts, orphaned, sweep, current>>

\* handleResolveAlert and handleDeleteAlert, Resolve and Delete: in either state.
ResolveOrDelete(p) ==
    /\ Edit
    /\ \E s \in {"open", "acknowledged"} :
          live[p][s] > 0 /\ live' = [live EXCEPT ![p][s] = @ - 1]
    /\ UNCHANGED <<rules, scope, facts, orphaned, sweep, current>>

ResolveOrphan ==
    /\ Edit /\ orphaned > 0 /\ orphaned' = orphaned - 1
    /\ UNCHANGED <<rules, scope, facts, live, sweep, current>>

----------------------------------------------------------------------------
(* The sweeper *)

\* ListRules and scopedDevices.
ScopedPairs == {p \in Pair : rules[p[1]] = "enabled" /\ p[2] \in scope[p[1]]}

\* Evaluate: the rules and the devices are listed; an error ends the sweep.
StartSweep ==
    /\ ~sweep.running
    /\ sweep' = [running |-> TRUE, listed |-> [d \in Monitored |-> facts[d] \cap {"offline", "old"}],
                 todo |-> ScopedPairs]
    /\ UNCHANGED <<rules, scope, facts, live, orphaned, current, edits>>

\* evaluateRule: status and version are those listed, metrics are read now, and a
\* service is asked for.  Without an answer, or offline, it does not trigger: Evaluate
\* then resolves the alert, although the comments there speak of skipping the tick.
Verdicts(r, d) ==
    {v \in BOOLEAN :
        /\ r \in OfflineRule => v = ("offline" \in sweep.listed[d])
        /\ r \in VersionRule => v = ("old" \in sweep.listed[d])
        /\ r \in MetricRule => v = ("reached" \in facts[d])
        /\ r \in ServiceRule /\ v => "down" \in facts[d] /\ "offline" \notin facts[d]}

EvaluateRule(p) ==
    /\ sweep.running /\ current = NoPair /\ p \in sweep.todo
    /\ sweep' = [sweep EXCEPT !.todo = @ \ {p}]
    /\ \E v \in Verdicts(p[1], p[2]) :
          current' = [at |-> IF v THEN "triggered" ELSE "cleared", pair |-> p]
    /\ UNCHANGED <<rules, scope, facts, live, orphaned, edits>>

\* A statement for the pair fails, here or in the steps below: it is logged, and the
\* pair left to the next sweep.
EvaluationFails(p) ==
    /\ sweep.running /\ current = NoPair /\ p \in sweep.todo
    /\ sweep' = [sweep EXCEPT !.todo = @ \ {p}]
    /\ UNCHANGED <<rules, scope, facts, live, orphaned, current, edits>>

\* Mutant: an acknowledged alert does not count as existing.
SelectOpenOnly ==
    /\ current.at = "triggered"
    /\ current' = IF live[current.pair].open > 0 THEN NoPair ELSE [current EXCEPT !.at = "insert"]
    /\ UNCHANGED <<rules, scope, facts, live, orphaned, sweep, edits>>

\* OpenIfNotExists: the SELECT ...
SelectExisting ==
    /\ current.at = "triggered"
    /\ current' = IF Live(current.pair) THEN NoPair ELSE [current EXCEPT !.at = "insert"]
    /\ UNCHANGED <<rules, scope, facts, live, orphaned, sweep, edits>>

\* ... and the INSERT, which fails when the rule is gone; then the audit event and the
\* notification, whose failure is logged.
InsertAlert ==
    /\ current.at = "insert" /\ current' = NoPair
    /\ live' = IF rules[current.pair[1]] = "absent" THEN live
               ELSE [live EXCEPT ![current.pair].open = @ + 1]
    /\ UNCHANGED <<rules, scope, facts, orphaned, sweep, edits>>

\* Mutant: only open alerts are resolved.
AutoResolveOpen ==
    /\ current.at = "cleared" /\ current' = NoPair
    /\ live' = [live EXCEPT ![current.pair].open = 0]
    /\ UNCHANGED <<rules, scope, facts, orphaned, sweep, edits>>

\* AutoResolveIfOpen.
AutoResolveIfOpen ==
    /\ current.at = "cleared" /\ current' = NoPair
    /\ live' = [live EXCEPT ![current.pair] = NoAlert]
    /\ UNCHANGED <<rules, scope, facts, orphaned, sweep, edits>>

EndSweep ==
    /\ sweep.running /\ sweep.todo = {} /\ current = NoPair
    /\ sweep' = [running |-> FALSE, todo |-> {}, listed |-> [d \in Monitored |-> {}]]
    /\ UNCHANGED <<rules, scope, facts, live, orphaned, current, edits>>

\* What RunSweeper's goroutine does next.
SweeperStep ==
    \/ StartSweep \/ (\E p \in Pair : EvaluateRule(p) \/ EvaluationFails(p))
    \/ SelectExisting \/ InsertAlert \/ AutoResolveIfOpen \/ EndSweep

AlertNext ==
    \/ SweeperStep
    \/ \E d \in Monitored, f \in SUBSET Condition : FactChanges(d, f)
    \/ \E r \in Rule : CreateRule(r) \/ SetRuleEnabled(r) \/ DeleteRule(r)
    \/ \E p \in Pair : MoveDevice(p[1], p[2]) \/ Acknowledge(p) \/ ResolveOrDelete(p)
    \/ ResolveOrphan

AlertSpec == AlertInit /\ [][AlertNext]_alertVars

----------------------------------------------------------------------------
\* OpenIfNotExists: a condition that keeps triggering has one alert that is open or
\* acknowledged, whatever administrators do between the SELECT and the INSERT.
OneLiveAlert == \A p \in Pair : live[p].open + live[p].acknowledged <= 1

\* A pair the sweeper looks at, with a condition that holds, or not, from now on.  Of a
\* service something is said only when it runs and the agent is online: one that is
\* down may go unreported as long as the agent does not answer.
Covered(p) == p \in ScopedPairs
Firing(p) ==
    /\ Covered(p)
    /\ \/ p[1] \in OfflineRule /\ "offline" \in facts[p[2]]
       \/ p[1] \in VersionRule /\ "old" \in facts[p[2]]
       \/ p[1] \in MetricRule /\ "reached" \in facts[p[2]]
Quiet(p) ==
    /\ Covered(p)
    /\ p[1] \in OfflineRule => "offline" \notin facts[p[2]]
    /\ p[1] \in VersionRule => "old" \notin facts[p[2]]
    /\ p[1] \in MetricRule => "reached" \notin facts[p[2]]
    /\ p[1] \in ServiceRule => {"down", "offline"} \cap facts[p[2]] = {}

\* The alerts follow the conditions: under a rule that stays enabled, one that comes
\* to hold for good is alerted, one that clears for good is resolved, acknowledged or
\* not.
AlertsFollow ==
    \A p \in Pair : (<>[]Firing(p) => <>[]Live(p)) /\ (<>[]Quiet(p) => <>[]~Live(p))
=============================================================================
