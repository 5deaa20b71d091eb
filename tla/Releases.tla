------------------------------ MODULE Releases ------------------------------
(***************************************************************************)
(* Agent releases: the table of internal/agentrelease/agentrelease.go, the *)
(* import from GitHub in githubsync.go and the handlers of                 *)
(* internal/httpapi/handlers_releases.go, for one operating system and     *)
(* architecture.                                                           *)
(*                                                                         *)
(* The sweeper and an administrator's request may sync at the same time,   *)
(* each with the GitHub listing and the rows it read at its start.  GitHub *)
(* lists the newest release first.                                         *)
(***************************************************************************)
EXTENDS Naturals, FiniteSets

CONSTANTS
    MaxRelease,     \* bound: agent-* tags, numbered from the oldest
    PageSize,       \* releases on the first page of GitHub's listing
    Channel,        \* "stable" and "beta"
    Syncer          \* RunGitHubSyncSweeper and handleSyncGitHubReleases

ASSUME ReleaseAssumption == MaxRelease \in Nat /\ PageSize \in Nat /\ Channel # {}

VARIABLES
    github,     \* assets of each release: absent, partial (a sidecar is missing) or complete
    prerelease, \* the channel of each release
    manifest,   \* agent_versions
    syncer      \* each sync: its step, the assets still to do, the versions seen

releaseVars == <<github, prerelease, manifest, syncer>>

Release == 1..MaxRelease
Asset == [version : Release, complete : BOOLEAN]
Row == [version : Release, channel : Channel]
NoSync == [at |-> "idle", todo |-> {}, seen |-> {}]

ReleaseTypeOK ==
    /\ github \in [Release -> {"absent", "partial", "complete"}]
    /\ prerelease \in [Release -> Channel]
    /\ manifest \subseteq Row
    /\ syncer \in [Syncer -> [at : {"idle", "fetched", "importing"}, todo : SUBSET Asset, seen : SUBSET Release]]

ReleaseInit ==
    /\ github = [v \in Release |-> "absent"] /\ prerelease \in [Release -> Channel]
    /\ manifest = {} /\ syncer = [s \in Syncer |-> NoSync]

Versions == {r.version : r \in manifest}

----------------------------------------------------------------------------
\* A release appears on GitHub, its assets one after the other.
GitHubUploads(v) ==
    /\ github[v] # "complete"
    /\ github' = [github EXCEPT ![v] = IF @ = "absent" THEN "partial" ELSE "complete"]
    /\ UNCHANGED <<prerelease, manifest, syncer>>

\* Create of a manifest whose signature is right, under
\* UNIQUE(version, os_family, architecture, channel).
Insert(v, c) == manifest \cup {[version |-> v, channel |-> c]}

\* handleCreateRelease: by hand, on either channel.
CreateRelease(v, c) ==
    /\ manifest' = Insert(v, c) /\ manifest' # manifest
    /\ UNCHANGED <<github, prerelease, syncer>>

\* The first page of the listing, the only one asked for: the newest releases.
Listed ==
    {v \in Release : github[v] # "absent" /\ Cardinality({w \in Release : w > v /\ github[w] # "absent"}) < PageSize}

\* SyncOnce: fetchReleases.
FetchReleases(s) ==
    /\ syncer[s].at = "idle"
    /\ syncer' = [syncer EXCEPT ![s].at = "fetched",
          ![s].todo = {[version |-> v, complete |-> github[v] = "complete"] : v \in Listed}]
    /\ UNCHANGED <<github, prerelease, manifest>>

\* List: a version counts as seen whatever its channel.
ListExisting(s) ==
    /\ syncer[s].at = "fetched"
    /\ syncer' = [syncer EXCEPT ![s].at = "importing", ![s].seen = Versions]
    /\ UNCHANGED <<github, prerelease, manifest>>

NextAsset(s, a) ==
    /\ syncer[s].at = "importing" /\ a \in syncer[s].todo
    /\ \A b \in syncer[s].todo : b.version <= a.version

\* Mutant: an asset that cannot be imported aborts the sync.
ImportOrAbort(s, a) ==
    /\ NextAsset(s, a)
    /\ IF a.complete \/ a.version \in syncer[s].seen
       THEN syncer' = [syncer EXCEPT ![s].todo = @ \ {a}, ![s].seen = @ \cup {a.version}]
       ELSE syncer' = [syncer EXCEPT ![s] = NoSync]
    /\ manifest' = IF a.complete /\ a.version \notin syncer[s].seen
                   THEN Insert(a.version, prerelease[a.version]) ELSE manifest
    /\ UNCHANGED <<github, prerelease>>

\* One asset: skipped when its version was seen, reported when a sidecar is missing,
\* else created; an insert another sync came first with is one more reported error.
ImportAsset(s, a) ==
    /\ NextAsset(s, a)
    /\ syncer' = [syncer EXCEPT ![s].todo = @ \ {a}, ![s].seen = IF a.complete THEN @ \cup {a.version} ELSE @]
    /\ manifest' = IF a.complete /\ a.version \notin syncer[s].seen
                   THEN Insert(a.version, prerelease[a.version]) ELSE manifest
    /\ UNCHANGED <<github, prerelease>>

\* fetchText or Create fails: the next sync tries again.
ImportFails(s, a) ==
    /\ NextAsset(s, a) /\ a.complete /\ a.version \notin syncer[s].seen
    /\ syncer' = [syncer EXCEPT ![s].todo = @ \ {a}]
    /\ UNCHANGED <<github, prerelease, manifest>>

EndSync(s) ==
    /\ syncer[s].at = "importing" /\ syncer[s].todo = {}
    /\ syncer' = [syncer EXCEPT ![s] = NoSync]
    /\ UNCHANGED <<github, prerelease, manifest>>

\* SyncOnce, as the sweeper and the handler run it.
SyncOnce(s) ==
    \/ FetchReleases(s) \/ ListExisting(s) \/ EndSync(s)
    \/ \E a \in Asset : ImportAsset(s, a) \/ ImportFails(s, a)

ReleaseNext ==
    \/ \E v \in Release : GitHubUploads(v) \/ \E c \in Channel : CreateRelease(v, c)
    \/ \E s \in Syncer : SyncOnce(s)

ReleaseSpec == ReleaseInit /\ [][ReleaseNext]_releaseVars

----------------------------------------------------------------------------
\* SyncOnce: an asset that cannot be imported is reported rather than aborting the
\* sync, and a failed sync is retried on the next tick.  A listed release whose
\* assets are complete gets a row, whatever other releases lack and whoever else syncs.
SyncConverges == []<>(\A v \in Listed : github[v] = "complete" => v \in Versions)
=============================================================================
