---------------------------- MODULE UpdateRollout ----------------------------
(***************************************************************************)
(* Rolling out client updates (control/updates.go, update_storage.go and   *)
(* update_snapshot.go): the administrator imports signed metadata, creates *)
(* releases from its targets, verifies copies of their packages in the     *)
(* storage sources, publishes them and names one in the policy; devices    *)
(* ask what to install.  One platform is modelled: a release is its        *)
(* version, which is unique on a platform, and target and release have the *)
(* same name.  Every write runs under the store's write lock and fails     *)
(* without effect on a stale revision, so an action is a save made with    *)
(* the current one.  Verifying a copy is not under the lock: it reads the  *)
(* source and the release, transfers gigabytes, and then records.          *)
(***************************************************************************)
EXTENDS Integers, FiniteSets

CONSTANTS
    Release,        \* versions of the platform, numbers from 1
    Digest,         \* what a target may be signed as; 0 is no target
    Source,         \* configured stores
    Place,          \* where and with which credentials a store is read
    Transfer,       \* copies being verified at a time
    MaxImports,     \* bound: imports of metadata
    MaxEdits,       \* bound: saves of one release
    MaxRevision     \* bound: saves of one source

VARIABLES
    repository,     \* the signed metadata: targets, whether unexpired, revision
    releases,       \* state, artifact and revision of each release
    sources,        \* place, enabled and revision of each source; 0 is none
    replicas,       \* source revision at which a copy was recorded, or 0
    policy,         \* the release named and the minimum version, or 0
    due,            \* the policy's effective time has come
    transfers,      \* what a verification read when it began
    proven          \* history: the place where a recorded copy was verified

vars == <<repository, releases, sources, replicas, policy, due, transfers, proven>>

State == {"none", "draft", "published", "paused", "withdrawn"}

NoTransfer == [release |-> 0, source |-> 0, at |-> 0, of |-> 0, place |-> 0, matched |-> FALSE]

TypeOK ==
    /\ repository \in [targets: [Release -> Digest \cup {0}], fresh: BOOLEAN, revision: 0..MaxImports]
    /\ releases \in [Release -> [state: State, artifact: Digest \cup {0}, revision: 0..MaxEdits]]
    /\ sources \in [Source -> [place: Place \cup {0}, enabled: BOOLEAN, revision: 0..MaxRevision]]
    /\ replicas \in [Release \X Source -> 0..MaxRevision]
    /\ policy \in [release: Release \cup {0}, minimum: Release \cup {0}]
    /\ due \in BOOLEAN
    /\ transfers \in [Transfer -> [release: Release \cup {0}, source: Source \cup {0},
                                   at: 0..MaxRevision, of: 0..MaxEdits,
                                   place: Place \cup {0}, matched: BOOLEAN]]
    /\ proven \in [Release \X Source -> Place \cup {0}]

Init ==
    /\ repository = [targets |-> [r \in Release |-> 0], fresh |-> FALSE, revision |-> 0]
    /\ releases = [r \in Release |-> [state |-> "none", artifact |-> 0, revision |-> 0]]
    /\ sources = [s \in Source |-> [place |-> 0, enabled |-> FALSE, revision |-> 0]]
    /\ replicas = [x \in Release \X Source |-> 0]
    /\ policy = [release |-> 0, minimum |-> 0]
    /\ due = FALSE
    /\ transfers = [t \in Transfer |-> NoTransfer]
    /\ proven = [x \in Release \X Source |-> 0]

-----------------------------------------------------------------------------
(* What the saves look up.                                                 *)

\* A copy counts only at the current revision of its source.
Current(r, s, srcs, reps) == reps[<<r, s>>] > 0 /\ reps[<<r, s>>] = srcs[s].revision

\* The addresses a release can be fetched from: its enabled sources.
ReleaseURLs(r, srcs, reps) == {s \in Source : Current(r, s, srcs, reps) /\ srcs[s].enabled}

\* The imported metadata verifies up to the embedded root, unexpired.
VerifyRepository == repository.fresh

\* What the metadata signs under the target of a release; 0 when nothing.
Artifact(r) == repository.targets[r]

\* The unexpired metadata still signs the release as what it was created from.
VerifyReleaseMetadata(r) == VerifyRepository /\ Artifact(r) = releases[r].artifact

\* What a renewal of the metadata has to keep.
InUse(r) == releases[r].state \in {"published", "paused"} \/ policy.release = r

-----------------------------------------------------------------------------
(* The administrator's saves.                                              *)

\* Metadata newer than the last, unexpired.
VerifyAdvance(targets) ==
    [targets |-> targets, fresh |-> TRUE, revision |-> repository.revision + 1]

\* A renewal keeps every target in use.
RetainsTargets(targets) == \A r \in Release : InUse(r) => targets[r] = releases[r].artifact

SaveRepository ==
    /\ repository.revision < MaxImports
    /\ \E targets \in [Release -> Digest \cup {0}] :
          /\ RetainsTargets(targets)
          /\ repository' = VerifyAdvance(targets)
    /\ UNCHANGED <<releases, sources, replicas, policy, due, transfers, proven>>

\* Signatures last for days: without a renewal they expire.
Expire ==
    /\ repository.fresh
    /\ repository' = [repository EXCEPT !.fresh = FALSE]
    /\ UNCHANGED <<releases, sources, replicas, policy, due, transfers, proven>>

CreateRelease(r) ==
    /\ releases[r].state = "none"
    /\ VerifyRepository /\ Artifact(r) # 0
    /\ releases' = [releases EXCEPT ![r] =
            [state |-> "draft", artifact |-> Artifact(r), revision |-> 1]]
    /\ UNCHANGED <<repository, sources, replicas, policy, due, transfers, proven>>

\* A referenced release stays published, a withdrawn one stays withdrawn, and
\* only a signed release with an address is published.
MayBecome(r, state) ==
    /\ policy.release = r => state = "published"
    /\ releases[r].state = "withdrawn" => state = "withdrawn"
    /\ state = "published" =>
          VerifyReleaseMetadata(r) /\ ReleaseURLs(r, sources, replicas) # {}

SaveRelease(r, state) ==
    /\ releases[r].state # "none" /\ releases[r].revision < MaxEdits
    /\ MayBecome(r, state)
    /\ releases' = [releases EXCEPT ![r].state = state, ![r].revision = @ + 1]
    /\ UNCHANGED <<repository, sources, replicas, policy, due, transfers, proven>>

CarriedUnlessRekeyed(s, new, rekeyed) ==
    IF ~rekeyed
    THEN [x \in Release \X Source |->
            IF x[2] = s /\ Current(x[1], s, sources, replicas) THEN new.revision ELSE replicas[x]]
    ELSE replicas

\* Copies follow a save that leaves the place and the credentials alone.
Carried(s, new, rekeyed) ==
    IF sources[s].place = new.place /\ ~rekeyed
    THEN [x \in Release \X Source |->
            IF x[2] = s /\ Current(x[1], s, sources, replicas) THEN new.revision ELSE replicas[x]]
    ELSE replicas

\* The release the policy names keeps an address.
KeepsPolicy(srcs, reps) ==
    policy.release # 0 => ReleaseURLs(policy.release, srcs, reps) # {}

SaveSource(s, place, enabled, rekeyed) ==
    /\ sources[s].revision < MaxRevision
    /\ LET new == [place |-> place, enabled |-> enabled, revision |-> sources[s].revision + 1]
           srcs == [sources EXCEPT ![s] = new]
           reps == Carried(s, new, rekeyed)
       IN  /\ sources[s].revision > 0 => KeepsPolicy(srcs, reps)
           /\ sources' = srcs
           /\ replicas' = reps
    /\ UNCHANGED <<repository, releases, policy, due, transfers, proven>>

MayRecommend(r, minimum) ==
    /\ VerifyReleaseMetadata(r)
    /\ releases[r].state = "published"
    /\ minimum <= r
    /\ ReleaseURLs(r, sources, replicas) # {}

\* The rooms of devices below the minimum are left in the same transaction;
\* module RoomControl has that part.
SavePolicy(r, minimum) ==
    /\ r # 0 => MayRecommend(r, minimum)
    /\ r = 0 => minimum = 0
    /\ policy' = [release |-> r, minimum |-> minimum]
    /\ due' \in {d \in BOOLEAN : d => minimum # 0}
    /\ UNCHANGED <<repository, releases, sources, replicas, transfers, proven>>

ComesDue ==
    /\ policy.minimum # 0 /\ ~due
    /\ due' = TRUE
    /\ UNCHANGED <<repository, releases, sources, replicas, policy, transfers, proven>>

-----------------------------------------------------------------------------
(* Verifying a copy: read, transfer, record.                               *)

BeginReplica(t, r, s) ==
    /\ transfers[t] = NoTransfer
    /\ sources[s].revision > 0
    /\ releases[r].state \notin {"none", "withdrawn"}
    /\ transfers' = [transfers EXCEPT ![t] =
            [release |-> r, source |-> s, at |-> sources[s].revision,
             of |-> releases[r].revision, place |-> sources[s].place, matched |-> FALSE]]
    /\ UNCHANGED <<repository, releases, sources, replicas, policy, due, proven>>

\* The whole package is read from the place and has the signed digest.
VerifyReplica(t) ==
    /\ transfers[t] # NoTransfer /\ ~transfers[t].matched
    /\ transfers' = [transfers EXCEPT ![t].matched = TRUE]
    /\ UNCHANGED <<repository, releases, sources, replicas, policy, due, proven>>

\* The bytes differ, the store fails, or the administrator's session has ended.
FailReplica(t) ==
    /\ transfers[t] # NoTransfer
    /\ transfers' = [transfers EXCEPT ![t] = NoTransfer]
    /\ UNCHANGED <<repository, releases, sources, replicas, policy, due, proven>>

UnchangedRelease(t) == releases[transfers[t].release].revision = transfers[t].of

\* Neither the source nor the release was saved since they were read.
Unchanged(t) ==
    /\ sources[transfers[t].source].revision = transfers[t].at
    /\ releases[transfers[t].release].revision = transfers[t].of

RecordReplica(t) ==
    LET x == <<transfers[t].release, transfers[t].source>>
    IN  /\ transfers[t].matched
        /\ Unchanged(t)
        /\ replicas' = [replicas EXCEPT ![x] = transfers[t].at]
        /\ proven' = [proven EXCEPT ![x] = transfers[t].place]
        /\ transfers' = [transfers EXCEPT ![t] = NoTransfer]
        /\ UNCHANGED <<repository, releases, sources, policy, due>>

Next ==
    \/ SaveRepository
    \/ Expire
    \/ \E r \in Release : CreateRelease(r) \/ \E state \in State \ {"none"} : SaveRelease(r, state)
    \/ \E s \in Source, place \in Place, enabled, rekeyed \in BOOLEAN :
          SaveSource(s, place, enabled, rekeyed)
    \/ \E r, minimum \in Release \cup {0} : SavePolicy(r, minimum)
    \/ ComesDue
    \/ \E t \in Transfer :
          \/ \E r \in Release, s \in Source : BeginReplica(t, r, s)
          \/ VerifyReplica(t) \/ FailReplica(t) \/ RecordReplica(t)

Spec == Init /\ [][Next]_vars

-----------------------------------------------------------------------------
(* What devices and the download page read.                                *)

\* What is stored of a device: nothing, or its last report, with the version of the agent
\* and, once a desktop has told the agent its own, of the desktop.
Version == Release \cup {0}
Report(agent, gui) == [agent |-> agent, gui |-> gui]
Reports == {{}} \cup {{Report(v, {})} : v \in Version} \cup {{Report(v, {g})} : v, g \in Version}

\* A device has to update: by its last report, or because it never made one.
Required(reports) ==
    /\ policy.minimum # 0 /\ due
    /\ \A r \in reports : \E v \in {r.agent} \cup r.gui : v < policy.minimum

\* The answer to a device whose agent is of version v: a release with addresses and the
\* metadata that signs it, or 0.
CheckUpdate(v) ==
    IF policy.release # 0 /\ releases[policy.release].state = "published" /\ v < policy.release
    THEN policy.release ELSE 0

\* The releases the download page lists.
Downloads ==
    {r \in Release : /\ releases[r].state = "published"
                     /\ VerifyReleaseMetadata(r)
                     /\ ReleaseURLs(r, sources, replicas) # {}}

-----------------------------------------------------------------------------
(* A copy that counts was verified in full where its source points now:    *)
(* whatever was saved while the package was being read, and however the    *)
(* source was moved to and fro (docs/updates.md:71).                       *)
ReplicasVerified ==
    \A r \in Release, s \in Source :
        Current(r, s, sources, replicas) => proven[<<r, s>>] = sources[s].place

\* Version v can be fetched: it has an address, the metadata signs exactly that package,
\* and while the signatures last the page lists it.
Fetchable(v) ==
    /\ v \in Release
    /\ ReleaseURLs(v, sources, replicas) # {}
    /\ repository.targets[v] = releases[v].artifact
    /\ repository.fresh => v \in Downloads

\* A device that is shut out of rooms until it updates, with an agent of version v now, is
\* offered a release that can be fetched, unless its agent is that release or newer.  Then
\* it was shut out for a desktop that is behind, or for want of a report, and nothing is
\* offered.  In both cases it is let in when agent and desktop are what the policy names
\* and have been reported.
RequiredCanUpdate ==
    \A v \in Version, reports \in Reports :
        Required(reports) =>
            LET target == IF v < policy.release THEN CheckUpdate(v) ELSE v
            IN  /\ v < policy.release => Fetchable(target)
                /\ ~Required({Report(target, {target})})

Inv == TypeOK /\ ReplicasVerified

(* What these rest on.  A copy is recorded at a revision its source has had.  *)
Revisions == \A r \in Release, s \in Source : replicas[<<r, s>>] <= sources[s].revision

(* A verification under way has read a revision of its source, and reads      *)
(* where the source points as long as that is not saved again.                *)
Reading ==
    \A t \in Transfer : transfers[t] # NoTransfer =>
        LET read == transfers[t]
        IN  /\ read.release # 0 /\ read.source # 0 /\ read.at # 0
            /\ read.at <= sources[read.source].revision
            /\ read.at = sources[read.source].revision => read.place = sources[read.source].place

(* What the policy names can be installed, by devices below its minimum too.  *)
Installable ==
    LET r == policy.release
    IN  /\ r = 0 => policy.minimum = 0
        /\ r # 0 => /\ releases[r].state = "published"
                    /\ policy.minimum <= r
                    /\ ReleaseURLs(r, sources, replicas) # {}
                    /\ Artifact(r) = releases[r].artifact

Supported == Inv /\ Revisions /\ Reading /\ Installable
=============================================================================
