-------------------------- MODULE MCParts_proofs --------------------------
(***************************************************************************)
(* Proofs about module MCParts: what the rollout, the LAN device, the      *)
(* reassembly of fragments and the choice of relays promise on small       *)
(* instances they promise for every set of releases, sources, peers, ports *)
(* and contents, every limit on queues, flows, windows and fragments, and  *)
(* every number of saves, policies and frames.                             *)
(*                                                                         *)
(* Each component has an inductive invariant stated in its own module      *)
(* beside the properties.  The rollout's (Supported) says what revision a  *)
(* recorded copy and a verification under way may have, so that a save     *)
(* between reading and recording is always noticed.  The LAN's (Guarded)   *)
(* says that a number which was accepted once is either in its slot of the *)
(* window or behind the window, and that whatever waits under the          *)
(* generation in force is covered by the policy in force.  That of the     *)
(* reassembly (Assembling) counts the units that the fragments cover.      *)
(*                                                                         *)
(* The choice of relays takes its ranking to be total: the average of the  *)
(* answered pings is a number, so that every place of the ranking has a    *)
(* candidate, and a relay fails by its recent samples only if it does by   *)
(* all of them.                                                             *)
(***************************************************************************)
EXTENDS MCParts, Sequences, FiniteSetTheorems, FunctionTheorems, TLAPS

-----------------------------------------------------------------------------
(* The rollout.                                                              *)

USE RolloutAssumption

\* The rows and records of the rollout.
RolloutRows ==
  /\ repository \in [targets: [Release -> Digest \cup {0}], fresh: BOOLEAN,
                     revision: 0..MaxImports]
  /\ releases \in [Release -> [state: Rollout!State, artifact: Digest \cup {0},
                               revision: 0..MaxEdits]]
  /\ policy \in [release: Release \cup {0}, minimum: Release \cup {0}]
  /\ due \in BOOLEAN
SourceRows == [Source -> [place: Place \cup {0}, enabled: BOOLEAN, revision: 0..MaxRevision]]
Record == [release: Release \cup {0}, source: Source \cup {0}, at: 0..MaxRevision,
           of: 0..MaxEdits, place: Place \cup {0}, matched: BOOLEAN]

LEMMA RolloutTypes ==
  Rollout!TypeOK <=>
    /\ RolloutRows /\ sources \in SourceRows
    /\ replicas \in [Release \X Source -> 0..MaxRevision]
    /\ transfers \in [Transfer -> Record]
    /\ proven \in [Release \X Source -> Place \cup {0}]
BY DEF Rollout!TypeOK, RolloutRows, SourceRows, Record

LEMMA RolloutInit == Rollout!Init => Rollout!Supported
<1> SUFFICES ASSUME Rollout!Init PROVE Rollout!Supported
  OBVIOUS
<1>1. Rollout!NoTransfer \in Record
  BY DEF Rollout!NoTransfer, Record
<1>2. RolloutRows
  <2>1. 0 \in 0..MaxImports /\ 0 \in 0..MaxEdits
    OBVIOUS
  <2>2. repository \in [targets: [Release -> Digest \cup {0}], fresh: BOOLEAN,
                        revision: 0..MaxImports]
    BY <2>1 DEF Rollout!Init
  <2>3. releases \in [Release -> [state: Rollout!State, artifact: Digest \cup {0},
                                  revision: 0..MaxEdits]]
    BY <2>1 DEF Rollout!Init, Rollout!State
  <2>4. policy \in [release: Release \cup {0}, minimum: Release \cup {0}] /\ due \in BOOLEAN
    BY DEF Rollout!Init
  <2> QED  BY <2>2, <2>3, <2>4 DEF RolloutRows
<1>3. sources \in SourceRows /\ transfers \in [Transfer -> Record]
  BY <1>1 DEF Rollout!Init, SourceRows
<1>4. replicas \in [Release \X Source -> 0..MaxRevision]
      /\ proven \in [Release \X Source -> Place \cup {0}]
  BY DEF Rollout!Init
<1>5. Rollout!TypeOK
  BY <1>2, <1>3, <1>4, RolloutTypes
<1>6. \A r \in Release, s \in Source : replicas[<<r, s>>] = 0
  BY DEF Rollout!Init
<1>7. Rollout!ReplicasVerified /\ Rollout!Revisions
  BY <1>6 DEF Rollout!Init, Rollout!ReplicasVerified, Rollout!Revisions, Rollout!Current
<1>8. Rollout!Reading /\ Rollout!Installable
  BY DEF Rollout!Init, Rollout!Reading, Rollout!Installable
<1> QED  BY <1>5, <1>7, <1>8 DEF Rollout!Supported, Rollout!Inv

\* Metadata renewed or expired.
LEMMA RolloutMetadata ==
  ASSUME Rollout!Supported, Rollout!SaveRepository \/ Rollout!Expire
  PROVE  Rollout!Supported'
<1> USE DEF Rollout!Supported, Rollout!Inv
<1>1. UNCHANGED <<releases, sources, replicas, policy, due, transfers, proven>>
  BY DEF Rollout!SaveRepository, Rollout!Expire
<1>2. RolloutRows'
  <2>1. repository.revision \in 0..MaxImports
    BY RolloutTypes DEF RolloutRows
  <2>2. CASE Rollout!SaveRepository
    <3>1. PICK targets \in [Release -> Digest \cup {0}] :
            repository' = Rollout!VerifyAdvance(targets)
      BY <2>2 DEF Rollout!SaveRepository
    <3>2. repository.revision + 1 \in 0..MaxImports
      BY <2>1, <2>2 DEF Rollout!SaveRepository
    <3> QED  BY <1>1, <3>1, <3>2, RolloutTypes DEF RolloutRows, Rollout!VerifyAdvance
  <2>3. CASE Rollout!Expire
    BY <1>1, <2>3, RolloutTypes DEF RolloutRows, Rollout!Expire
  <2> QED  BY <2>2, <2>3
<1>3. Rollout!TypeOK'
  BY <1>1, <1>2, RolloutTypes DEF SourceRows, Record, RolloutRows, Rollout!TypeOK
<1>4. Rollout!ReplicasVerified' /\ Rollout!Revisions' /\ Rollout!Reading'
  BY <1>1 DEF Rollout!ReplicasVerified, Rollout!Revisions, Rollout!Current, Rollout!Reading
<1>5. policy.release # 0
        => repository'.targets[policy.release] = releases[policy.release].artifact
  BY RolloutTypes DEF Rollout!SaveRepository, Rollout!Expire, Rollout!VerifyAdvance,
     Rollout!RetainsTargets, Rollout!InUse, Rollout!Installable, Rollout!Artifact, RolloutRows
<1>6. Rollout!Installable'
  BY <1>1, <1>5 DEF Rollout!Installable, Rollout!ReleaseURLs, Rollout!Current, Rollout!Artifact
<1> QED  BY <1>3, <1>4, <1>6

\* A release is created, or becomes what it may.
LEMMA RolloutReleases ==
  ASSUME Rollout!Supported, NEW r \in Release,
         Rollout!CreateRelease(r)
         \/ \E state \in Rollout!State \ {"none"} : Rollout!SaveRelease(r, state)
  PROVE  Rollout!Supported'
<1> USE DEF Rollout!Supported, Rollout!Inv
<1>1. UNCHANGED <<repository, sources, replicas, policy, due, transfers, proven>>
  BY DEF Rollout!CreateRelease, Rollout!SaveRelease
<1>2. releases' \in [Release -> [state: Rollout!State, artifact: Digest \cup {0},
                                 revision: 0..MaxEdits]]
  <2>1. CASE Rollout!CreateRelease(r)
    BY <2>1, RolloutTypes DEF Rollout!CreateRelease, RolloutRows, Rollout!Artifact, Rollout!State
  <2>2. CASE \E state \in Rollout!State \ {"none"} : Rollout!SaveRelease(r, state)
    <3>1. PICK state \in Rollout!State \ {"none"} : Rollout!SaveRelease(r, state)
      BY <2>2
    <3>2. releases[r] \in [state: Rollout!State, artifact: Digest \cup {0},
                           revision: 0..MaxEdits]
      BY RolloutTypes DEF RolloutRows
    <3>3. releases[r].revision + 1 \in 0..MaxEdits
      BY <3>1, <3>2 DEF Rollout!SaveRelease
    <3>4. [releases[r] EXCEPT !.state = state, !.revision = releases[r].revision + 1]
            \in [state: Rollout!State, artifact: Digest \cup {0}, revision: 0..MaxEdits]
      BY <3>2, <3>3
    <3>5. releases \in [Release -> [state: Rollout!State, artifact: Digest \cup {0},
                                    revision: 0..MaxEdits]]
      BY RolloutTypes DEF RolloutRows
    <3>6. releases' = [releases EXCEPT ![r] = [releases[r] EXCEPT !.state = state,
                                               !.revision = releases[r].revision + 1]]
      BY <3>1, <3>5 DEF Rollout!SaveRelease
    <3> QED  BY <3>4, <3>5, <3>6
  <2> QED  BY <2>1, <2>2
<1>3. Rollout!TypeOK'
  BY <1>1, <1>2 DEF Rollout!TypeOK, Rollout!State
<1>4. Rollout!ReplicasVerified' /\ Rollout!Revisions' /\ Rollout!Reading'
  BY <1>1 DEF Rollout!ReplicasVerified, Rollout!Revisions, Rollout!Current, Rollout!Reading
<1>5. ASSUME policy.release # 0
      PROVE  /\ releases'[policy.release].state = "published"
             /\ releases'[policy.release].artifact = releases[policy.release].artifact
  <2>1. policy.release \in Release /\ releases[policy.release].state = "published"
    BY <1>5, RolloutTypes DEF RolloutRows, Rollout!Installable
  <2>2. CASE Rollout!CreateRelease(r)
    <3>1. r # policy.release
      BY <2>1, <2>2 DEF Rollout!CreateRelease
    <3> QED  BY <2>1, <2>2, <3>1, RolloutTypes DEF Rollout!CreateRelease, RolloutRows
  <2>3. CASE \E state \in Rollout!State \ {"none"} : Rollout!SaveRelease(r, state)
    <3>1. PICK state \in Rollout!State \ {"none"} : Rollout!SaveRelease(r, state)
      BY <2>3
    <3>2. r = policy.release => state = "published"
      BY <3>1 DEF Rollout!SaveRelease, Rollout!MayBecome
    <3>3. releases \in [Release -> [state: Rollout!State, artifact: Digest \cup {0},
                                    revision: 0..MaxEdits]]
      BY RolloutTypes DEF RolloutRows
    <3>4. releases' = [releases EXCEPT ![r] = [releases[r] EXCEPT !.state = state,
                                               !.revision = releases[r].revision + 1]]
      BY <3>1, <3>3 DEF Rollout!SaveRelease
    <3> QED  BY <2>1, <3>2, <3>3, <3>4
  <2> QED  BY <2>2, <2>3
<1>6. Rollout!Installable'
  BY <1>1, <1>5 DEF Rollout!Installable, Rollout!ReleaseURLs, Rollout!Current, Rollout!Artifact
<1> QED  BY <1>3, <1>4, <1>6

\* A source is saved: copies follow it where it was not moved, and one recorded before it was
\* saved is of an earlier revision than the one it has now.
LEMMA RolloutSources ==
  ASSUME Rollout!Supported, NEW s \in Source, NEW place \in Place, NEW enabled \in BOOLEAN,
         NEW rekeyed \in BOOLEAN, Rollout!SaveSource(s, place, enabled, rekeyed)
  PROVE  Rollout!Supported'
<1> USE DEF Rollout!Supported, Rollout!Inv
<1> DEFINE next == sources[s].revision + 1
           new == [place |-> place, enabled |-> enabled, revision |-> next]
           kept == sources[s].place = place /\ ~rekeyed
<1>1. UNCHANGED <<repository, releases, policy, due, transfers, proven>>
  BY DEF Rollout!SaveSource
<1>2. /\ sources \in SourceRows /\ replicas \in [Release \X Source -> 0..MaxRevision]
      /\ transfers \in [Transfer -> Record] /\ RolloutRows
  BY RolloutTypes
<1>3. sources[s].revision \in Nat /\ next \in 0..MaxRevision
  BY <1>2 DEF Rollout!SaveSource, SourceRows
<1>4. sources' = [sources EXCEPT ![s] = new] /\ replicas' = Rollout!Carried(s, new, rekeyed)
  BY DEF Rollout!SaveSource
<1> HIDE DEF next
<1>5. sources' \in SourceRows
  BY <1>2, <1>3, <1>4 DEF SourceRows
<1>6. replicas' \in [Release \X Source -> 0..MaxRevision]
  BY <1>2, <1>3, <1>4 DEF Rollout!Carried
<1>7. Rollout!TypeOK'
  BY <1>1, <1>2, <1>5, <1>6, RolloutTypes DEF Rollout!TypeOK, RolloutRows, SourceRows, Record
<1>8. \A z \in Source : z # s => sources'[z] = sources[z]
  BY <1>2, <1>4 DEF SourceRows
<1>9. sources'[s] = new
  BY <1>2, <1>4 DEF SourceRows
<1>10. \A r \in Release, z \in Source : z # s => replicas'[<<r, z>>] = replicas[<<r, z>>]
  BY <1>2, <1>4 DEF Rollout!Carried
<1>11. \A r \in Release :
         replicas'[<<r, s>>] = IF kept /\ Rollout!Current(r, s, sources, replicas)
                               THEN next ELSE replicas[<<r, s>>]
  BY <1>2, <1>4 DEF Rollout!Carried
<1>12. \A r \in Release : replicas[<<r, s>>] \in Nat /\ replicas[<<r, s>>] < next
  <2> SUFFICES ASSUME NEW r \in Release
               PROVE  replicas[<<r, s>>] \in Nat /\ replicas[<<r, s>>] < next
    OBVIOUS
  <2>1. replicas[<<r, s>>] \in 0..MaxRevision
    BY <1>2
  <2>2. replicas[<<r, s>>] <= sources[s].revision
    BY DEF Rollout!Revisions
  <2> QED  BY <1>3, <2>1, <2>2 DEF next
<1>13. \A r \in Release, z \in Source :
         replicas'[<<r, z>>] <= sources'[z].revision
  <2> SUFFICES ASSUME NEW r \in Release, NEW z \in Source
               PROVE  replicas'[<<r, z>>] <= sources'[z].revision
    OBVIOUS
  <2>1. CASE z = s
    <3>1. replicas'[<<r, s>>] <= next
      BY <1>3, <1>11, <1>12
    <3> QED  BY <2>1, <3>1, <1>9
  <2>2. CASE z # s
    BY <2>2, <1>8, <1>10 DEF Rollout!Revisions
  <2> QED  BY <2>1, <2>2
<1>14. Rollout!Revisions'
  BY <1>13 DEF Rollout!Revisions
<1>15. ASSUME NEW r \in Release, NEW z \in Source, Rollout!Current(r, z, sources', replicas')
       PROVE  proven[<<r, z>>] = sources'[z].place
  <2>1. CASE z = s
    <3>1. kept /\ Rollout!Current(r, s, sources, replicas)
      BY <1>3, <1>9, <1>11, <1>12, <1>15, <2>1 DEF Rollout!Current
    <3>2. proven[<<r, s>>] = sources[s].place
      BY <3>1 DEF Rollout!ReplicasVerified
    <3> QED  BY <2>1, <3>1, <3>2, <1>9
  <2>2. CASE z # s
    BY <2>2, <1>8, <1>10, <1>15 DEF Rollout!ReplicasVerified, Rollout!Current
  <2> QED  BY <2>1, <2>2
<1>16. Rollout!ReplicasVerified'
  BY <1>1, <1>15 DEF Rollout!ReplicasVerified, Rollout!Current
<1>17. ASSUME NEW t \in Transfer, transfers[t] # Rollout!NoTransfer
       PROVE  LET read == transfers[t]
              IN  /\ read.release # 0 /\ read.source # 0 /\ read.at # 0
                  /\ read.at <= sources'[read.source].revision
                  /\ read.at = sources'[read.source].revision
                       => read.place = sources'[read.source].place
  <2> DEFINE z == transfers[t].source
             at == transfers[t].at
  <2>1. /\ transfers[t].release # 0 /\ z # 0 /\ at # 0 /\ at <= sources[z].revision
        /\ at = sources[z].revision => transfers[t].place = sources[z].place
    BY <1>17 DEF Rollout!Reading
  <2>2. z \in Source /\ at \in Nat
    BY <1>2, <2>1 DEF Record
  <2> HIDE DEF z, at
  <2>3. CASE z = s
    <3>1. at <= next /\ at # next
      BY <1>3, <2>1, <2>2, <2>3 DEF next
    <3> QED  BY <1>9, <2>1, <2>3, <3>1 DEF z, at
  <2>4. CASE z # s
    BY <1>8, <2>1, <2>2, <2>4 DEF z, at
  <2> QED  BY <2>3, <2>4
<1>18. Rollout!Reading'
  BY <1>1, <1>17 DEF Rollout!Reading, Rollout!NoTransfer
<1>19. ASSUME policy.release # 0
       PROVE  Rollout!ReleaseURLs(policy.release, sources', replicas') # {}
  <2>1. policy.release \in Release
    BY <1>2, <1>19 DEF RolloutRows
  <2>2. CASE sources[s].revision > 0
    BY <2>2, <1>19, <1>4 DEF Rollout!SaveSource, Rollout!KeepsPolicy
  <2>3. CASE sources[s].revision = 0
    <3>1. PICK z \in Source : /\ Rollout!Current(policy.release, z, sources, replicas)
                              /\ sources[z].enabled
      BY <1>19 DEF Rollout!Installable, Rollout!ReleaseURLs
    <3>2. z # s
      BY <2>1, <2>3, <3>1, <1>12 DEF Rollout!Current
    <3>3. z \in Rollout!ReleaseURLs(policy.release, sources', replicas')
      BY <2>1, <3>1, <3>2, <1>8, <1>10 DEF Rollout!Current, Rollout!ReleaseURLs
    <3> QED  BY <3>3
  <2> QED  BY <2>2, <2>3, <1>3
<1>20. Rollout!Installable'
  BY <1>1, <1>19 DEF Rollout!Installable, Rollout!ReleaseURLs, Rollout!Current, Rollout!Artifact
<1> QED  BY <1>7, <1>14, <1>16, <1>18, <1>20

\* A release is named in the policy, or the policy's time comes.
LEMMA RolloutPolicy ==
  ASSUME Rollout!Supported,
         Rollout!ComesDue
         \/ \E r, minimum \in Release \cup {0} : Rollout!SavePolicy(r, minimum)
  PROVE  Rollout!Supported'
<1> USE DEF Rollout!Supported, Rollout!Inv
<1>1. UNCHANGED <<repository, releases, sources, replicas, transfers, proven>>
  BY DEF Rollout!SavePolicy, Rollout!ComesDue
<1>2. RolloutRows
  BY RolloutTypes
<1>3. /\ policy' \in [release: Release \cup {0}, minimum: Release \cup {0}] /\ due' \in BOOLEAN
      /\ Rollout!Installable'
  <2>1. CASE Rollout!ComesDue
    BY <1>1, <1>2, <2>1 DEF Rollout!ComesDue, Rollout!Installable, RolloutRows,
       Rollout!ReleaseURLs, Rollout!Current, Rollout!Artifact
  <2>2. ASSUME NEW r \in Release \cup {0}, NEW minimum \in Release \cup {0},
               Rollout!SavePolicy(r, minimum)
        PROVE  /\ policy' \in [release: Release \cup {0}, minimum: Release \cup {0}]
               /\ due' \in BOOLEAN /\ Rollout!Installable'
    <3>1. policy' = [release |-> r, minimum |-> minimum] /\ due' \in BOOLEAN
      BY <2>2 DEF Rollout!SavePolicy
    <3>2. /\ r = 0 => minimum = 0
          /\ r # 0 => /\ releases[r].state = "published" /\ minimum <= r
                      /\ Rollout!ReleaseURLs(r, sources, replicas) # {}
                      /\ repository.targets[r] = releases[r].artifact
      BY <2>2 DEF Rollout!SavePolicy, Rollout!MayRecommend, Rollout!VerifyReleaseMetadata,
         Rollout!Artifact
    <3> QED  BY <1>1, <3>1, <3>2 DEF Rollout!Installable, Rollout!ReleaseURLs, Rollout!Current,
             Rollout!Artifact
  <2> QED  BY <2>1, <2>2
<1>4. Rollout!TypeOK'
  BY <1>1, <1>2, <1>3, RolloutTypes DEF Rollout!TypeOK, RolloutRows, SourceRows, Record
<1>5. Rollout!ReplicasVerified' /\ Rollout!Revisions' /\ Rollout!Reading'
  BY <1>1 DEF Rollout!ReplicasVerified, Rollout!Revisions, Rollout!Current, Rollout!Reading
<1> QED  BY <1>3, <1>4, <1>5

\* A copy is being verified.
LEMMA RolloutTransfers ==
  ASSUME Rollout!Supported, NEW t \in Transfer,
         \/ \E r \in Release, s \in Source : Rollout!BeginReplica(t, r, s)
         \/ Rollout!VerifyReplica(t) \/ Rollout!FailReplica(t)
  PROVE  Rollout!Supported'
<1> USE DEF Rollout!Supported, Rollout!Inv
<1>1. UNCHANGED <<repository, releases, sources, replicas, policy, due, proven>>
  BY DEF Rollout!BeginReplica, Rollout!VerifyReplica, Rollout!FailReplica
<1>2. /\ sources \in SourceRows /\ transfers \in [Transfer -> Record] /\ RolloutRows
  BY RolloutTypes
<1> DEFINE Sound(read) ==
             /\ read.release # 0 /\ read.source # 0 /\ read.at # 0
             /\ read.at <= sources[read.source].revision
             /\ read.at = sources[read.source].revision
                  => read.place = sources[read.source].place
<1> DEFINE Becomes(read) == /\ transfers' = [transfers EXCEPT ![t] = read]
                            /\ read = Rollout!NoTransfer \/ Sound(read)
<1>3. \E read \in Record : Becomes(read)
  <2>1. ASSUME NEW r \in Release, NEW s \in Source, Rollout!BeginReplica(t, r, s)
        PROVE  \E read \in Record : Becomes(read)
    <3> DEFINE read == [release |-> r, source |-> s, at |-> sources[s].revision,
                        of |-> releases[r].revision, place |-> sources[s].place,
                        matched |-> FALSE]
    <3>1. sources[s].revision \in 0..MaxRevision /\ sources[s].place \in Place \cup {0}
      BY <1>2 DEF SourceRows
    <3>2. releases[r].revision \in 0..MaxEdits
      BY <1>2 DEF RolloutRows
    <3>3. read \in Record
      BY <3>1, <3>2 DEF Record
    <3>4. sources[s].revision > 0 /\ transfers' = [transfers EXCEPT ![t] = read]
      BY <2>1 DEF Rollout!BeginReplica
    <3>5. Sound(read)
      BY <3>1, <3>4
    <3> QED  BY <3>3, <3>4, <3>5
  <2>2. CASE Rollout!VerifyReplica(t)
    <3> DEFINE read == [transfers[t] EXCEPT !.matched = TRUE]
    <3>1. transfers[t] # Rollout!NoTransfer /\ transfers' = [transfers EXCEPT ![t] = read]
      BY <1>2, <2>2 DEF Rollout!VerifyReplica
    <3>2. Sound(transfers[t]) /\ transfers[t] \in Record
      BY <1>2, <3>1 DEF Rollout!Reading
    <3>3. read \in Record /\ Sound(read)
      BY <3>2 DEF Record
    <3> QED  BY <3>1, <3>3
  <2>3. CASE Rollout!FailReplica(t)
    <3>1. Rollout!NoTransfer \in Record
      BY DEF Rollout!NoTransfer, Record
    <3> QED  BY <2>3, <3>1 DEF Rollout!FailReplica
  <2> QED  BY <2>1, <2>2, <2>3
<1>4. PICK read \in Record : Becomes(read)
  BY <1>3
<1>5. transfers' \in [Transfer -> Record]
  BY <1>2, <1>4
<1>6. Rollout!TypeOK'
  BY <1>1, <1>5, RolloutTypes DEF Rollout!TypeOK, RolloutRows, SourceRows, Record
<1>7. ASSUME NEW o \in Transfer, transfers'[o] # Rollout!NoTransfer
      PROVE  Sound(transfers'[o])
  <2>1. CASE o = t
    BY <1>2, <1>4, <1>7, <2>1
  <2>2. CASE o # t
    <3>1. transfers'[o] = transfers[o]
      BY <1>2, <1>4, <2>2
    <3> QED  BY <1>7, <3>1 DEF Rollout!Reading
  <2> QED  BY <2>1, <2>2
<1>8. Rollout!Reading'
  BY <1>1, <1>7 DEF Rollout!Reading, Rollout!NoTransfer
<1>9. Rollout!ReplicasVerified' /\ Rollout!Revisions' /\ Rollout!Installable'
  BY <1>1 DEF Rollout!ReplicasVerified, Rollout!Revisions, Rollout!Current,
     Rollout!Installable, Rollout!ReleaseURLs, Rollout!Artifact
<1> QED  BY <1>6, <1>8, <1>9

\* A copy is recorded: neither its source nor its release was saved since they were read.
LEMMA RolloutRecord ==
  ASSUME Rollout!Supported, NEW t \in Transfer, Rollout!RecordReplica(t)
  PROVE  Rollout!Supported'
<1> USE DEF Rollout!Supported, Rollout!Inv
<1> DEFINE read == transfers[t]
           x == <<transfers[t].release, transfers[t].source>>
<1>1. UNCHANGED <<repository, releases, sources, policy, due>>
  BY DEF Rollout!RecordReplica
<1>2. /\ sources \in SourceRows /\ replicas \in [Release \X Source -> 0..MaxRevision]
      /\ transfers \in [Transfer -> Record] /\ RolloutRows
      /\ proven \in [Release \X Source -> Place \cup {0}]
  BY RolloutTypes
<1>3. read \in Record
  BY <1>2
<1>4. read # Rollout!NoTransfer
  BY DEF Rollout!RecordReplica, Rollout!NoTransfer
<1>5. /\ read.release # 0 /\ read.source # 0 /\ read.at # 0
      /\ read.at = sources[read.source].revision
      /\ read.place = sources[read.source].place
  BY <1>4 DEF Rollout!Reading, Rollout!RecordReplica, Rollout!Unchanged
<1>6. /\ read.release \in Release /\ read.source \in Source /\ x \in Release \X Source
      /\ read.at \in 0..MaxRevision /\ read.place \in Place \cup {0}
  BY <1>3, <1>5 DEF Record
<1>7. /\ replicas' = [replicas EXCEPT ![x] = read.at]
      /\ proven' = [proven EXCEPT ![x] = read.place]
      /\ transfers' = [transfers EXCEPT ![t] = Rollout!NoTransfer]
  BY DEF Rollout!RecordReplica
<1>8. Rollout!NoTransfer \in Record
  BY DEF Rollout!NoTransfer, Record
<1> HIDE DEF read, x
<1>9. /\ replicas' \in [Release \X Source -> 0..MaxRevision]
      /\ transfers' \in [Transfer -> Record]
      /\ proven' \in [Release \X Source -> Place \cup {0}]
  BY <1>2, <1>6, <1>7, <1>8
<1>10. Rollout!TypeOK'
  BY <1>1, <1>2, <1>9, RolloutTypes DEF Rollout!TypeOK, RolloutRows, SourceRows, Record
<1> DEFINE Recorded(r, s) ==
             /\ <<r, s>> # x => /\ replicas'[<<r, s>>] = replicas[<<r, s>>]
                                /\ proven'[<<r, s>>] = proven[<<r, s>>]
             /\ <<r, s>> = x => /\ replicas'[<<r, s>>] = sources[s].revision
                                /\ proven'[<<r, s>>] = sources[s].place
                                /\ replicas'[<<r, s>>] > 0
<1>11. \A r \in Release, s \in Source : Recorded(r, s)
  <2> SUFFICES ASSUME NEW r \in Release, NEW s \in Source
               PROVE  Recorded(r, s)
    OBVIOUS
  <2>1. CASE <<r, s>> = x
    <3>1. s = read.source
      BY <2>1 DEF x, read
    <3> QED  BY <1>2, <1>5, <1>6, <1>7, <2>1, <3>1
  <2>2. CASE <<r, s>> # x
    BY <1>2, <1>7, <2>2
  <2> QED  BY <2>1, <2>2
<1>12. \A s \in Source : sources[s].revision \in Nat
  BY <1>2 DEF SourceRows
<1>13. Rollout!Revisions'
  <2> SUFFICES ASSUME NEW r \in Release, NEW s \in Source
               PROVE  replicas'[<<r, s>>] <= sources[s].revision
    BY <1>1 DEF Rollout!Revisions
  <2> QED  BY <1>11, <1>12 DEF Rollout!Revisions
<1>14. Rollout!ReplicasVerified'
  BY <1>1, <1>11 DEF Rollout!ReplicasVerified, Rollout!Current
<1>15. \A o \in Transfer : transfers'[o] = transfers[o] \/ transfers'[o] = Rollout!NoTransfer
  BY <1>2, <1>7
<1>16. Rollout!Reading'
  BY <1>1, <1>15 DEF Rollout!Reading, Rollout!NoTransfer
<1>17. \A r \in Release : Rollout!ReleaseURLs(r, sources, replicas)
                           \subseteq Rollout!ReleaseURLs(r, sources, replicas')
  BY <1>11 DEF Rollout!ReleaseURLs, Rollout!Current
<1>18. policy.release # 0 => Rollout!ReleaseURLs(policy.release, sources, replicas') # {}
  <2>1. policy.release # 0 => policy.release \in Release
    BY <1>2 DEF RolloutRows
  <2> QED  BY <1>17, <2>1 DEF Rollout!Installable
<1>19. Rollout!Installable'
  BY <1>1, <1>18 DEF Rollout!Installable, Rollout!ReleaseURLs, Rollout!Current,
     Rollout!Artifact
<1> QED  BY <1>10, <1>13, <1>14, <1>16, <1>19

LEMMA RolloutStep ==
  ASSUME Rollout!Supported, Rollout!Next
  PROVE  Rollout!Supported'
<1>1. CASE Rollout!SaveRepository \/ Rollout!Expire
  BY <1>1, RolloutMetadata
<1>2. CASE \E r \in Release : \/ Rollout!CreateRelease(r)
                              \/ \E state \in Rollout!State \ {"none"} :
                                    Rollout!SaveRelease(r, state)
  BY <1>2, RolloutReleases
<1>3. CASE \E s \in Source, place \in Place, enabled, rekeyed \in BOOLEAN :
             Rollout!SaveSource(s, place, enabled, rekeyed)
  BY <1>3, RolloutSources
<1>4. CASE Rollout!ComesDue
           \/ \E r, minimum \in Release \cup {0} : Rollout!SavePolicy(r, minimum)
  BY <1>4, RolloutPolicy
<1>5. CASE \E t \in Transfer : \/ \E r \in Release, s \in Source : Rollout!BeginReplica(t, r, s)
                               \/ Rollout!VerifyReplica(t) \/ Rollout!FailReplica(t)
  BY <1>5, RolloutTransfers
<1>6. CASE \E t \in Transfer : Rollout!RecordReplica(t)
  BY <1>6, RolloutRecord
<1> QED  BY <1>1, <1>2, <1>3, <1>4, <1>5, <1>6 DEF Rollout!Next

\* What the policy names is offered, with an address and signed metadata, to every device it
\* shuts out whose agent is older, and lets in those that are not.
LEMMA RolloutOffers ==
  ASSUME Rollout!Supported PROVE Rollout!RequiredCanUpdate
<1> USE DEF Rollout!Supported, Rollout!Inv
<1> SUFFICES ASSUME NEW v \in Rollout!Version, NEW reports \in Rollout!Reports,
                    Rollout!Required(reports)
             PROVE  LET target == IF v < policy.release THEN Rollout!CheckUpdate(v) ELSE v
                    IN  /\ v < policy.release => Rollout!Fetchable(target)
                        /\ ~Rollout!Required({Rollout!Report(target, {target})})
  BY DEF Rollout!RequiredCanUpdate
<1> DEFINE target == IF v < policy.release THEN Rollout!CheckUpdate(v) ELSE v
<1>1. policy.release \in Rollout!Version /\ policy.minimum \in Nat /\ policy.release \in Nat
      /\ v \in Nat
  <2>1. policy.release \in Release \cup {0} /\ policy.minimum \in Release \cup {0}
    BY RolloutTypes DEF RolloutRows
  <2>2. \A x \in Release \cup {0} : x \in Nat
    OBVIOUS
  <2> QED  BY <2>1, <2>2 DEF Rollout!Version
<1>2. policy.minimum # 0
  BY DEF Rollout!Required
<1>3. /\ policy.release \in Release
      /\ releases[policy.release].state = "published" /\ policy.minimum <= policy.release
      /\ Rollout!ReleaseURLs(policy.release, sources, replicas) # {}
      /\ repository.targets[policy.release] = releases[policy.release].artifact
  BY <1>1, <1>2 DEF Rollout!Installable, Rollout!Artifact, Rollout!Version
<1>4. repository.fresh => policy.release \in Rollout!Downloads
  BY <1>3 DEF Rollout!Downloads, Rollout!VerifyReleaseMetadata, Rollout!VerifyRepository,
     Rollout!Artifact
<1>5. Rollout!Fetchable(policy.release)
  BY <1>3, <1>4 DEF Rollout!Fetchable
<1>6. policy.release # 0
  BY <1>1, <1>2, <1>3
<1>7. target = IF v < policy.release THEN policy.release ELSE v
  BY <1>3, <1>6 DEF Rollout!CheckUpdate
<1>8. target \in Nat /\ policy.minimum <= target
  BY <1>1, <1>3, <1>7
<1>9. ~Rollout!Required({Rollout!Report(target, {target})})
  <2> HIDE DEF target
  <2>1. Rollout!Report(target, {target}) = [agent |-> target, gui |-> {target}]
    BY DEF Rollout!Report
  <2>2. ~(target < policy.minimum)
    BY <1>1, <1>8
  <2> QED  BY <2>1, <2>2 DEF Rollout!Required
<1> QED  BY <1>5, <1>7, <1>9

HIDE RolloutAssumption

-----------------------------------------------------------------------------
(* The LAN device.                                                           *)

USE LanAssumption

LEMMA NextInSlot ==
  ASSUME NEW w \in Nat \ {0}, NEW a \in Nat, NEW b \in Nat, a < b, a % w = b % w
  PROVE  a + w <= b
<1> DEFINE p == a \div w
           q == b \div w
           r == a % w
<1>1. a = w * p + r /\ b = w * q + r /\ p \in Nat /\ q \in Nat /\ r \in Nat
  BY SMT
<1> HIDE DEF p, q, r
<1>2. p < q
  <2> SUFFICES ASSUME q <= p PROVE FALSE
    BY <1>1
  <2>1. w * q <= w * p
    BY <1>1
  <2> QED  BY <1>1, <2>1
<1>3. w * (p + 1) <= w * q
  BY <1>1, <1>2
<1>4. w * (p + 1) = w * p + w
  BY <1>1
<1> QED  BY <1>1, <1>3, <1>4

\* A window has as many slots as it remembers numbers.
LEMMA WindowHolds ==
  ASSUME NEW S \in SUBSET (1..MaxSeq), \A a, b \in S : a % Window = b % Window => a = b
  PROVE  IsFiniteSet(S) /\ Cardinality(S) <= Window
<1> DEFINE slot == [k \in S |-> k % Window]
           T == 0..(Window - 1)
<1>1. \A k \in S : k % Window \in T
  OBVIOUS
<1>2. slot \in Injection(S, T)
  BY <1>1 DEF Injection, IsInjective
<1>3. IsFiniteSet(T) /\ Cardinality(T) = Window
  BY FS_Interval
<1> HIDE DEF slot, T
<1>4. IsFiniteSet(S) /\ Cardinality(S) <= Cardinality(T)
  BY <1>2, <1>3, FS_Injection
<1> QED  BY <1>3, <1>4

SeqWindow == [seqs: SUBSET (1..MaxSeq), highest: 0..MaxSeq]

\* A number that was not refused is remembered, and all that were refused still are.
LEMMA Remembering ==
  ASSUME Lan!Windows, NEW p \in Peer, NEW n \in 1..MaxSeq, ~Lan!Replayed(p, n)
  PROVE  LET s == Lan!Remembered(p, n)
         IN  /\ s \in SeqWindow
             /\ \A a, b \in s.seqs : a <= s.highest /\ (a % Window = b % Window => a = b)
             /\ n \in s.seqs
             /\ \A k \in 1..MaxSeq : Lan!Replayed(p, k) => k \in s.seqs \/ k + Window <= s.highest
<1> DEFINE w == seen[p]
           s == Lan!Remembered(p, n)
           others == {k \in w.seqs : k % Window # n % Window}
           highest == IF n > w.highest THEN n ELSE w.highest
<1>1. /\ w.seqs \in SUBSET (1..MaxSeq) /\ w.highest \in 0..MaxSeq
      /\ \A a, b \in w.seqs : a <= w.highest /\ (a % Window = b % Window => a = b)
  BY DEF Lan!Windows
<1>2. s = [seqs |-> others \cup {n}, highest |-> highest]
  BY DEF Lan!Remembered
<1>3. n \notin w.seqs /\ ~(n + Window <= w.highest)
  BY DEF Lan!Replayed
<1> HIDE DEF w, s
<1>4. highest \in 0..MaxSeq /\ n <= highest /\ w.highest <= highest
  BY <1>1
<1>5. s \in SeqWindow /\ s.seqs = others \cup {n} /\ s.highest = highest /\ n \in s.seqs
  BY <1>1, <1>2, <1>4 DEF SeqWindow
<1>6. ASSUME NEW a \in s.seqs, NEW b \in s.seqs
      PROVE  a <= s.highest /\ (a % Window = b % Window => a = b)
  <2>1. a = n \/ (a \in w.seqs /\ a % Window # n % Window)
    BY <1>5
  <2>2. b = n \/ (b \in w.seqs /\ b % Window # n % Window)
    BY <1>5
  <2>3. a <= s.highest
    BY <1>1, <1>4, <1>5, <2>1
  <2>4. a % Window = b % Window => a = b
    BY <1>1, <2>1, <2>2
  <2> QED  BY <2>3, <2>4
<1>7. ASSUME NEW k \in 1..MaxSeq, Lan!Replayed(p, k)
      PROVE  k \in s.seqs \/ k + Window <= s.highest
  <2>1. CASE k + Window <= w.highest
    BY <1>1, <1>4, <1>5, <2>1
  <2>2. CASE k \in w.seqs /\ k % Window # n % Window
    BY <1>5, <2>2
  <2>3. CASE k \in w.seqs /\ k % Window = n % Window
    <3>1. k < n
      <4>1. k # n /\ k <= w.highest
        BY <1>1, <1>3, <2>3
      <4>2. n < k => n + Window <= k
        BY <2>3, NextInSlot
      <4> QED  BY <1>1, <1>3, <4>1, <4>2
    <3>2. k \in Nat /\ n \in Nat /\ Window \in Nat \ {0} /\ k % Window = n % Window
      BY <2>3
    <3>3. k + Window <= n
      BY <3>1, <3>2, NextInSlot
    <3> QED  BY <1>4, <1>5, <3>3
  <2> QED  BY <1>7, <2>1, <2>2, <2>3 DEF Lan!Replayed, w
<1> QED  BY <1>5, <1>6, <1>7 DEF s

LEMMA LanSets ==
  \A S : Lan!IsFiniteSet(S) = IsFiniteSet(S) /\ Lan!Cardinality(S) = Cardinality(S)
<1> TAKE S
<1>1. Lan!IsFiniteSet(S) = IsFiniteSet(S)
  BY DEF IsFiniteSet, Lan!IsFiniteSet
<1>2. Lan!Cardinality(S) = Cardinality(S)
  BY DEF Cardinality, Lan!Cardinality
<1> QED  BY <1>1, <1>2

Waiter == [flow: Lan!Flow, generation: 0..MaxUpdates]
Writer == [key: Lan!Key, generation: 0..MaxUpdates]
PolicyHeld ==
  /\ generation \in 0..MaxUpdates /\ revision \in 0..MaxUpdates
  /\ ports \subseteq Port /\ members \subseteq Peer /\ fresh \subseteq members
  /\ own \in BOOLEAN /\ locked \in BOOLEAN
FlowsHeld == flows \subseteq Lan!Flow /\ IsFiniteSet(flows) /\ Cardinality(flows) <= FlowLimit
ChunksHeld == frames \in [Lan!Key -> SUBSET {1, 2}]
QueueHeld ==
  /\ pending \in Seq(Waiter) /\ Len(pending) <= QueueLimit
  /\ \A i \in 1..Len(pending) : pending[i].generation <= generation
WriterHeld ==
  /\ writing \in Writer \cup {<<>>}
  /\ writing # <<>> => writing.generation <= generation
LedgerHeld == sent \in [Lan!Key -> Sends \cup {<<>>}] /\ tap \in [Lan!Key -> {0, 1}]

LanParts ==
  /\ PolicyHeld /\ FlowsHeld /\ ChunksHeld /\ Lan!Windows /\ QueueHeld /\ WriterHeld
  /\ LedgerHeld /\ Lan!Refused /\ Lan!FlowsJustified /\ Lan!CheckedInForce /\ ~breach

LEMMA LanHeld == Lan!Guarded <=> LanParts
<1>1. ASSUME Lan!Windows, NEW p \in Peer
      PROVE  seen[p].seqs \subseteq 1..MaxSeq /\ Cardinality(seen[p].seqs) <= Window
  <2>1. /\ seen[p].seqs \in SUBSET (1..MaxSeq)
        /\ \A a, b \in seen[p].seqs : a % Window = b % Window => a = b
    BY <1>1 DEF Lan!Windows
  <2> QED  BY <2>1, WindowHolds
<1>2. Lan!Windows => (Lan!TypeOK <=>
        /\ PolicyHeld /\ flows \subseteq Lan!Flow /\ Cardinality(flows) <= FlowLimit
        /\ ChunksHeld /\ Len(pending) <= QueueLimit)
  BY <1>1, LanSets DEF Lan!TypeOK, PolicyHeld, ChunksHeld
<1>3. Lan!Waiting <=>
        /\ IsFiniteSet(flows) /\ WriterHeld /\ LedgerHeld /\ pending \in Seq(Waiter)
        /\ \A i \in 1..Len(pending) : pending[i].generation <= generation
  BY LanSets DEF Lan!Waiting, WriterHeld, LedgerHeld, Waiter, Writer, Lan!NoFrame
<1> QED  BY <1>2, <1>3 DEF Lan!Guarded, LanParts, FlowsHeld, QueueHeld

LEMMA LanHeldNext == (Lan!Guarded <=> LanParts)'
BY LanHeld, PTL

LEMMA LanInit == Lan!Init => Lan!Guarded
<1> SUFFICES ASSUME Lan!Init PROVE Lan!Guarded
  OBVIOUS
<1>1. PolicyHeld /\ ChunksHeld
  <2>1. /\ generation = 0 /\ revision = 0 /\ ports = {} /\ members = {} /\ fresh = {}
        /\ own = FALSE /\ locked = FALSE
    BY DEF Lan!Init
  <2>2. 0 \in 0..MaxUpdates
    OBVIOUS
  <2>3. ChunksHeld
    BY DEF Lan!Init, ChunksHeld
  <2> QED  BY <2>1, <2>2, <2>3 DEF PolicyHeld
<1>2. FlowsHeld
  BY FS_EmptySet DEF Lan!Init, FlowsHeld
<1>3. Lan!Windows
  <2>1. Lan!NoWindow \in [seqs: SUBSET (1..MaxSeq), highest: 0..MaxSeq]
    BY DEF Lan!NoWindow
  <2>2. \A p \in Peer : seen[p].seqs = {}
    BY DEF Lan!Init, Lan!NoWindow
  <2> QED  BY <2>1, <2>2 DEF Lan!Init, Lan!Windows
<1>4. QueueHeld /\ WriterHeld /\ LedgerHeld
  BY DEF Lan!Init, QueueHeld, WriterHeld, LedgerHeld, Lan!NoFrame
<1>5. Lan!Refused /\ Lan!FlowsJustified /\ Lan!CheckedInForce
  BY DEF Lan!Init, Lan!Refused, Lan!Accepted, Lan!FlowsJustified, Lan!CheckedInForce
<1> QED  BY <1>1, <1>2, <1>3, <1>4, <1>5, LanHeld DEF Lan!Init, LanParts

\* The policy is replaced: what was checked under the last one is not current, and what was
\* accepted under it is of its game or of an earlier one.
LEMMA LanUpdate ==
  ASSUME Lan!Guarded, NEW rev \in 1..MaxUpdates, NEW q \in Port, NEW who \in SUBSET Peer,
         Lan!Update(rev, {q}, who)
  PROVE  Lan!Guarded'
<1>1. /\ UNCHANGED <<pending, writing, locked, sent, tap, breach>>
      /\ ~locked /\ generation < MaxUpdates
      /\ generation' = generation + 1 /\ revision' = rev /\ ports' = {q}
      /\ members' = who /\ fresh' = who /\ own' = TRUE
      /\ rev = revision => ports' = ports
      /\ rev \in {revision, revision + 1}
  BY DEF Lan!Update, Lan!history
<1>2. /\ PolicyHeld /\ FlowsHeld /\ ChunksHeld /\ Lan!Windows /\ QueueHeld /\ WriterHeld
      /\ LedgerHeld /\ Lan!Refused /\ Lan!FlowsJustified /\ ~breach
  BY LanHeld DEF LanParts
<1>3. \/ flows' = flows /\ rev = revision /\ who = members
      \/ flows' = {}
  BY DEF Lan!Update, Lan!FlowsAfter
<1>4. frames' = frames \/ frames' = [k \in Lan!Key |-> {}]
  BY DEF Lan!Update
<1>5. \/ seen' = seen /\ rev = revision
      \/ seen' = [p \in Peer |-> Lan!NoWindow] /\ rev = revision + 1
  BY <1>1 DEF Lan!Update
<1>6. generation \in Nat /\ revision \in Nat
  BY <1>2 DEF PolicyHeld
<1>7. PolicyHeld'
  BY <1>1, <1>2 DEF PolicyHeld
<1>8. FlowsHeld'
  BY <1>2, <1>3, FS_EmptySet DEF FlowsHeld
<1>9. ChunksHeld'
  BY <1>2, <1>4 DEF ChunksHeld
<1>10. Lan!Windows'
  <2>1. CASE seen' = seen
    BY <1>2, <2>1 DEF Lan!Windows
  <2>2. CASE seen' = [p \in Peer |-> Lan!NoWindow]
    <3>1. Lan!NoWindow \in [seqs: SUBSET (1..MaxSeq), highest: 0..MaxSeq]
      BY DEF Lan!NoWindow
    <3>2. \A p \in Peer : seen'[p].seqs = {}
      BY <2>2 DEF Lan!NoWindow
    <3> QED  BY <2>2, <3>1, <3>2 DEF Lan!Windows
  <2> QED  BY <1>5, <2>1, <2>2
<1>11. \A i \in 1..Len(pending) : pending[i].generation < generation'
  <2> SUFFICES ASSUME NEW i \in 1..Len(pending) PROVE pending[i].generation < generation'
    OBVIOUS
  <2>1. pending[i] \in Waiter /\ pending[i].generation <= generation
    BY <1>2 DEF QueueHeld
  <2> QED  BY <1>1, <1>6, <2>1 DEF Waiter
<1>12. writing # <<>> => writing.generation < generation'
  BY <1>1, <1>2, <1>6 DEF WriterHeld, Writer
<1>13. QueueHeld'
  <2>1. ASSUME NEW i \in 1..Len(pending) PROVE pending[i].generation <= generation'
    <3>1. pending[i] \in Waiter
      BY <1>2 DEF QueueHeld
    <3>2. pending[i].generation \in Nat /\ pending[i].generation < generation'
      BY <1>11, <3>1 DEF Waiter
    <3> QED  BY <1>1, <1>6, <3>2
  <2> QED  BY <1>1, <1>2, <2>1 DEF QueueHeld
<1>14. WriterHeld' /\ LedgerHeld'
  BY <1>1, <1>2, <1>6, <1>12 DEF WriterHeld, LedgerHeld, Writer
<1>15. Lan!Refused'
  <2>1. ASSUME NEW k \in Lan!Key, Lan!Accepted(k)
        PROVE  /\ sent[k] # <<>> /\ sent[k].revision <= revision'
               /\ sent[k].revision = revision' => Lan!Replayed(k[1], k[2])'
    <3>1. /\ sent[k] # <<>> /\ sent[k].revision <= revision
          /\ sent[k].revision = revision => Lan!Replayed(k[1], k[2])
      BY <1>2, <2>1 DEF Lan!Refused, Lan!NoFrame
    <3>2. sent[k].revision \in Nat
      BY <1>2, <3>1 DEF LedgerHeld
    <3>3. CASE seen' = seen /\ rev = revision
      BY <1>1, <3>1, <3>3 DEF Lan!Replayed
    <3>4. CASE rev = revision + 1
      BY <1>1, <1>6, <3>1, <3>2, <3>4
    <3> QED  BY <1>5, <3>3, <3>4
  <2>2. \A k \in Lan!Key : Lan!Accepted(k)' <=> Lan!Accepted(k)
    BY <1>1 DEF Lan!Accepted, Lan!NoFrame
  <2> QED  BY <1>1, <1>2, <2>1, <2>2 DEF Lan!Refused, Lan!NoFrame
<1>16. Lan!FlowsJustified'
  BY <1>1, <1>2, <1>3 DEF Lan!FlowsJustified, Lan!InForce
<1>17. Lan!CheckedInForce'
  <2>1. \A i \in 1..Len(pending) : pending[i].generation # generation'
    BY <1>11, <1>2, <1>6, <1>1 DEF QueueHeld, Waiter
  <2>2. writing # <<>> => writing.generation # generation'
    BY <1>12, <1>2, <1>6, <1>1 DEF WriterHeld, Writer
  <2> QED  BY <1>1, <2>1, <2>2 DEF Lan!CheckedInForce, Lan!NoFrame
<1>18. ~breach'
  BY <1>1, <1>2
<1> QED  BY <1>7, <1>8, <1>9, <1>10, <1>13, <1>14, <1>15, <1>16, <1>17, <1>18,
         LanHeldNext DEF LanParts

\* What the state has after a step that leaves the windows, the frames sent and those written
\* alone, and the policy but for those heard of.
LEMMA LanQuiet ==
  ASSUME LanParts,
         UNCHANGED <<generation, revision, ports, members, seen, writing, locked, sent, tap>>
  PROVE  Lan!Windows' /\ WriterHeld' /\ LedgerHeld' /\ Lan!Refused'
         /\ (Lan!FlowsJustified <=> \A f \in flows : Lan!InForce(f)')
<1>1. Lan!Windows' /\ WriterHeld' /\ LedgerHeld'
  BY DEF LanParts, Lan!Windows, WriterHeld, LedgerHeld
<1>2. Lan!Refused'
  BY DEF LanParts, Lan!Refused, Lan!Accepted, Lan!Replayed, Lan!NoFrame
<1>3. \A f : Lan!InForce(f)' <=> Lan!InForce(f)
  BY DEF Lan!InForce
<1> QED  BY <1>1, <1>2, <1>3 DEF Lan!FlowsJustified

\* A member is not heard of, the device ends, or a flow or an unfinished frame expires.
LEMMA LanExpires ==
  ASSUME Lan!Guarded,
         \/ \E p \in Peer : Lan!Lapses(p)
         \/ Lan!Ends
         \/ \E f \in flows : Lan!FlowExpires(f)
         \/ \E k \in Lan!Key : Lan!FrameExpires(k)
  PROVE  Lan!Guarded'
<1>1. LanParts
  BY LanHeld
<1>2. /\ UNCHANGED <<generation, revision, ports, members, seen, pending, writing, locked,
                     sent, tap, breach>>
      /\ fresh' \subseteq fresh /\ own' \in {own, FALSE} /\ flows' \subseteq flows
      /\ frames' = frames \/ \E k \in Lan!Key : frames' = [frames EXCEPT ![k] = {}]
  BY DEF Lan!Lapses, Lan!Ends, Lan!FlowExpires, Lan!FrameExpires, Lan!policy, Lan!inbound,
     Lan!history
<1>3. Lan!Windows' /\ WriterHeld' /\ LedgerHeld' /\ Lan!Refused'
  BY <1>1, <1>2, LanQuiet
<1>4. PolicyHeld'
  <2>1. own' \in BOOLEAN
    BY <1>1, <1>2, Zenon DEF LanParts, PolicyHeld
  <2> QED  BY <1>1, <1>2, <2>1 DEF LanParts, PolicyHeld
<1>5. FlowsHeld'
  <2>1. /\ flows \subseteq Lan!Flow /\ IsFiniteSet(flows) /\ Cardinality(flows) <= FlowLimit
        /\ flows' \in SUBSET flows
    BY <1>1, <1>2 DEF LanParts, FlowsHeld
  <2>2. IsFiniteSet(flows') /\ Cardinality(flows') <= Cardinality(flows)
    BY <2>1, FS_Subset
  <2>3. Cardinality(flows) \in Nat /\ Cardinality(flows') \in Nat
    BY <2>1, <2>2, FS_CardinalityType
  <2> QED  BY <2>1, <2>2, <2>3 DEF FlowsHeld
<1>6. ChunksHeld'
  BY <1>1, <1>2 DEF LanParts, ChunksHeld
<1>7. QueueHeld' /\ ~breach'
  BY <1>1, <1>2 DEF LanParts, QueueHeld
<1>8. Lan!FlowsJustified' /\ Lan!CheckedInForce'
  BY <1>1, <1>2 DEF LanParts, Lan!FlowsJustified, Lan!InForce, Lan!CheckedInForce, Lan!FlowOf,
     Lan!NoFrame
<1> QED  BY <1>3, <1>4, <1>5, <1>6, <1>7, <1>8, LanHeldNext DEF LanParts

\* What is permitted is covered by the policy in force, and so is its answer.
LEMMA Admitting ==
  ASSUME LanParts, NEW f \in Lan!Flow, Lan!Permitted(f)
  PROVE  LET after == Lan!Admitted(f)
         IN  /\ Lan!InForce(f) /\ \A g \in after : Lan!InForce(g)
             /\ after \subseteq Lan!Flow /\ IsFiniteSet(after) /\ Cardinality(after) <= FlowLimit
<1> DEFINE after == Lan!Admitted(f)
<1>1. f.peer \in Peer /\ f.src \in Port /\ f.dst \in Port /\ f.dir \in {"in", "out"}
  BY DEF Lan!Flow
<1>2. Lan!InForce(f)
  BY DEF LanParts, PolicyHeld, Lan!Permitted, Lan!InForce, Lan!FlowsJustified
<1>3. Lan!Reverse(f) \in Lan!Flow /\ Lan!InForce(Lan!Reverse(f))
  BY <1>1, <1>2 DEF Lan!Reverse, Lan!Flow, Lan!InForce
<1>4. \/ after = flows
      \/ after = flows \cup {Lan!Reverse(f)} /\ Cardinality(flows) < FlowLimit
  BY LanSets DEF Lan!Admitted
<1> HIDE DEF after
<1>5. \A g \in after : Lan!InForce(g)
  BY <1>3, <1>4 DEF LanParts, Lan!FlowsJustified
<1>6. after \subseteq Lan!Flow
  BY <1>3, <1>4 DEF LanParts, FlowsHeld
<1>7. IsFiniteSet(after) /\ Cardinality(after) <= FlowLimit
  <2>1. /\ IsFiniteSet(flows) /\ Cardinality(flows) <= FlowLimit
        /\ Cardinality(flows) \in Nat
    BY FS_CardinalityType DEF LanParts, FlowsHeld
  <2>2. CASE after = flows
    BY <2>1, <2>2
  <2>3. CASE after = flows \cup {Lan!Reverse(f)} /\ Cardinality(flows) < FlowLimit
    <3>1. /\ IsFiniteSet(after)
          /\ Cardinality(after) \in {Cardinality(flows), Cardinality(flows) + 1}
      BY <2>1, <2>3, FS_AddElement
    <3> QED  BY <2>1, <2>3, <3>1
  <2> QED  BY <1>4, <2>2, <2>3
<1> QED  BY <1>2, <1>5, <1>6, <1>7 DEF after

\* A frame of the host is checked and queued under the generation it was checked in.
LEMMA LanHostSends ==
  ASSUME Lan!Guarded, NEW f \in Lan!Flow, Lan!HostSends(f)
  PROVE  Lan!Guarded'
<1> DEFINE waiter == [flow |-> f, generation |-> generation]
<1>1. LanParts
  BY LanHeld
<1>2. /\ UNCHANGED <<generation, revision, ports, members, fresh, own, frames, seen, writing,
                     locked, sent, tap, breach>>
      /\ Lan!Permitted(f) /\ flows' = Lan!Admitted(f)
      /\ pending' = pending \/ (Len(pending) + 2 <= QueueLimit
                                /\ pending' = Append(pending, waiter))
  <2>1. Len(pending) \in Nat
    BY <1>1 DEF LanParts, QueueHeld
  <2> QED  BY <2>1 DEF Lan!HostSends, Lan!policy, Lan!inbound, Lan!history
<1>3. Lan!Windows' /\ WriterHeld' /\ LedgerHeld' /\ Lan!Refused'
  BY <1>1, <1>2, LanQuiet
<1>4. PolicyHeld' /\ ChunksHeld' /\ ~breach'
  BY <1>1, <1>2 DEF LanParts, PolicyHeld, ChunksHeld
<1>5. Lan!InForce(f) /\ FlowsHeld' /\ \A g \in flows' : Lan!InForce(g)
  BY <1>1, <1>2, Admitting DEF FlowsHeld
<1>6. Lan!FlowsJustified'
  BY <1>2, <1>5 DEF Lan!FlowsJustified, Lan!InForce
<1>7. waiter \in Waiter /\ waiter.generation = generation /\ waiter.flow = f
  BY <1>1 DEF LanParts, PolicyHeld, Waiter
<1>8. generation \in Nat /\ pending \in Seq(Waiter) /\ Len(pending) \in Nat
      /\ Len(pending) <= QueueLimit
  BY <1>1 DEF LanParts, PolicyHeld, QueueHeld
<1> HIDE DEF waiter
<1>9. /\ pending' \in Seq(Waiter) /\ Len(pending') <= QueueLimit
      /\ \A i \in 1..Len(pending') : pending'[i] = waiter
                                     \/ (i \in 1..Len(pending) /\ pending'[i] = pending[i])
  <2>1. CASE pending' = pending
    BY <1>8, <2>1
  <2>2. CASE Len(pending) + 2 <= QueueLimit /\ pending' = Append(pending, waiter)
    <3>1. pending' \in Seq(Waiter) /\ Len(pending') = Len(pending) + 1
      BY <1>7, <1>8, <2>2
    <3>2. \A i \in 1..Len(pending') : IF i = Len(pending) + 1 THEN pending'[i] = waiter
                                      ELSE pending'[i] = pending[i]
      BY <1>7, <1>8, <2>2
    <3> QED  BY <1>8, <2>2, <3>1, <3>2
  <2> QED  BY <1>2, <2>1, <2>2
<1>10. QueueHeld'
  <2>1. ASSUME NEW i \in 1..Len(pending') PROVE pending'[i].generation <= generation'
    BY <1>1, <1>2, <1>7, <1>8, <1>9 DEF LanParts, QueueHeld
  <2> QED  BY <1>9, <2>1 DEF QueueHeld
<1>11. Lan!CheckedInForce'
  <2>1. ASSUME NEW i \in 1..Len(pending'), pending'[i].generation = generation
        PROVE  Lan!InForce(pending'[i].flow)
    BY <1>1, <1>5, <1>7, <1>9, <2>1 DEF LanParts, Lan!CheckedInForce
  <2>2. \A g : Lan!InForce(g)' <=> Lan!InForce(g)
    BY <1>2 DEF Lan!InForce
  <2> QED  BY <1>1, <1>2, <2>1, <2>2 DEF LanParts, Lan!CheckedInForce, Lan!FlowOf, Lan!NoFrame
<1> QED  BY <1>3, <1>4, <1>5, <1>6, <1>10, <1>11, LanHeldNext DEF LanParts

\* The next packet goes out if its generation is the one in force, and is dropped if not.
LEMMA LanReadNext ==
  ASSUME Lan!Guarded, Lan!ReadNext
  PROVE  Lan!Guarded'
<1>1. LanParts
  BY LanHeld
<1>2. /\ UNCHANGED <<generation, revision, ports, members, fresh, own, flows, frames, seen,
                     writing, locked, sent, tap>>
      /\ pending # <<>> /\ pending' = Tail(pending)
      /\ breach' = (breach \/ (Lan!Current(Head(pending)) /\ ~Lan!InForce(Head(pending).flow)))
  BY DEF Lan!ReadNext, Lan!policy, Lan!inbound
<1>3. Lan!Windows' /\ WriterHeld' /\ LedgerHeld' /\ Lan!Refused'
  BY <1>1, <1>2, LanQuiet
<1>4. PolicyHeld' /\ ChunksHeld' /\ FlowsHeld'
  BY <1>1, <1>2 DEF LanParts, PolicyHeld, ChunksHeld, FlowsHeld
<1>5. pending \in Seq(Waiter) /\ Len(pending) <= QueueLimit
  BY <1>1 DEF LanParts, QueueHeld
<1>6. Head(pending) = pending[1] /\ 1 \in 1..Len(pending)
  BY <1>2, <1>5
<1>7. ~breach'
  <2>1. ~(Lan!Current(Head(pending)) /\ ~Lan!InForce(Head(pending).flow))
    BY <1>1, <1>6 DEF LanParts, Lan!CheckedInForce, Lan!Current
  <2> QED  BY <1>1, <1>2, <2>1 DEF LanParts
<1>8. /\ pending' \in Seq(Waiter) /\ Len(pending') <= QueueLimit
      /\ \A i \in 1..Len(pending') : i + 1 \in 1..Len(pending) /\ pending'[i] = pending[i + 1]
  BY <1>2, <1>5
<1>9. QueueHeld'
  <2>1. ASSUME NEW i \in 1..Len(pending') PROVE pending'[i].generation <= generation'
    BY <1>1, <1>2, <1>8 DEF LanParts, QueueHeld
  <2> QED  BY <1>8, <2>1 DEF QueueHeld
<1>10. Lan!CheckedInForce' /\ Lan!FlowsJustified'
  <2>1. ASSUME NEW i \in 1..Len(pending'), pending'[i].generation = generation
        PROVE  Lan!InForce(pending'[i].flow)
    BY <1>1, <1>8, <2>1 DEF LanParts, Lan!CheckedInForce
  <2>2. \A g : Lan!InForce(g)' <=> Lan!InForce(g)
    BY <1>2 DEF Lan!InForce
  <2> QED  BY <1>1, <1>2, <2>1, <2>2 DEF LanParts, Lan!CheckedInForce, Lan!FlowsJustified,
           Lan!FlowOf, Lan!NoFrame
<1> QED  BY <1>3, <1>4, <1>7, <1>9, <1>10, LanHeldNext DEF LanParts

\* A peer sends its next frame: none of its frames accepted so far.
LEMMA LanPeerSends ==
  ASSUME Lan!Guarded, NEW p \in Peer, NEW n \in 1..MaxSeq, NEW s \in Sends,
         Lan!PeerSends(p, n, s)
  PROVE  Lan!Guarded'
<1> DEFINE k == <<p, n>>
<1>1. LanParts
  BY LanHeld
<1>2. /\ UNCHANGED <<generation, revision, ports, members, fresh, own, flows, frames, seen,
                     pending, writing, locked, tap, breach>>
      /\ sent[k] = <<>> /\ sent' = [sent EXCEPT ![k] = s]
  BY DEF Lan!PeerSends, Lan!policy, Lan!inbound, Lan!history, Lan!NoFrame
<1>3. /\ PolicyHeld' /\ FlowsHeld' /\ ChunksHeld' /\ Lan!Windows' /\ QueueHeld' /\ WriterHeld'
      /\ Lan!FlowsJustified' /\ ~breach'
  BY <1>1, <1>2 DEF LanParts, PolicyHeld, FlowsHeld, ChunksHeld, Lan!Windows, QueueHeld,
     WriterHeld, Lan!FlowsJustified, Lan!InForce
<1>4. k \in Lan!Key
  BY DEF Lan!Key
<1> HIDE DEF k
<1>5. LedgerHeld'
  BY <1>1, <1>2, <1>4 DEF LanParts, LedgerHeld
<1>6. \A o \in Lan!Key : Lan!Accepted(o) => o # k /\ sent'[o] = sent[o]
  <2>1. \A o \in Lan!Key : o # k => sent'[o] = sent[o]
    BY <1>1, <1>2, <1>4 DEF LanParts, LedgerHeld
  <2> QED  BY <1>1, <1>2, <2>1 DEF LanParts, Lan!Refused, Lan!NoFrame
<1>7. \A o : Lan!Accepted(o)' <=> Lan!Accepted(o)
  BY <1>2 DEF Lan!Accepted, Lan!NoFrame
<1>8. Lan!Refused'
  BY <1>1, <1>2, <1>6, <1>7 DEF LanParts, Lan!Refused, Lan!Replayed, Lan!NoFrame
<1>9. writing # <<>> => sent'[writing.key] = sent[writing.key]
  <2>1. writing # <<>> => writing.key \in Lan!Key /\ Lan!Accepted(writing.key)
    BY <1>1 DEF LanParts, WriterHeld, Writer, Lan!Accepted, Lan!NoFrame
  <2> QED  BY <1>6, <2>1
<1>10. Lan!CheckedInForce'
  BY <1>1, <1>2, <1>9 DEF LanParts, Lan!CheckedInForce, Lan!InForce, Lan!FlowOf, Lan!NoFrame
<1> QED  BY <1>3, <1>5, <1>8, <1>10, LanHeldNext DEF LanParts

\* A chunk of a frame that was not refused arrives; a whole frame is remembered, and if it is
\* permitted it is written next.
LEMMA LanReceive ==
  ASSUME Lan!Guarded, NEW p \in Peer, NEW n \in 1..MaxSeq, NEW chunk \in 1..2,
         Lan!Receive(p, n, chunk)
  PROVE  Lan!Guarded'
<1> DEFINE k == <<p, n>>
           f == Lan!FlowOf(p, sent[k])
           writer == [key |-> k, generation |-> generation]
<1>1. LanParts
  BY LanHeld
<1>2. /\ UNCHANGED <<generation, revision, ports, members, fresh, own, pending, locked, sent,
                     tap, breach>>
      /\ writing = <<>> /\ sent[k] # <<>> /\ sent[k].revision = revision
      /\ ~Lan!Replayed(p, n)
  BY DEF Lan!Receive, Lan!policy, Lan!history, Lan!NoFrame
<1>3. \/ /\ \E chunks \in SUBSET {1, 2} : frames' = [frames EXCEPT ![k] = chunks]
         /\ UNCHANGED <<seen, flows, writing>>
      \/ /\ frames' = [frames EXCEPT ![k] = {}]
         /\ seen' = [seen EXCEPT ![p] = Lan!Remembered(p, n)]
         /\ \/ Lan!Permitted(f) /\ flows' = Lan!Admitted(f) /\ writing' = writer
            \/ UNCHANGED <<flows, writing>>
  <2>1. k \in Lan!Key
    BY DEF Lan!Key
  <2>2. frames[k] \cup {chunk} \in SUBSET {1, 2}
    BY <1>1, <2>1 DEF LanParts, ChunksHeld
  <2> QED  BY <2>2 DEF Lan!Receive
<1>4. k \in Lan!Key /\ k[1] = p /\ k[2] = n
  BY DEF Lan!Key
<1>5. f \in Lan!Flow
  <2>1. sent[k] \in Sends
    BY <1>1, <1>2, <1>4 DEF LanParts, LedgerHeld
  <2> QED  BY <2>1 DEF Lan!FlowOf, Lan!Flow
<1>6. writer \in Writer /\ writer.key = k /\ writer.generation = generation
  BY <1>1, <1>4 DEF LanParts, PolicyHeld, Writer
<1>7. tap[k] = 0 /\ ~Lan!Accepted(k)
  <2>1. ~Lan!Accepted(k)
    BY <1>1, <1>2, <1>4 DEF LanParts, Lan!Refused
  <2> QED  BY <1>1, <1>4, <2>1 DEF LanParts, LedgerHeld, Lan!Accepted
<1> HIDE DEF k, f, writer
<1>8. PolicyHeld' /\ QueueHeld' /\ LedgerHeld' /\ ~breach'
  BY <1>1, <1>2 DEF LanParts, PolicyHeld, QueueHeld, LedgerHeld
<1>9. ChunksHeld'
  BY <1>1, <1>3, <1>4 DEF LanParts, ChunksHeld
<1>10. /\ Lan!Remembered(p, n) \in SeqWindow
       /\ \A a, b \in Lan!Remembered(p, n).seqs :
            a <= Lan!Remembered(p, n).highest /\ (a % Window = b % Window => a = b)
       /\ n \in Lan!Remembered(p, n).seqs
       /\ \A m \in 1..MaxSeq : Lan!Replayed(p, m) =>
            m \in Lan!Remembered(p, n).seqs \/ m + Window <= Lan!Remembered(p, n).highest
  BY <1>1, <1>2, Remembering DEF LanParts
<1>11. Lan!Windows'
  <2>1. seen \in [Peer -> SeqWindow]
    BY <1>1 DEF LanParts, Lan!Windows, SeqWindow
  <2>2. CASE seen' = seen
    BY <1>1, <2>2 DEF LanParts, Lan!Windows
  <2>3. CASE seen' = [seen EXCEPT ![p] = Lan!Remembered(p, n)]
    <3>1. seen' \in [Peer -> SeqWindow]
      BY <1>10, <2>1, <2>3
    <3>2. ASSUME NEW o \in Peer, NEW a \in seen'[o].seqs, NEW b \in seen'[o].seqs
          PROVE  a <= seen'[o].highest /\ (a % Window = b % Window => a = b)
      <4>1. CASE o = p
        BY <1>10, <2>1, <2>3, <3>2, <4>1
      <4>2. CASE o # p
        <5>1. seen'[o] = seen[o]
          BY <2>1, <2>3, <4>2
        <5> QED  BY <1>1, <3>2, <5>1 DEF LanParts, Lan!Windows
      <4> QED  BY <4>1, <4>2
    <3> QED  BY <3>1, <3>2 DEF Lan!Windows, SeqWindow
  <2> QED  BY <1>3, <2>2, <2>3
<1>12. ASSUME NEW o \in Lan!Key, Lan!Replayed(o[1], o[2])
       PROVE  Lan!Replayed(o[1], o[2])'
  <2>1. seen \in [Peer -> SeqWindow]
    BY <1>1 DEF LanParts, Lan!Windows, SeqWindow
  <2>2. o[1] \in Peer /\ o[2] \in 1..MaxSeq
    BY DEF Lan!Key
  <2>3. CASE seen'[o[1]] = seen[o[1]]
    BY <1>12, <2>3 DEF Lan!Replayed
  <2>4. CASE seen' = [seen EXCEPT ![p] = Lan!Remembered(p, n)] /\ o[1] = p
    <3>1. seen'[p] = Lan!Remembered(p, n)
      BY <2>1, <2>4
    <3> QED  BY <1>10, <1>12, <2>2, <2>4, <3>1 DEF Lan!Replayed
  <2>5. seen' = seen \/ seen' = [seen EXCEPT ![p] = Lan!Remembered(p, n)]
    BY <1>3
  <2> QED  BY <2>1, <2>2, <2>3, <2>4, <2>5
<1>13. CASE UNCHANGED <<flows, writing>>
  <2>1. FlowsHeld' /\ WriterHeld' /\ Lan!FlowsJustified' /\ Lan!CheckedInForce'
    BY <1>1, <1>2, <1>13 DEF LanParts, FlowsHeld, WriterHeld, Lan!FlowsJustified,
       Lan!CheckedInForce, Lan!InForce, Lan!FlowOf, Lan!NoFrame
  <2>2. \A o : Lan!Accepted(o)' <=> Lan!Accepted(o)
    BY <1>2, <1>13 DEF Lan!Accepted, Lan!NoFrame
  <2>3. Lan!Refused'
    BY <1>1, <1>2, <1>12, <1>13, <2>2 DEF LanParts, Lan!Refused, Lan!NoFrame
  <2> QED  BY <1>8, <1>9, <1>11, <2>1, <2>3, LanHeldNext DEF LanParts
<1>14. CASE /\ seen' = [seen EXCEPT ![p] = Lan!Remembered(p, n)]
            /\ Lan!Permitted(f) /\ flows' = Lan!Admitted(f) /\ writing' = writer
  <2>1. Lan!InForce(f) /\ FlowsHeld' /\ \A g \in flows' : Lan!InForce(g)
    BY <1>1, <1>5, <1>14, Admitting DEF FlowsHeld
  <2>2. \A g : Lan!InForce(g)' <=> Lan!InForce(g)
    BY <1>2 DEF Lan!InForce
  <2>3. Lan!FlowsJustified'
    BY <2>1, <2>2 DEF Lan!FlowsJustified
  <2>4. generation \in Nat
    BY <1>1 DEF LanParts, PolicyHeld
  <2>5. WriterHeld'
    BY <1>2, <1>6, <1>14, <2>4 DEF WriterHeld
  <2>6. ~locked
    BY <1>1, <1>2 DEF LanParts, Lan!CheckedInForce, Lan!NoFrame
  <2>7. Lan!CheckedInForce'
    <3>1. \A i \in 1..Len(pending) : pending[i].generation = generation
                                       => Lan!InForce(pending[i].flow)
      BY <1>1 DEF LanParts, Lan!CheckedInForce
    <3>2. Lan!InForce(Lan!FlowOf(writer.key[1], sent[writer.key]))
      BY <1>4, <1>6, <2>1 DEF f
    <3>3. Lan!InForce(Lan!FlowOf(writing.key[1], sent[writing.key]))'
      BY <1>2, <1>14, <3>2 DEF Lan!InForce, Lan!FlowOf
    <3> QED  BY <1>2, <2>2, <2>6, <3>1, <3>3 DEF Lan!CheckedInForce
  <2>8. Lan!Replayed(p, n)'
    <3>1. seen'[p] = Lan!Remembered(p, n)
      BY <1>1, <1>14 DEF LanParts, Lan!Windows
    <3> QED  BY <1>10, <3>1 DEF Lan!Replayed
  <2>9. Lan!Refused'
    <3>1. tap'[writing'.key] = 0
      BY <1>2, <1>6, <1>7, <1>14
    <3>2. \A o \in Lan!Key : Lan!Accepted(o)' => o = k \/ Lan!Accepted(o)
      BY <1>2, <1>6, <1>14 DEF Lan!Accepted
    <3>3. revision \in Nat
      BY <1>1 DEF LanParts, PolicyHeld
    <3>4. ASSUME NEW o \in Lan!Key, Lan!Accepted(o)'
          PROVE  /\ sent'[o] # Lan!NoFrame /\ sent'[o].revision <= revision'
                 /\ sent'[o].revision = revision' => Lan!Replayed(o[1], o[2])'
      <4>1. CASE o = k
        BY <1>2, <1>4, <2>8, <3>3, <4>1 DEF Lan!NoFrame
      <4>2. CASE Lan!Accepted(o)
        BY <1>1, <1>2, <1>12, <4>2 DEF LanParts, Lan!Refused
      <4> QED  BY <3>2, <3>4, <4>1, <4>2
    <3> QED  BY <3>1, <3>4 DEF Lan!Refused, Lan!NoFrame
  <2> QED  BY <1>8, <1>9, <1>11, <2>1, <2>3, <2>5, <2>7, <2>9, LanHeldNext DEF LanParts
<1> QED  BY <1>3, <1>13, <1>14

\* A frame is written to the TAP if its generation is in force under the lock, and forgotten.
LEMMA LanDeliver ==
  ASSUME Lan!Guarded, Lan!Deliver \/ Lan!WriteTap
  PROVE  Lan!Guarded'
<1>1. LanParts
  BY LanHeld
<1>2. UNCHANGED <<generation, revision, ports, members, fresh, own, flows, frames, seen,
                  pending, sent>>
  BY DEF Lan!Deliver, Lan!WriteTap, Lan!policy, Lan!history
<1>3. /\ FlowsHeld' /\ ChunksHeld' /\ Lan!Windows' /\ QueueHeld' /\ Lan!FlowsJustified'
  BY <1>1, <1>2 DEF LanParts, FlowsHeld, ChunksHeld, Lan!Windows, QueueHeld,
     Lan!FlowsJustified, Lan!InForce
<1>4. \A g : Lan!InForce(g)' <=> Lan!InForce(g)
  BY <1>2 DEF Lan!InForce
<1>5. \A a, b : Lan!Replayed(a, b)' <=> Lan!Replayed(a, b)
  BY <1>2 DEF Lan!Replayed
<1>6. CASE Lan!Deliver
  <2>1. /\ tap' = tap /\ breach' = breach /\ writing # <<>>
        /\ \/ locked' = TRUE /\ writing' = writing /\ writing.generation = generation
           \/ locked' = locked /\ writing' = <<>> /\ ~locked
    BY <1>6 DEF Lan!Deliver, Lan!Allowed, Lan!history, Lan!NoFrame
  <2>2. PolicyHeld' /\ WriterHeld' /\ LedgerHeld' /\ ~breach'
    BY <1>1, <1>2, <2>1 DEF LanParts, PolicyHeld, WriterHeld, LedgerHeld
  <2>3. \A o : Lan!Accepted(o)' => Lan!Accepted(o)
    BY <2>1 DEF Lan!Accepted, Lan!NoFrame
  <2>4. Lan!Refused'
    BY <1>1, <1>2, <1>5, <2>1, <2>3 DEF LanParts, Lan!Refused, Lan!NoFrame
  <2>5. Lan!CheckedInForce'
    BY <1>1, <1>2, <1>4, <2>1 DEF LanParts, Lan!CheckedInForce, Lan!FlowOf, Lan!NoFrame
  <2> QED  BY <1>3, <2>2, <2>4, <2>5, LanHeldNext DEF LanParts
<1>7. CASE Lan!WriteTap
  <2> DEFINE k == writing.key
  <2>1. /\ locked /\ locked' = FALSE /\ writing' = <<>>
        /\ tap' = [tap EXCEPT ![k] = IF tap[k] < 2 THEN tap[k] + 1 ELSE tap[k]]
        /\ breach' = (breach \/ ~Lan!InForce(Lan!FlowOf(k[1], sent[k])))
    BY <1>7 DEF Lan!WriteTap, Lan!NoFrame
  <2>2. writing # <<>> /\ writing.generation = generation
    BY <1>1, <2>1 DEF LanParts, Lan!CheckedInForce, Lan!NoFrame
  <2>3. k \in Lan!Key /\ tap[k] = 0
    BY <1>1, <2>2 DEF LanParts, WriterHeld, Writer, Lan!Refused, Lan!NoFrame
  <2>4. Lan!InForce(Lan!FlowOf(k[1], sent[k]))
    BY <1>1, <2>2 DEF LanParts, Lan!CheckedInForce, Lan!NoFrame
  <2>5. ~breach'
    BY <1>1, <2>1, <2>4 DEF LanParts
  <2>6. Lan!Accepted(k)
    BY <2>2 DEF Lan!Accepted, Lan!NoFrame
  <2> HIDE DEF k
  <2>7. tap' = [tap EXCEPT ![k] = 1]
    BY <2>1, <2>3
  <2>8. PolicyHeld' /\ WriterHeld' /\ LedgerHeld'
    BY <1>1, <1>2, <2>1, <2>3, <2>7 DEF LanParts, PolicyHeld, WriterHeld, LedgerHeld
  <2>9. \A o \in Lan!Key : Lan!Accepted(o)' => Lan!Accepted(o)
    <3>1. \A o \in Lan!Key : o # k => tap'[o] = tap[o]
      BY <1>1, <2>7 DEF LanParts, LedgerHeld
    <3> QED  BY <2>1, <2>6, <3>1 DEF Lan!Accepted, Lan!NoFrame
  <2>10. Lan!Refused'
    BY <1>1, <1>2, <1>5, <2>1, <2>9 DEF LanParts, Lan!Refused, Lan!NoFrame
  <2>11. Lan!CheckedInForce'
    BY <1>1, <1>2, <1>4, <2>1 DEF LanParts, Lan!CheckedInForce, Lan!NoFrame
  <2> QED  BY <1>3, <2>5, <2>8, <2>10, <2>11, LanHeldNext DEF LanParts
<1> QED  BY <1>6, <1>7

\* A window is forgotten together with what was delivered under it.
LEMMA LanWindowExpires ==
  ASSUME Lan!Guarded, NEW p \in Peer, Lan!WindowExpires(p)
  PROVE  Lan!Guarded'
<1>1. LanParts
  BY LanHeld
<1>2. /\ UNCHANGED <<generation, revision, ports, members, fresh, own, flows, frames, writing,
                     locked, pending, sent, breach>>
      /\ writing = <<>> /\ seen' = [seen EXCEPT ![p] = Lan!NoWindow]
      /\ tap' = [k \in Lan!Key |-> IF k[1] = p THEN 0 ELSE tap[k]]
  BY DEF Lan!WindowExpires, Lan!policy, Lan!NoFrame
<1>3. PolicyHeld' /\ FlowsHeld' /\ ChunksHeld' /\ QueueHeld' /\ WriterHeld'
  BY <1>1, <1>2 DEF LanParts, PolicyHeld, FlowsHeld, ChunksHeld, QueueHeld, WriterHeld
<1>4. Lan!FlowsJustified' /\ Lan!CheckedInForce' /\ ~breach'
  BY <1>1, <1>2 DEF LanParts, Lan!FlowsJustified, Lan!CheckedInForce, Lan!InForce, Lan!FlowOf,
     Lan!NoFrame
<1>5. Lan!Windows'
  <2>1. Lan!NoWindow \in [seqs: SUBSET (1..MaxSeq), highest: 0..MaxSeq] /\ Lan!NoWindow.seqs = {}
    BY DEF Lan!NoWindow
  <2>2. seen \in [Peer -> [seqs: SUBSET (1..MaxSeq), highest: 0..MaxSeq]]
    BY <1>1 DEF LanParts, Lan!Windows
  <2>3. seen' \in [Peer -> [seqs: SUBSET (1..MaxSeq), highest: 0..MaxSeq]]
    BY <1>2, <2>1, <2>2
  <2>4. \A o \in Peer : seen'[o] = seen[o] \/ seen'[o] = Lan!NoWindow
    BY <1>2, <2>2
  <2>5. ASSUME NEW o \in Peer, NEW a \in seen'[o].seqs, NEW b \in seen'[o].seqs
        PROVE  a <= seen'[o].highest /\ (a % Window = b % Window => a = b)
    BY <1>1, <2>1, <2>4, <2>5 DEF LanParts, Lan!Windows
  <2> QED  BY <2>3, <2>5 DEF Lan!Windows
<1>6. LedgerHeld'
  BY <1>1, <1>2 DEF LanParts, LedgerHeld
<1>7. \A k \in Lan!Key : Lan!Accepted(k)' => Lan!Accepted(k) /\ k[1] # p
  BY <1>2 DEF Lan!Accepted, Lan!NoFrame
<1>8. \A k \in Lan!Key : k[1] # p /\ Lan!Replayed(k[1], k[2]) => Lan!Replayed(k[1], k[2])'
  <2>1. \A o : o # p => seen'[o] = seen[o]
    BY <1>1, <1>2 DEF LanParts, Lan!Windows
  <2> QED  BY <2>1 DEF Lan!Replayed
<1>9. Lan!Refused'
  BY <1>1, <1>2, <1>7, <1>8 DEF LanParts, Lan!Refused, Lan!NoFrame
<1> QED  BY <1>3, <1>4, <1>5, <1>6, <1>9, LanHeldNext DEF LanParts

LEMMA LanStep ==
  ASSUME Lan!Guarded, Lan!Next
  PROVE  Lan!Guarded'
<1>1. CASE \E rev \in 1..MaxUpdates, q \in Port, who \in SUBSET Peer : Lan!Update(rev, {q}, who)
  BY <1>1, LanUpdate
<1>2. CASE \/ \E p \in Peer : Lan!Lapses(p)
           \/ Lan!Ends
           \/ \E f \in flows : Lan!FlowExpires(f)
           \/ \E k \in Lan!Key : Lan!FrameExpires(k)
  BY <1>2, LanExpires
<1>3. CASE \E f \in Lan!Flow : Lan!HostSends(f)
  BY <1>3, LanHostSends
<1>4. CASE Lan!ReadNext
  BY <1>4, LanReadNext
<1>5. CASE \E p \in Peer, n \in 1..MaxSeq, s \in Sends : Lan!PeerSends(p, n, s)
  BY <1>5, LanPeerSends
<1>6. CASE \E p \in Peer, n \in 1..MaxSeq, chunk \in 1..2 : Lan!Receive(p, n, chunk)
  BY <1>6, LanReceive
<1>7. CASE Lan!Deliver \/ Lan!WriteTap
  BY <1>7, LanDeliver
<1>8. CASE \E p \in Peer : Lan!WindowExpires(p)
  BY <1>8, LanWindowExpires
<1> QED  BY <1>1, <1>2, <1>3, <1>4, <1>5, <1>6, <1>7, <1>8 DEF Lan!Next

LEMMA LanKeeps ==
  ASSUME Lan!Guarded PROVE Lan!Inv /\ Lan!OnlyInForce
<1>1. Lan!OnceEach
  BY LanHeld DEF LanParts, LedgerHeld, Lan!OnceEach
<1> QED  BY <1>1 DEF Lan!Guarded, Lan!Inv, Lan!OnlyInForce

HIDE LanAssumption

-----------------------------------------------------------------------------
(* The reassembly of fragments.                                              *)

USE FragmentAssumption

LEMMA FragmentSets ==
  \A S : Fragment!IsFiniteSet(S) = IsFiniteSet(S) /\ Fragment!Cardinality(S) = Cardinality(S)
<1> TAKE S
<1>1. Fragment!IsFiniteSet(S) = IsFiniteSet(S)
  BY DEF IsFiniteSet, Fragment!IsFiniteSet
<1>2. Fragment!Cardinality(S) = Cardinality(S)
  BY DEF Cardinality, Fragment!Cardinality
<1> QED  BY <1>1, <1>2

\* A fragment: where it lies, in units of the datagram.
LEMMA FragmentLies ==
  ASSUME NEW f \in Fragment!Fragment
  PROVE  /\ f.offset \in Nat /\ f.length \in Nat \ {0} /\ f.more \in BOOLEAN
         /\ Fragment!EndOf(f) = f.offset + f.length /\ Fragment!EndOf(f) \in 1..Largest
BY DEF Fragment!Fragment, Fragment!Piece, Fragment!EndOf

\* A fragment that overlaps none of those kept adds its length to the units they cover.
LEMMA FragmentCounts ==
  ASSUME NEW f \in Fragment!Fragment, parts \subseteq Fragment!Fragment,
         Fragment!SideBySide, ~\E q \in parts : Fragment!Overlaps(f, q), size \in Nat
  PROVE  /\ Cardinality(Fragment!Units(parts \cup {f})) = size + f.length
         /\ \A g, h \in parts \cup {f} : g # h => ~Fragment!Overlaps(g, h)
<1> DEFINE S == Fragment!Units(parts)
           T == f.offset..(f.offset + f.length - 1)
<1>1. /\ f.offset \in Nat /\ f.length \in Nat \ {0}
      /\ Fragment!EndOf(f) = f.offset + f.length /\ f.offset + f.length \in 1..Largest
  BY FragmentLies
<1>2. IsFiniteSet(T) /\ Cardinality(T) = f.length
  <2> DEFINE b == f.offset + f.length - 1
  <2>1. f.offset \in Int /\ b \in Int /\ f.offset <= b /\ b - f.offset + 1 = f.length
    BY <1>1
  <2> HIDE DEF b
  <2>2. /\ IsFiniteSet(f.offset..b)
        /\ Cardinality(f.offset..b) = IF f.offset > b THEN 0 ELSE b - f.offset + 1
    BY <2>1, FS_Interval, Zenon
  <2> QED  BY <2>1, <2>2 DEF b
<1>3. IsFiniteSet(S) /\ Cardinality(S) = size
  <2>1. IsFiniteSet(0..(Largest - 1)) /\ S \in SUBSET (0..(Largest - 1))
    BY FS_Interval DEF Fragment!Units
  <2>2. IsFiniteSet(S)
    BY <2>1, FS_Subset
  <2> QED  BY <2>2, FragmentSets DEF Fragment!SideBySide
<1>4. Fragment!Units(parts \cup {f}) = S \cup T
  BY <1>1 DEF Fragment!Units
<1>5. S \cap T = {}
  <2> SUFFICES ASSUME NEW u \in S, u \in T PROVE FALSE
    OBVIOUS
  <2>1. PICK q \in parts : q.offset <= u /\ u < Fragment!EndOf(q)
    BY DEF Fragment!Units
  <2>2. q.offset \in Nat /\ Fragment!EndOf(q) \in Nat
    BY FragmentLies
  <2>3. f.offset <= u /\ u < Fragment!EndOf(f) /\ u \in Nat
    BY <1>1
  <2>4. Fragment!Overlaps(f, q)
    BY <1>1, <2>1, <2>2, <2>3 DEF Fragment!Overlaps
  <2> QED  BY <2>4
<1> HIDE DEF S, T
<1>6. Cardinality(S \cup T) = Cardinality(S) + Cardinality(T) - Cardinality(S \cap T)
  BY <1>2, <1>3, FS_Union
<1>7. Cardinality(Fragment!Units(parts \cup {f})) = size + f.length
  <2>1. Cardinality(S \cap T) = 0
    BY <1>5, FS_EmptySet, Zenon
  <2>2. Cardinality(S \cup T) = size + f.length - 0
    BY <1>2, <1>3, <1>6, <2>1, Zenon
  <2>3. Cardinality(Fragment!Units(parts \cup {f})) = size + f.length - 0
    BY <1>4, <2>2, Zenon
  <2> QED  BY <1>1, <2>3
<1>8. ASSUME NEW g \in parts \cup {f}, NEW h \in parts \cup {f}, g # h
      PROVE  ~Fragment!Overlaps(g, h)
  <2>1. CASE g \in parts /\ h \in parts
    BY <1>8, <2>1 DEF Fragment!SideBySide
  <2>2. CASE g = f \/ h = f
    BY <1>8, <2>2 DEF Fragment!Overlaps
  <2> QED  BY <2>1, <2>2
<1> QED  BY <1>7, <1>8

LEMMA FragmentInit == Fragment!Init => Fragment!Assembling
<1> SUFFICES ASSUME Fragment!Init PROVE Fragment!Assembling
  OBVIOUS
<1>1. /\ parts = {} /\ total = -1 /\ size = 0 /\ yielded = {} /\ checked = <<>>
  BY DEF Fragment!Init, Fragment!Unknown
<1>2. Fragment!Units(parts) = {}
  BY <1>1 DEF Fragment!Units
<1>3. IsFiniteSet({}) /\ Cardinality({}) = 0
  BY FS_EmptySet
<1>4. Fragment!TypeOK
  BY <1>1, <1>3, FragmentSets DEF Fragment!TypeOK, Fragment!Unknown
<1>5. Fragment!CheckedIsAssembled
  BY <1>1 DEF Fragment!CheckedIsAssembled
<1>6. Fragment!SideBySide
  BY <1>1, <1>2, <1>3, FragmentSets DEF Fragment!SideBySide
<1>7. Fragment!EndKnown
  BY <1>1 DEF Fragment!EndKnown, Fragment!Unknown
<1> QED  BY <1>4, <1>5, <1>6, <1>7 DEF Fragment!Assembling, Fragment!Inv

\* A set that is dropped leaves what was let through alone.
LEMMA FragmentForgets ==
  ASSUME Fragment!Forget
  PROVE  Fragment!TypeOK' /\ Fragment!SideBySide' /\ Fragment!EndKnown'
<1>1. parts' = {} /\ total' = -1 /\ size' = 0
  BY DEF Fragment!Forget, Fragment!Unknown
<1>2. Fragment!Units({}) = {}
  BY DEF Fragment!Units
<1>3. IsFiniteSet({}) /\ Cardinality({}) = 0
  BY FS_EmptySet
<1>4. Fragment!TypeOK'
  BY <1>1, <1>3, FragmentSets DEF Fragment!TypeOK, Fragment!Unknown
<1>5. Fragment!SideBySide'
  BY <1>1, <1>2, <1>3, FragmentSets DEF Fragment!SideBySide, Fragment!Units
<1>6. Fragment!EndKnown'
  BY <1>1 DEF Fragment!EndKnown, Fragment!Unknown
<1> QED  BY <1>4, <1>5, <1>6

\* A fragment that fits beside the others, and leaves the datagram unfinished, is kept.
LEMMA FragmentKept ==
  ASSUME Fragment!Assembling, NEW f \in Fragment!Fragment,
         ~Fragment!Excessive(f), ~\E q \in parts : Fragment!Overlaps(f, q),
         ~Fragment!Short(f),
         parts' = parts \cup {f}, total' = Fragment!TotalWith(f), size' = size + f.length
  PROVE  Fragment!TypeOK' /\ Fragment!SideBySide' /\ Fragment!EndKnown'
<1> USE DEF Fragment!Assembling, Fragment!Inv
<1>1. /\ parts \subseteq Fragment!Fragment /\ size \in 0..Largest /\ IsFiniteSet(parts)
      /\ total \in (1..Largest) \cup {-1}
  BY FragmentSets DEF Fragment!TypeOK, Fragment!SideBySide, Fragment!Unknown
<1>2. /\ f.length \in Nat \ {0} /\ f.more \in BOOLEAN /\ Fragment!EndOf(f) \in 1..Largest
  BY FragmentLies
<1>3. /\ Cardinality(Fragment!Units(parts \cup {f})) = size + f.length
      /\ \A g, h \in parts \cup {f} : g # h => ~Fragment!Overlaps(g, h)
  <2>1. size \in Nat /\ Fragment!SideBySide
    BY <1>1
  <2> QED  BY <1>1, <2>1, FragmentCounts
<1>4. IsFiniteSet(parts \cup {f}) /\ Cardinality(parts \cup {f}) <= PartLimit
  <2>1. Cardinality(parts) \in Nat
    BY <1>1, FS_CardinalityType
  <2>2. Cardinality(parts) < PartLimit
    BY <2>1, FragmentSets DEF Fragment!Excessive
  <2>3. /\ IsFiniteSet(parts \cup {f})
        /\ Cardinality(parts \cup {f}) \in {Cardinality(parts), Cardinality(parts) + 1}
    BY <1>1, FS_AddElement
  <2> QED  BY <2>1, <2>2, <2>3
<1>5. size + f.length \in 0..Largest
  BY <1>1, <1>2 DEF Fragment!Excessive
<1>6. Fragment!TypeOK'
  <2>1. total' \in (1..Largest) \cup {-1}
    BY <1>1, <1>2 DEF Fragment!TotalWith
  <2> QED  BY <1>1, <1>4, <1>5, <2>1, FragmentSets DEF Fragment!TypeOK, Fragment!Unknown
<1>7. Fragment!SideBySide'
  BY <1>3, <1>4, FragmentSets DEF Fragment!SideBySide, Fragment!Units, Fragment!Overlaps,
     Fragment!EndOf
<1>8. Fragment!EndKnown'
  <2>1. \A q \in parts : Fragment!EndOf(q) \in 1..Largest
    BY <1>1, FragmentLies
  <2>2. CASE f.more
    <3>1. total' = total /\ (total # -1 => Fragment!EndOf(f) <= total)
      BY <1>1, <1>2, <2>2 DEF Fragment!TotalWith, Fragment!Excessive, Fragment!Unknown
    <3> QED  BY <2>2, <3>1 DEF Fragment!EndKnown, Fragment!Unknown, Fragment!EndOf
  <2>3. CASE ~f.more
    <3>1. total' = Fragment!EndOf(f) /\ (total # -1 => Fragment!EndOf(f) = total)
      BY <2>3 DEF Fragment!TotalWith, Fragment!Excessive, Fragment!Unknown
    <3>2. \A q \in parts : Fragment!EndOf(q) <= Fragment!EndOf(f)
      BY <1>2, <2>1, <2>3 DEF Fragment!Short
    <3>3. \A q \in parts : ~q.more => Fragment!EndOf(q) = Fragment!EndOf(f)
      BY <2>1, <3>1 DEF Fragment!EndKnown
    <3> QED  BY <1>2, <2>3, <3>1, <3>2, <3>3 DEF Fragment!EndKnown, Fragment!Unknown,
             Fragment!EndOf
  <2> QED  BY <1>2, <2>2, <2>3
<1> QED  BY <1>6, <1>7, <1>8

\* A fragment that completes the datagram: every unit up to its end is covered by exactly one
\* of those let through, and that one was copied there.
LEMMA FragmentYields ==
  ASSUME Fragment!Assembling, NEW f \in Fragment!Fragment,
         ~Fragment!Excessive(f), ~\E q \in parts : Fragment!Overlaps(f, q),
         ~Fragment!Short(f), Fragment!Complete(f),
         yielded' = parts \cup {f},
         checked' = Fragment!Assembled(parts \cup {f}, Fragment!TotalWith(f))
  PROVE  Fragment!CheckedIsAssembled'
<1> USE DEF Fragment!Assembling, Fragment!Inv
<1> DEFINE S == parts \cup {f}
           n == Fragment!TotalWith(f)
<1>1. /\ parts \subseteq Fragment!Fragment /\ size \in Nat
      /\ total \in (1..Largest) \cup {-1}
  BY DEF Fragment!TypeOK, Fragment!Unknown
<1>2. \A q \in S : /\ q.offset \in Nat /\ q.more \in BOOLEAN
                   /\ Fragment!EndOf(q) \in 1..Largest /\ q.offset < Fragment!EndOf(q)
  <2>1. \A q \in S : q \in Fragment!Fragment
    BY <1>1
  <2>2. \A q \in S : /\ q.offset \in Nat /\ q.length \in Nat \ {0} /\ q.more \in BOOLEAN
                     /\ Fragment!EndOf(q) = q.offset + q.length
                     /\ Fragment!EndOf(q) \in 1..Largest
    BY <2>1, FragmentLies
  <2> QED  BY <2>2
<1>3. n # -1 /\ n = size + f.length /\ f.length \in Nat
  BY FragmentLies DEF Fragment!Complete, Fragment!Unknown
<1>4. n \in 1..Largest
  BY <1>1, <1>2, <1>3 DEF Fragment!TotalWith
<1>5. \A q \in S : /\ Fragment!EndOf(q) <= n
                   /\ ~q.more => Fragment!EndOf(q) = n
  <2>1. CASE f.more
    <3>1. n = total /\ Fragment!EndOf(f) <= total
      BY <1>1, <1>2, <1>3, <2>1 DEF Fragment!TotalWith, Fragment!Excessive, Fragment!Unknown
    <3> QED  BY <1>3, <2>1, <3>1 DEF Fragment!EndKnown, Fragment!Unknown
  <2>2. CASE ~f.more
    <3>1. n = Fragment!EndOf(f) /\ (total # -1 => Fragment!EndOf(f) = total)
      BY <2>2 DEF Fragment!TotalWith, Fragment!Excessive, Fragment!Unknown
    <3>2. \A q \in parts : Fragment!EndOf(q) <= Fragment!EndOf(f)
      BY <1>2, <2>2 DEF Fragment!Short
    <3>3. \A q \in parts : ~q.more => Fragment!EndOf(q) = Fragment!EndOf(f)
      BY <1>2, <3>1 DEF Fragment!EndKnown
    <3> QED  BY <1>2, <3>1, <3>2, <3>3
  <2> QED  BY <1>2, <2>1, <2>2
<1>6. \E q \in S : ~q.more
  BY <1>3, <1>2 DEF Fragment!TotalWith, Fragment!EndKnown, Fragment!Unknown
<1>7. /\ Cardinality(Fragment!Units(S)) = n
      /\ \A g, h \in S : g # h => ~Fragment!Overlaps(g, h)
  <2>1. size \in Nat /\ Fragment!SideBySide
    BY <1>1
  <2> QED  BY <1>1, <1>3, <2>1, FragmentCounts
<1> HIDE DEF S, n
<1>8. Fragment!Units(S) = 0..(n - 1)
  <2> DEFINE b == n - 1
  <2>1. b \in Int /\ 0 \in Int /\ 0 <= b /\ b - 0 + 1 = n
    BY <1>4
  <2>2. Fragment!Units(S) \in SUBSET (0..b)
    BY <1>2, <1>4, <1>5 DEF Fragment!Units
  <2> HIDE DEF b
  <2>3. IsFiniteSet(0..b) /\ Cardinality(0..b) = IF 0 > b THEN 0 ELSE b - 0 + 1
    BY <2>1, FS_Interval, Zenon
  <2>4. Cardinality(0..b) = Cardinality(Fragment!Units(S))
    BY <1>7, <2>1, <2>3
  <2>5. 0..b = Fragment!Units(S)
    BY <2>2, <2>3, <2>4, FS_Subset, Zenon
  <2> QED  BY <2>5 DEF b
<1>9. yielded' = S /\ checked' = Fragment!Assembled(S, n)
  BY DEF S, n
<1>10. DOMAIN checked' = 0..(n - 1)
  BY <1>9 DEF Fragment!Assembled
<1>11. \A u \in 0..(n - 1) : \E q \in S : q.offset <= u /\ u < Fragment!EndOf(q)
  BY <1>8 DEF Fragment!Units
<1>12. \A u \in 0..(n - 1), g, h \in S :
         /\ g.offset <= u /\ u < Fragment!EndOf(g)
         /\ h.offset <= u /\ u < Fragment!EndOf(h)
         => g = h
  <2> SUFFICES ASSUME NEW u \in 0..(n - 1), NEW g \in S, NEW h \in S, g # h,
                      g.offset <= u, u < Fragment!EndOf(g),
                      h.offset <= u, u < Fragment!EndOf(h)
               PROVE  FALSE
    OBVIOUS
  <2>1. g.offset < Fragment!EndOf(h) /\ h.offset < Fragment!EndOf(g)
    BY <1>2, <1>4
  <2> QED  BY <1>7, <2>1 DEF Fragment!Overlaps
<1>13. ASSUME NEW u \in 0..(n - 1), NEW g \in S, g.offset <= u, u < Fragment!EndOf(g)
       PROVE  g.content = checked'[u]
  <2> DEFINE P(q) == q.offset <= u /\ u < Fragment!EndOf(q)
  <2>1. checked'[u] = IF \E q \in S : P(q) THEN (CHOOSE q \in S : P(q)).content ELSE "zero"
    BY <1>9, <1>13 DEF Fragment!Assembled
  <2>2. (CHOOSE q \in S : P(q)) \in S /\ P(CHOOSE q \in S : P(q))
    BY <1>13
  <2>3. (CHOOSE q \in S : P(q)) = g
    BY <1>12, <1>13, <2>2
  <2> QED  BY <1>13, <2>1, <2>3
<1>14. checked' # <<>>
  <2>1. 0 \in DOMAIN checked'
    BY <1>4, <1>10
  <2> QED  BY <2>1
<1>15. \A q \in S : Fragment!EndOf(q) - 1 \in DOMAIN checked'
  BY <1>2, <1>4, <1>5, <1>10
<1> DEFINE Covering(u) == {q \in S : q.offset <= u /\ u < Fragment!EndOf(q)}
           Ends == {Fragment!EndOf(q) : q \in {g \in S : ~g.more}}
<1>16. Ends = {n}
  BY <1>5, <1>6
<1>17. \A u \in DOMAIN checked' : /\ Covering(u) # {}
                                  /\ \A q \in Covering(u) : q.content = checked'[u]
  BY <1>10, <1>11, <1>13
<1>18. /\ \A e \in Ends : checked' # <<>> /\ DOMAIN checked' = 0..(e - 1)
       /\ Ends # {}
       /\ \A q \in yielded' : Fragment!EndOf(q) - 1 \in DOMAIN checked'
  BY <1>9, <1>10, <1>14, <1>15, <1>16
<1>19. Ends = Fragment!Ends' /\ \A u : Covering(u) = Fragment!Covering(u)'
  BY <1>9 DEF Fragment!Ends, Fragment!Covering, Fragment!EndOf
<1> HIDE DEF Ends, Covering
<1> QED  BY <1>17, <1>18, <1>19 DEF Fragment!CheckedIsAssembled, Fragment!EndOf

LEMMA FragmentStep ==
  ASSUME Fragment!Assembling, Fragment!Next
  PROVE  Fragment!Assembling'
<1> USE DEF Fragment!Assembling, Fragment!Inv
<1>1. CASE Fragment!Drop
  <2>1. Fragment!TypeOK' /\ Fragment!SideBySide' /\ Fragment!EndKnown'
    BY <1>1, FragmentForgets DEF Fragment!Drop
  <2>2. Fragment!CheckedIsAssembled'
    BY <1>1 DEF Fragment!Drop, Fragment!CheckedIsAssembled, Fragment!Ends, Fragment!Covering
  <2> QED  BY <2>1, <2>2
<1>2. CASE Fragment!Expire
  BY <1>1, <1>2 DEF Fragment!Expire
<1>3. ASSUME NEW f \in Fragment!Fragment, Fragment!Defragment(f)
      PROVE  Fragment!Assembling'
  <2>1. CASE Fragment!Drop
    BY <1>1, <2>1
  <2>2. CASE UNCHANGED Fragment!vars
    BY <2>2 DEF Fragment!vars, Fragment!TypeOK, Fragment!CheckedIsAssembled, Fragment!Ends,
       Fragment!Covering, Fragment!SideBySide, Fragment!EndKnown
  <2>3. CASE /\ ~Fragment!Excessive(f) /\ ~\E q \in parts : Fragment!Overlaps(f, q)
             /\ ~Fragment!Short(f)
             /\ parts' = parts \cup {f} /\ total' = Fragment!TotalWith(f)
             /\ size' = size + f.length /\ UNCHANGED <<yielded, checked>>
    <3>1. Fragment!TypeOK' /\ Fragment!SideBySide' /\ Fragment!EndKnown'
      BY <2>3, FragmentKept
    <3>2. Fragment!CheckedIsAssembled'
      BY <2>3 DEF Fragment!CheckedIsAssembled, Fragment!Ends, Fragment!Covering
    <3> QED  BY <3>1, <3>2
  <2>4. CASE /\ ~Fragment!Excessive(f) /\ ~\E q \in parts : Fragment!Overlaps(f, q)
             /\ ~Fragment!Short(f) /\ Fragment!Complete(f)
             /\ yielded' = parts \cup {f}
             /\ checked' = Fragment!Assembled(parts \cup {f}, Fragment!TotalWith(f))
             /\ Fragment!Forget
    <3>1. Fragment!TypeOK' /\ Fragment!SideBySide' /\ Fragment!EndKnown'
      BY <2>4, FragmentForgets
    <3>2. Fragment!CheckedIsAssembled'
      BY <2>4, FragmentYields
    <3> QED  BY <3>1, <3>2
  <2> QED  BY <1>3, <2>1, <2>2, <2>3, <2>4 DEF Fragment!Defragment
<1> QED  BY <1>2, <1>3 DEF Fragment!Next

HIDE FragmentAssumption

-----------------------------------------------------------------------------
(* The choice of relays.  The candidates are ranked by a strict total order,  *)
(* so that each has a place of its own and each place a candidate.            *)

USE RelayAssumption

LEMMA RelaysCount ==
  /\ \A S : Relays!Cardinality(S) = Cardinality(S)
  /\ \A S : Relays!IsFiniteSet(S) <=> IsFiniteSet(S)
BY DEF Cardinality, Relays!Cardinality, IsFiniteSet, Relays!IsFiniteSet

\* A strict total order.
Orders(R, C) ==
  /\ \A x \in C : <<x, x>> \notin R
  /\ \A x, y \in C : x # y => <<x, y>> \in R \/ <<y, x>> \in R
  /\ \A x, y, z \in C : <<x, y>> \in R /\ <<y, z>> \in R => <<x, z>> \in R
Below(R, C, r) == {q \in C : <<q, r>> \in R}
Filled(R, C) ==
  \A k \in 0..(Cardinality(C) - 1) : \E r \in C : Cardinality(Below(R, C, r)) = k

\* A finite set so ordered has an element with k before it for each k less than its size.
LEMMA Places ==
  ASSUME NEW C, IsFiniteSet(C), NEW R, Orders(R, C)
  PROVE  Filled(R, C)
<1> DEFINE n == Cardinality(C)
           below(r) == {q \in C : <<q, r>> \in R}
           place == [r \in C |-> Cardinality(below(r))]
<1> USE DEF Orders
<1>1. n \in Nat
  BY FS_CardinalityType
<1>2. \A r \in C : IsFiniteSet(below(r)) /\ Cardinality(below(r)) \in Nat
  BY FS_Subset, FS_CardinalityType
<1>3. ASSUME NEW r \in C PROVE Cardinality(below(r)) \in 0..(n - 1)
  <2>1. below(r) \subseteq C /\ below(r) # C
    OBVIOUS
  <2> HIDE DEF below
  <2>2. Cardinality(below(r)) <= n /\ Cardinality(below(r)) # n
    BY <2>1, FS_Subset
  <2> QED  BY <1>1, <1>2, <2>2
<1>4. ASSUME NEW x \in C, NEW y \in C, <<x, y>> \in R
      PROVE  Cardinality(below(x)) < Cardinality(below(y))
  <2>1. below(x) \subseteq below(y)
    BY <1>4
  <2>2. x \in below(y) /\ x \notin below(x)
    BY <1>4
  <2>3. /\ Cardinality(below(x)) <= Cardinality(below(y))
        /\ Cardinality(below(x)) # Cardinality(below(y))
    BY <1>2, <2>1, <2>2, FS_Subset, Zenon
  <2> QED  BY <1>2, <2>3
<1>5. \A x, y \in C : place[x] = place[y] => x = y
  <2> SUFFICES ASSUME NEW x \in C, NEW y \in C, place[x] = place[y], x # y PROVE FALSE
    OBVIOUS
  <2>1. <<x, y>> \in R \/ <<y, x>> \in R
    OBVIOUS
  <2>2. Cardinality(below(x)) = Cardinality(below(y))
    OBVIOUS
  <2> HIDE DEF below, place
  <2> QED  BY <1>2, <1>4, <2>1, <2>2
<1>6. place \in [C -> 0..(n - 1)]
  BY <1>3
<1>7. place \in Injection(C, 0..(n - 1))
  BY <1>5, <1>6, Fun_IsInj
<1>8. IsFiniteSet(0..(n - 1)) /\ Cardinality(0..(n - 1)) = n
  <2>1. n - 1 \in Int /\ 0 \in Int
    BY <1>1
  <2>2. /\ IsFiniteSet(0..(n - 1))
        /\ Cardinality(0..(n - 1)) = IF 0 > n - 1 THEN 0 ELSE n - 1 - 0 + 1
    BY <2>1, FS_Interval, Zenon
  <2> QED  BY <1>1, <2>2
<1>9. place \in Surjection(C, 0..(n - 1))
  BY <1>7, <1>8, FS_Injection
<1>10. \A k \in 0..(n - 1) : \E r \in C : place[r] = k
  BY <1>9 DEF Surjection
<1>11. \A r \in C : place[r] = Cardinality(Below(R, C, r))
  BY DEF Below
<1> QED  BY <1>10, <1>11 DEF Filled

\* What the selection rests on, in terms of this module.
RelayTypes ==
  /\ listed \in SUBSET Relay /\ draining \in SUBSET listed /\ pinging \in SUBSET Relay
  /\ round \in 0..MaxRounds
  /\ DOMAIN samples = Relay
  /\ \A r \in Relay : \E T \in SUBSET (1..round) : samples[r] \in [T -> Latency \cup {0}]
  /\ relays \in Seq(Relay) /\ Len(relays) <= Wanted
  /\ selectedAt \in Int /\ changedAt \in Int

LEMMA RelayTyped == Relays!TypeOK <=> RelayTypes
BY DEF Relays!TypeOK, RelayTypes, Relays!Lost

LEMMA RelayTypedNext == (Relays!TypeOK <=> RelayTypes)'
BY RelayTyped, PTL

LEMMA SamplesTyped ==
  ASSUME RelayTypes, NEW r \in Relay
  PROVE  /\ DOMAIN samples[r] \subseteq 1..round /\ IsFiniteSet(DOMAIN samples[r])
         /\ \A t \in DOMAIN samples[r] : samples[r][t] \in Latency \cup {0}
         /\ samples[r] \in [DOMAIN samples[r] -> Latency \cup {0}]
<1>1. PICK T \in SUBSET (1..round) : samples[r] \in [T -> Latency \cup {0}]
  BY DEF RelayTypes
<1>2. round \in Int /\ 1 \in Int
  BY DEF RelayTypes
<1>3. IsFiniteSet(1..round)
  BY <1>2, FS_Interval, Zenon
<1>4. IsFiniteSet(T)
  BY <1>3, FS_Subset
<1> QED  BY <1>1, <1>4

\* The average of the answered pings is a number, if there are any.
LEMMA AverageTyped ==
  ASSUME RelayTypes, NEW r \in Relay, Relays!Measured(r)
  PROVE  Relays!Average(r) \in Int
<1> DEFINE A == Relays!Answered(r)
           f == [t \in A |-> {t} \X (1..samples[r][t])]
<1>0. 1 \in Int /\ \A x \in Latency \cup {0} : x \in Int
  OBVIOUS
<1>1. A \subseteq DOMAIN samples[r]
  BY DEF Relays!Answered, Relays!Recent
<1>2. IsFiniteSet(A)
  BY <1>1, SamplesTyped, FS_Subset
<1>3. Cardinality(A) \in Nat \ {0}
  BY <1>2, FS_CardinalityType, FS_EmptySet DEF Relays!Measured
<1>4. ASSUME NEW t \in A PROVE IsFiniteSet({t} \X (1..samples[r][t]))
  <2>1. samples[r][t] \in Latency \cup {0}
    BY <1>1, SamplesTyped
  <2>2. samples[r][t] \in Int /\ 1 \in Int
    BY <1>0, <2>1, Zenon
  <2>3. IsFiniteSet(1..samples[r][t])
    BY <2>2, FS_Interval, Zenon
  <2>4. IsFiniteSet({t})
    BY FS_Singleton
  <2> QED  BY <2>3, <2>4, FS_Product, Zenon
<1>5. f \in Surjection(A, {f[t] : t \in A})
  BY DEF Surjection
<1>6. IsFiniteSet({f[t] : t \in A})
  BY <1>2, <1>5, FS_Surjection
<1>7. \A T \in {f[t] : t \in A} : IsFiniteSet(T)
  BY <1>4
<1>8. IsFiniteSet(UNION {f[t] : t \in A})
  BY <1>6, <1>7, FS_UNION, Zenon
<1>9. {f[t] : t \in A} = {{t} \X (1..samples[r][t]) : t \in A}
  OBVIOUS
<1>10. Relays!Total(r) \in Nat
  BY <1>8, <1>9, RelaysCount, FS_CardinalityType DEF Relays!Total
<1>11. Relays!Cardinality(A) \in Nat \ {0}
  BY <1>3, RelaysCount
<1> HIDE DEF A
<1> QED  BY <1>10, <1>11 DEF Relays!Average, A

\* The ranking is a strict total order.
LEMMA BeforeOrders ==
  ASSUME RelayTypes
  PROVE  /\ \A x \in Relay : ~Relays!Before(x, x)
         /\ \A x, y \in Relay : x # y => Relays!Before(x, y) \/ Relays!Before(y, x)
         /\ \A x, y, z \in Relay : Relays!Before(x, y) /\ Relays!Before(y, z)
                                     => Relays!Before(x, z)
<1>1. \A x \in Relay : x \in Int
  OBVIOUS
<1>2. \A x \in Relay : Relays!Measured(x) => Relays!Average(x) \in Int
  BY AverageTyped
<1>3. \A x \in Relay : Relays!Measured(x) \in BOOLEAN
  BY DEF Relays!Measured
<1> QED  BY <1>1, <1>2, <1>3 DEF Relays!Before

LEMMA CandidatesFinite ==
  ASSUME RelayTypes
  PROVE  /\ Relays!Candidate \subseteq listed /\ Relays!Candidate \subseteq Relay
         /\ IsFiniteSet(Relays!Candidate) /\ Cardinality(Relays!Candidate) \in Nat
<1>1. Relays!Candidate \subseteq listed /\ Relays!Candidate \subseteq Relay
  BY DEF Relays!Candidate, RelayTypes
<1>2. IsFiniteSet(Relays!Candidate)
  BY <1>1, FS_Subset
<1> QED  BY <1>1, <1>2, FS_CardinalityType

LEMMA RankedCandidates ==
  ASSUME RelayTypes
  PROVE  /\ Relays!Ranked \in Seq(Relays!Candidate)
         /\ Len(Relays!Ranked) = Cardinality(Relays!Candidate)
<1> DEFINE C == Relays!Candidate
           R == {p \in Relay \X Relay : Relays!Before(p[1], p[2])}
<1>1. IsFiniteSet(C) /\ C \subseteq Relay /\ Cardinality(C) \in Nat
  BY CandidatesFinite
<1>2. \A x, y \in C : <<x, y>> \in R <=> Relays!Before(x, y)
  BY <1>1
<1>3. Orders(R, C)
  <2>1. /\ \A x \in C : <<x, x>> \notin R
        /\ \A x, y \in C : x # y => <<x, y>> \in R \/ <<y, x>> \in R
    BY <1>1, <1>2, BeforeOrders
  <2>2. \A x, y, z \in C : <<x, y>> \in R /\ <<y, z>> \in R => <<x, z>> \in R
    BY <1>1, <1>2, BeforeOrders
  <2> QED  BY <2>1, <2>2 DEF Orders
<1>4. ASSUME NEW r \in C
      PROVE  Below(R, C, r) = {q \in C : Relays!Before(q, r)}
  BY <1>2 DEF Below
<1>5. ASSUME NEW i \in 1..Cardinality(C)
      PROVE  \E r \in C : Relays!Cardinality({q \in C : Relays!Before(q, r)}) = i - 1
  <2>1. i - 1 \in 0..(Cardinality(C) - 1)
    BY <1>1
  <2> HIDE DEF C, R
  <2>2. Filled(R, C)
    BY <1>1, <1>3, Places
  <2>3. \E r \in C : Cardinality(Below(R, C, r)) = i - 1
    BY <2>1, <2>2 DEF Filled
  <2> QED  BY <1>4, <2>3, RelaysCount
<1>6. Relays!Ranked = [i \in 1..Cardinality(C) |->
                         CHOOSE r \in C : Relays!Cardinality({q \in C : Relays!Before(q, r)})
                                            = i - 1]
  BY RelaysCount DEF Relays!Ranked
<1> HIDE DEF C
<1>7. Relays!Ranked \in [1..Cardinality(C) -> C]
  BY <1>5, <1>6
<1> QED  BY <1>1, <1>7 DEF C

\* A relay that fails by its recent samples fails by all of them.
LEMMA FailedLately ==
  ASSUME RelayTypes, NEW r \in Relay, Relays!Failed(r)
  PROVE  Relays!LostLately(r)
<1> DEFINE recent == Relays!LostSince(r, Relays!Recent(r))
           ever == Relays!LostSince(r, DOMAIN samples[r])
<1>1. DOMAIN samples[r] \subseteq 1..round /\ round \in Int
  BY SamplesTyped DEF RelayTypes
<1>2. \A t \in Relays!Recent(r), u \in DOMAIN samples[r] : t <= u => u \in Relays!Recent(r)
  BY <1>1 DEF Relays!Recent
<1>3. recent \subseteq ever
  BY <1>2 DEF Relays!LostSince, Relays!Recent
<1>4. ever \subseteq DOMAIN samples[r]
  BY DEF Relays!LostSince
<1>5. IsFiniteSet(ever)
  BY <1>4, SamplesTyped, FS_Subset
<1>6. Cardinality(recent) <= Cardinality(ever) /\ IsFiniteSet(recent)
  BY <1>3, <1>5, FS_Subset
<1>7. Cardinality(recent) \in Nat /\ Cardinality(ever) \in Nat
  BY <1>5, <1>6, FS_CardinalityType
<1>8. Cardinality(recent) >= Failures
  BY RelaysCount DEF Relays!Failed
<1>9. Cardinality(ever) >= Failures
  BY <1>6, <1>7, <1>8
<1> QED  BY <1>9, RelaysCount DEF Relays!LostLately

LEMMA RelaysInit == Relays!Init => Relays!Inv
<1> SUFFICES ASSUME Relays!Init PROVE Relays!Inv
  OBVIOUS
<1>1. \A r \in Relay : samples[r] = <<>>
  BY DEF Relays!Init
<1>2. <<>> \in [{} -> Latency \cup {0}]
  OBVIOUS
<1>3. \A r \in Relay : \E T \in SUBSET (1..round) : samples[r] \in [T -> Latency \cup {0}]
  BY <1>1, <1>2
<1>4. RelayTypes
  BY <1>3 DEF Relays!Init, Relays!Never, RelayTypes
<1> QED  BY <1>1, <1>4, RelayTyped DEF Relays!Inv, Relays!Init, Relays!Never

LEMMA RelaysList ==
  ASSUME Relays!Inv, NEW S \in SUBSET Relay, NEW D \in SUBSET S, Relays!List(S, D)
  PROVE  Relays!Inv' /\ relays' = relays
<1> USE DEF Relays!Inv, Relays!List
<1>1. RelayTypes
  BY RelayTyped
<1>2. <<>> \in [{} -> Latency \cup {0}]
  OBVIOUS
<1>3. \A r \in Relay : \E T \in SUBSET (1..round) : samples'[r] \in [T -> Latency \cup {0}]
  BY <1>1, <1>2 DEF RelayTypes
<1>4. RelayTypes'
  BY <1>1, <1>3 DEF RelayTypes
<1> QED  BY <1>4, RelayTypedNext

LEMMA RelaysPing ==
  ASSUME Relays!Inv, Relays!Ping
  PROVE  Relays!Inv' /\ relays' = relays
<1> USE DEF Relays!Inv, Relays!Ping
<1>1. RelayTypes
  BY RelayTyped
<1>2. round' = round + 1 /\ round' \in 0..MaxRounds
  BY <1>1 DEF RelayTypes
<1>3. \A r \in Relay : \E T \in SUBSET (1..round') : samples[r] \in [T -> Latency \cup {0}]
  <2>1. 1..round \subseteq 1..round'
    BY <1>1, <1>2 DEF RelayTypes
  <2> QED  BY <1>1, <2>1 DEF RelayTypes
<1>4. RelayTypes'
  BY <1>1, <1>2, <1>3 DEF RelayTypes
<1>5. changedAt' <= round' /\ selectedAt' <= round'
  BY <1>1, <1>2 DEF RelayTypes
<1>6. round' > 0
  BY <1>1, <1>2 DEF RelayTypes
<1> QED  BY <1>4, <1>5, <1>6, RelayTypedNext

LEMMA RelaysAnswers ==
  ASSUME Relays!Inv, NEW result \in [pinging -> Latency \cup {Relays!Lost}],
         Relays!Answers(result)
  PROVE  Relays!Inv' /\ relays' = relays
<1> USE DEF Relays!Inv, Relays!Answers
<1>1. RelayTypes
  BY RelayTyped
<1>2. UNCHANGED <<listed, draining, round, relays, selectedAt, changedAt>> /\ pinging' = {}
  OBVIOUS
<1>3. ASSUME NEW r \in Relay
      PROVE  \E T \in SUBSET (1..round) : samples'[r] \in [T -> Latency \cup {0}]
  <2> DEFINE T == Relays!Recent(r) \cup {round}
  <2>1. CASE r \in pinging \cap listed
    <3>1. samples'[r] = [t \in T |-> IF t = round THEN result[r] ELSE samples[r][t]]
      BY <2>1
    <3>2. result[r] \in Latency \cup {0}
      BY <2>1 DEF Relays!Lost
    <3>3. Relays!Recent(r) \subseteq DOMAIN samples[r]
      BY DEF Relays!Recent
    <3>4. round \in 1..round
      <4>1. round > 0 /\ round \in Int
        BY <1>1, <2>1 DEF RelayTypes
      <4> QED  BY <4>1
    <3>5. T \in SUBSET (1..round)
      BY <1>1, <3>3, <3>4, SamplesTyped
    <3>6. \A t \in T : (IF t = round THEN result[r] ELSE samples[r][t]) \in Latency \cup {0}
      BY <1>1, <3>2, <3>3, SamplesTyped
    <3> HIDE DEF T
    <3>7. samples'[r] \in [T -> Latency \cup {0}]
      BY <3>1, <3>6
    <3> QED  BY <3>5, <3>7
  <2>2. CASE r \notin pinging \cap listed
    BY <1>1, <2>2 DEF RelayTypes
  <2> QED  BY <2>1, <2>2
<1>4. DOMAIN samples' = Relay
  OBVIOUS
<1>5. RelayTypes'
  BY <1>1, <1>2, <1>3, <1>4 DEF RelayTypes
<1>6. \A r \in Relay : r \notin listed' => samples'[r] = <<>>
  OBVIOUS
<1>7. changedAt' <= round' /\ selectedAt' <= round'
  BY <1>2
<1> QED  BY <1>5, <1>6, <1>7, RelayTypedNext

\* What is chosen anew is the front of the ranking.
LEMMA FrontOfRanking ==
  ASSUME RelayTypes,
         NEW chosen,
         chosen = SubSeq(Relays!Ranked, 1,
                         IF Len(Relays!Ranked) < Wanted THEN Len(Relays!Ranked) ELSE Wanted)
  PROVE  /\ chosen \in Seq(Relay) /\ Len(chosen) <= Wanted
         /\ \A i \in DOMAIN chosen : chosen[i] \in Relays!Candidate
         /\ chosen = <<>> => Relays!Candidate = {}
<1> DEFINE n == Len(Relays!Ranked)
           m == IF n < Wanted THEN n ELSE Wanted
<1>1. Relays!Ranked \in Seq(Relays!Candidate) /\ n = Cardinality(Relays!Candidate)
  BY RankedCandidates
<1>2. n \in Nat /\ m \in 0..n /\ m <= Wanted
  BY <1>1
<1>3. \A i \in 1..n : Relays!Ranked[i] \in Relays!Candidate
  BY <1>1
<1>4. chosen = [i \in 1..m |-> Relays!Ranked[i]]
  BY <1>1, <1>2
<1> HIDE DEF n, m
<1>5. \A i \in 1..m : chosen[i] \in Relays!Candidate
  BY <1>2, <1>3, <1>4
<1>6. chosen \in Seq(Relays!Candidate) /\ Len(chosen) = m
  BY <1>2, <1>4, <1>5
<1>7. ASSUME chosen = <<>> PROVE Relays!Candidate = {}
  <2>1. m = 0
    BY <1>6, <1>7
  <2>2. n = 0
    BY <1>2, <2>1 DEF m
  <2> QED  BY <1>1, <2>2, CandidatesFinite, FS_EmptySet
<1> QED  BY <1>2, <1>4, <1>5, <1>6, <1>7, CandidatesFinite

\* A stop leaves no choice and no samples.
LEMMA RelaysStop ==
  ASSUME Relays!Inv, Relays!Stop
  PROVE  Relays!Inv' /\ Relays!Stopped
<1> USE DEF Relays!Inv, Relays!Stop
<1>1. RelayTypes
  BY RelayTyped
<1>2. /\ UNCHANGED <<listed, draining, round, selectedAt>> /\ relays' = <<>> /\ pinging' = {}
      /\ samples' = [r \in Relay |-> <<>>] /\ changedAt' \in {round, changedAt}
  OBVIOUS
<1>3. <<>> \in [{} -> Latency \cup {0}]
  OBVIOUS
<1>4. \A r \in Relay : \E T \in SUBSET (1..round) : samples'[r] \in [T -> Latency \cup {0}]
  BY <1>2, <1>3
<1>5. RelayTypes'
  <2>1. relays' \in Seq(Relay) /\ Len(relays') = 0 /\ changedAt' \in Int
    BY <1>1, <1>2 DEF RelayTypes
  <2>2. DOMAIN samples' = Relay
    BY <1>2
  <2>3. \A r \in Relay : \E T \in SUBSET (1..round') : samples'[r] \in [T -> Latency \cup {0}]
    BY <1>2, <1>4
  <2>4. listed' \in SUBSET Relay /\ draining' \in SUBSET listed' /\ pinging' \in SUBSET Relay
        /\ round' \in 0..MaxRounds /\ selectedAt' \in Int
    BY <1>1, <1>2 DEF RelayTypes
  <2> QED  BY <2>1, <2>2, <2>3, <2>4 DEF RelayTypes
<1>6. changedAt' <= round' /\ selectedAt' <= round'
  BY <1>1, <1>2 DEF RelayTypes
<1> QED  BY <1>2, <1>5, <1>6, RelayTypedNext DEF Relays!Stopped

LEMMA RelaysSelect ==
  ASSUME Relays!Inv, Relays!Select
  PROVE  Relays!Inv' /\ Relays!SelectionStep
<1> USE DEF Relays!Inv
<1>1. RelayTypes
  BY RelayTyped
<1>2. CASE UNCHANGED Relays!vars
  <2>1. RelayTypes'
    BY <1>1, <1>2 DEF Relays!vars, RelayTypes
  <2> QED  BY <1>2, <2>1, RelayTypedNext DEF Relays!vars, Relays!SelectionStep
<1>3. CASE /\ Relays!Healthy /\ selectedAt' = round
           /\ UNCHANGED <<listed, draining, round, pinging, samples, relays, changedAt>>
  <2>1. RelayTypes'
    BY <1>1, <1>3 DEF RelayTypes
  <2>2. changedAt' <= round' /\ selectedAt' <= round' /\ (relays' # <<>> => changedAt' <= selectedAt')
    BY <1>1, <1>3 DEF RelayTypes
  <2>3. Relays!Chosen(relays)
    BY <1>3 DEF Relays!Healthy, Relays!Chosen, Relays!Gone, Relays!Candidate
  <2> QED  BY <1>3, <2>1, <2>2, <2>3, RelayTypedNext DEF Relays!SelectionStep
<1>4. CASE /\ ~(Relays!Healthy /\ (Relays!Held \/ Relays!NoBetter))
           /\ relays' = SubSeq(Relays!Ranked, 1, IF Len(Relays!Ranked) < Wanted
                                                 THEN Len(Relays!Ranked) ELSE Wanted)
           /\ selectedAt' = round
           /\ changedAt' = IF relays' # relays THEN round ELSE changedAt
           /\ UNCHANGED <<listed, draining, round, pinging, samples>>
  <2>1. /\ relays' \in Seq(Relay) /\ Len(relays') <= Wanted
        /\ \A i \in DOMAIN relays' : relays'[i] \in Relays!Candidate
        /\ relays' = <<>> => Relays!Candidate = {}
    BY <1>1, <1>4, FrontOfRanking
  <2>2. round \in Int /\ changedAt \in Int /\ selectedAt \in Int
    BY <1>1 DEF RelayTypes
  <2>3. RelayTypes'
    BY <1>1, <1>4, <2>1 DEF RelayTypes
  <2>4. changedAt' <= round' /\ selectedAt' <= round' /\ changedAt' <= selectedAt'
    BY <1>4, <2>2
  <2>5. Relays!Inv'
    BY <1>4, <2>3, <2>4, RelayTypedNext
  <2>6. ASSUME relays # <<>>,
               \A i \in DOMAIN relays : ~(Relays!Gone(relays[i]) \/ Relays!LostLately(relays[i]))
        PROVE  round - changedAt >= Hold
    <3>1. \A i \in DOMAIN relays : relays[i] \in Relay
      BY <1>1 DEF RelayTypes
    <3>2. \A i \in DOMAIN relays : relays[i] \in Relays!Candidate
      BY <1>1, <2>6, <3>1, FailedLately DEF Relays!Candidate, Relays!Gone
    <3>3. Relays!Healthy
      BY <2>6, <3>2 DEF Relays!Healthy
    <3>4. ~Relays!Held
      BY <1>4, <3>3
    <3> QED  BY <2>2, <2>6, <3>4 DEF Relays!Held
  <2>7. \A i \in DOMAIN relays' : ~Relays!Gone(relays'[i]) /\ ~Relays!Failed(relays'[i])
    BY <2>1 DEF Relays!Gone, Relays!Candidate
  <2>8. ASSUME relays' = <<>>, NEW r \in listed \ draining PROVE Relays!LostLately(r)
    <3>1. r \in Relay /\ Relays!Failed(r)
      BY <1>1, <2>1, <2>8 DEF Relays!Candidate, RelayTypes
    <3> QED  BY <1>1, <3>1, FailedLately
  <2> QED  BY <2>5, <2>6, <2>7, <2>8 DEF Relays!SelectionStep, Relays!Chosen
<1> QED  BY <1>2, <1>3, <1>4 DEF Relays!Select

LEMMA RelaysStep ==
  ASSUME Relays!Inv, Relays!Next
  PROVE  Relays!Inv' /\ Relays!SelectionStep
<1>1. CASE \E S \in SUBSET Relay : \E D \in SUBSET S : Relays!List(S, D)
  <2>1. selectedAt' = selectedAt
    BY <1>1 DEF Relays!List
  <2> QED  BY <1>1, <2>1, RelaysList DEF Relays!SelectionStep
<1>2. CASE Relays!Ping
  <2>1. selectedAt' = selectedAt
    BY <1>2 DEF Relays!Ping
  <2> QED  BY <1>2, <2>1, RelaysPing DEF Relays!SelectionStep
<1>3. CASE \E result \in [pinging -> Latency \cup {Relays!Lost}] : Relays!Answers(result)
  <2>1. selectedAt' = selectedAt
    BY <1>3 DEF Relays!Answers
  <2> QED  BY <1>3, <2>1, RelaysAnswers DEF Relays!SelectionStep
<1>4. CASE Relays!Stop
  BY <1>4, RelaysStop DEF Relays!SelectionStep
<1> QED  BY <1>1, <1>2, <1>3, <1>4, RelaysSelect DEF Relays!Next

LEMMA RelaysStutter ==
  ASSUME Relays!Inv, UNCHANGED relayVars
  PROVE  Relays!Inv'
BY DEF relayVars, Relays!Inv, Relays!TypeOK

HIDE RelayAssumption

-----------------------------------------------------------------------------
(* The composition.                                                          *)

Supports == Rollout!Supported /\ Lan!Guarded /\ Fragment!Assembling /\ Relays!Inv

\* A component that does not step keeps what its properties rest on.
LEMMA RolloutStutters ==
  ASSUME Rollout!Supported, UNCHANGED rolloutVars PROVE Rollout!Supported'
BY DEF rolloutVars, Rollout!Supported, Rollout!Inv, Rollout!TypeOK, Rollout!ReplicasVerified,
   Rollout!Revisions, Rollout!Reading, Rollout!Installable, Rollout!ReleaseURLs,
   Rollout!Current, Rollout!Artifact, Rollout!NoTransfer, Rollout!State

LEMMA LanStutters ==
  ASSUME Lan!Guarded, UNCHANGED lanVars PROVE Lan!Guarded'
<1>1. LanParts
  BY LanHeld
<1>2. PolicyHeld' /\ FlowsHeld' /\ ChunksHeld' /\ Lan!Windows'
  BY <1>1 DEF lanVars, LanParts, PolicyHeld, FlowsHeld, ChunksHeld, Lan!Windows
<1>3. QueueHeld' /\ WriterHeld' /\ LedgerHeld'
  BY <1>1 DEF lanVars, LanParts, QueueHeld, WriterHeld, LedgerHeld
<1>4. Lan!Refused' /\ Lan!FlowsJustified' /\ Lan!CheckedInForce' /\ ~breach'
  BY <1>1 DEF lanVars, LanParts, Lan!Refused, Lan!Accepted, Lan!Replayed, Lan!FlowsJustified,
     Lan!CheckedInForce, Lan!InForce, Lan!FlowOf, Lan!NoFrame
<1> QED  BY <1>2, <1>3, <1>4, LanHeldNext DEF LanParts

LEMMA FragmentStutters ==
  ASSUME Fragment!Assembling, UNCHANGED fragmentVars PROVE Fragment!Assembling'
BY DEF fragmentVars, Fragment!Assembling, Fragment!Inv, Fragment!TypeOK,
   Fragment!CheckedIsAssembled, Fragment!Ends, Fragment!Covering, Fragment!SideBySide,
   Fragment!EndKnown

\* A step of the composition is one of a single component.
LEMMA OneComponent ==
  ASSUME [PartsNext]_all
  PROVE  /\ UNCHANGED rolloutVars \/ Rollout!Next
         /\ UNCHANGED lanVars \/ Lan!Next
         /\ UNCHANGED fragmentVars \/ Fragment!Next
         /\ UNCHANGED relayVars \/ Relays!Next
<1>1. CASE UNCHANGED all
  BY <1>1 DEF all
<1>2. CASE InAddresses
  BY <1>2 DEF InAddresses
<1>3. CASE InRollout
  BY <1>3 DEF InRollout
<1>4. CASE InLan
  BY <1>4 DEF InLan
<1>5. CASE InFragments
  BY <1>5 DEF InFragments
<1>6. CASE InRelays
  BY <1>6 DEF InRelays
<1> QED  BY <1>1, <1>2, <1>3, <1>4, <1>5, <1>6 DEF PartsNext

\* Whatever the bounds, each component keeps what its properties rest on.
THEOREM AlwaysSupported == PartsSpec => []Supports
<1>1. PartsInit => Supports
  BY RolloutInit, LanInit, FragmentInit, RelaysInit DEF PartsInit, Supports
<1>2. Supports /\ [PartsNext]_all => Supports'
  <2> SUFFICES ASSUME Supports, [PartsNext]_all PROVE Supports'
    OBVIOUS
  <2>1. Rollout!Supported'
    BY OneComponent, RolloutStutters, RolloutStep DEF Supports
  <2>2. Lan!Guarded'
    BY OneComponent, LanStutters, LanStep DEF Supports
  <2>3. Fragment!Assembling'
    BY OneComponent, FragmentStutters, FragmentStep DEF Supports
  <2>4. Relays!Inv'
    BY OneComponent, RelaysStutter, RelaysStep DEF Supports
  <2> QED  BY <2>1, <2>2, <2>3, <2>4 DEF Supports
<1> QED  BY <1>1, <1>2, PTL DEF PartsSpec

\* A copy that counts was verified in full where its source points now, however often the
\* source and the release were saved while the package was being read: recordReplica.
THEOREM CopiesVerified == PartsSpec => []RolloutInv
<1>1. Supports => RolloutInv
  BY DEF Supports, RolloutInv, Rollout!Supported
<1> QED  BY <1>1, AlwaysSupported, PTL

\* A device that is shut out is offered a release that can be fetched and lets it in, or its
\* agent is that release or newer and what its desktop or its report lacks lets it in,
\* whatever is saved in whatever order: savePolicy, saveRelease, saveSource, saveRepository,
\* updateRequired, checkUpdate.
THEOREM ShutOutCanReturn == PartsSpec => []RequiredCanUpdate
<1>1. Supports => RequiredCanUpdate
  BY RolloutOffers DEF Supports, RequiredCanUpdate
<1> QED  BY <1>1, AlwaysSupported, PTL

\* As long as its session's window is kept, a frame reaches the host at most once under one
\* game policy, for every size of the window and every loss, repetition and order of its
\* chunks; once a session has been quiet for two minutes this begins anew: Device.Write.
THEOREM FramesOnce == PartsSpec => []LanInv
<1>1. Supports => LanInv
  BY LanKeeps DEF Supports, LanInv
<1> QED  BY <1>1, AlwaysSupported, PTL

\* No frame crosses in either direction against the policy in force at that moment, wherever
\* it was when the policy was replaced: Device.Read, Device.deliver.
THEOREM PolicyInForce == PartsSpec => []OnlyInForce
<1>1. Supports => OnlyInForce
  BY LanKeeps DEF Supports, OnlyInForce
<1> QED  BY <1>1, AlwaysSupported, PTL

\* What was checked of a datagram is what the host assembles, for every size of a datagram and
\* every order and overlap of its fragments: Device.defragment.
THEOREM CheckedAssembled == PartsSpec => []FragmentsInv
<1>1. Supports => FragmentsInv
  BY DEF Supports, FragmentsInv, Fragment!Assembling
<1> QED  BY <1>1, AlwaysSupported, PTL

\* A choice of relays gives way only to the loss of one of its relays, after its minute or
\* when the network stops, and is made and renewed only of relays that are there, do not
\* drain and have not failed, for every number of relays and every history of answers, losses
\* and snapshots: selectRelaysLocked, Service.Failed, Service.Update, stopNetworkLocked.
THEOREM ChoiceKept == PartsSpec => SteadyAndHealthy
<1>1. Supports /\ [PartsNext]_all => [Relays!SelectionStep]_(Relays!vars)
  <2> SUFFICES ASSUME Supports, [PartsNext]_all, ~UNCHANGED Relays!vars
               PROVE  Relays!SelectionStep
    OBVIOUS
  <2>1. ~UNCHANGED relayVars
    BY DEF relayVars, Relays!vars
  <2> QED  BY <2>1, OneComponent, RelaysStep DEF Supports
<1>2. [][Relays!SelectionStep]_(Relays!vars) <=> SteadyAndHealthy
  BY DEF SteadyAndHealthy, Relays!SteadyAndHealthy
<1> QED  BY <1>1, <1>2, AlwaysSupported, PTL DEF PartsSpec
=============================================================================
