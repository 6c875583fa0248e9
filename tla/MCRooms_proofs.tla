--------------------------- MODULE MCRooms_proofs ---------------------------
(***************************************************************************)
(* Proofs about module MCRooms: the data plane of a player, for every set  *)
(* of peers and rooms, every life of certificates and every number of      *)
(* certificates, edits and leases.                                         *)
(*                                                                         *)
(* What its properties rest on is Supported, of module Engine: either the  *)
(* engine rests and nothing of an earlier configuration is left, or        *)
(* Nebula, the rendered configuration and the adapter are those of the     *)
(* lease and snapshot last applied.  That is more than the properties say, *)
(* since Apply decides by comparing what it would render with what it      *)
(* rendered: only because the two agree does an unchanged configuration    *)
(* mean an unchanged blocklist, and an unchanged game unchanged rules.     *)
(*                                                                         *)
(* The seats of two contended rooms follow from RoomControl_proofs, whose  *)
(* invariant holds of any instance.                                        *)
(***************************************************************************)
EXTENDS MCRooms, Sequences, TLAPS

USE EngineAssumption

-----------------------------------------------------------------------------
(* The two conditions of the engine.                                         *)

\* What a resting engine holds is not what a loaded one holds.
LEMMA RestOrLoaded ==
  ASSUME Data!Loaded
  PROVE  control # Data!Stopped /\ raw # Data!NoConfig /\ lan # Data!Closed
<1>1. control.rules = <<applied.lease.room, applied.snapshot.game>>
  BY DEF Data!Loaded
<1>2. Data!Stopped.rules = << >>
  BY DEF Data!Stopped
<1>3. control # Data!Stopped
  BY <1>1, <1>2
<1>4. raw.lease = applied.lease /\ Data!NoConfig.lease = Data!NoLease
  BY DEF Data!Loaded, Data!NoConfig
<1>5. applied.lease.end # 0 /\ Data!NoLease.end = 0
  BY DEF Data!Loaded, Data!NoLease
<1>6. lan.game # 0 /\ Data!Closed.game = 0
  BY DEF Data!Loaded, Data!Closed
<1> QED  BY <1>3, <1>4, <1>5, <1>6

LEMMA LoadedIffRunning ==
  ASSUME Data!Supported
  PROVE  /\ Data!Running => Data!Loaded
         /\ ~Data!Running => Data!Idle
BY RestOrLoaded DEF Data!Supported, Data!Idle, Data!Running

LEMMA EngineKeeps == Data!Supported => Data!Inv
<1> SUFFICES ASSUME Data!Supported PROVE Data!Inv
  OBVIOUS
<1>1. Data!TypeOK
  BY RestOrLoaded DEF Data!Supported, Data!Numbered, Data!Idle, Data!Running, Data!TypeOK
<1>2. Data!InStep
  BY LoadedIffRunning DEF Data!Loaded, Data!InStep
<1> QED  BY <1>1, <1>2 DEF Data!Supported, Data!Inv

LEMMA EngineInit == Data!Init => Data!Supported
<1> SUFFICES ASSUME Data!Init PROVE Data!Supported
  OBVIOUS
<1>1. issued \in Seq([peer: Peer, end: Nat]) /\ DOMAIN issued = {}
  BY DEF Data!Init
<1>2. snapshot.game \in Nat \ {0} /\ lease.end \in Nat
  <2>1. snapshot = Data!SnapshotOf /\ game = 1 /\ lease = Data!NoLease
    BY DEF Data!Init
  <2>2. snapshot.game = 1
    BY <2>1 DEF Data!SnapshotOf
  <2>3. lease.end = 0
    BY <2>1 DEF Data!NoLease
  <2> QED  BY <2>2, <2>3
<1>3. now \in 0..EngineClock /\ member \subseteq Peer /\ cut = {} /\ tunnels = {}
      /\ generation \in {0, 1} /\ game \in Nat \ {0}
  BY DEF Data!Init
<1>4. Data!Numbered
  BY <1>1, <1>2, <1>3 DEF Data!Numbered
<1>5. Data!Idle
  BY DEF Data!Init, Data!Idle
<1> QED  BY <1>4, <1>5 DEF Data!Supported, Data!RevokedAreCut, Data!Idle, Data!Running

-----------------------------------------------------------------------------
(* The steps of others leave the engine alone.                               *)

\* Where the engine, its tunnels and what they showed are left alone, so is what it holds.
LEMMA EngineLeftAlone ==
  ASSUME Data!Supported, UNCHANGED Data!engine, UNCHANGED tunnels
  PROVE  (Data!Idle \/ Data!Loaded)'
BY DEF Data!Supported, Data!engine, Data!Idle, Data!Loaded

LEMMA SeqElements ==
  ASSUME NEW S, NEW s \in Seq(S)
  PROVE  \A c \in DOMAIN s : s[c] \in S
OBVIOUS

LEMMA OthersKeep ==
  ASSUME Data!Supported, UNCHANGED Data!engine, Data!Numbered',
         tunnels' \subseteq tunnels,
         \A c \in tunnels' : issued'[c] = issued[c] /\ now' >= now
  PROVE  Data!RevokedAreCut'
<1>1. \A c \in tunnels' : issued[c].end \in Nat
  <2>1. issued \in Seq([peer: Peer, end: Nat]) /\ tunnels \subseteq DOMAIN issued
    BY DEF Data!Supported, Data!Numbered
  <2>2. \A c \in DOMAIN issued : issued[c] \in [peer: Peer, end: Nat]
    BY <2>1, SeqElements
  <2> QED  BY <2>1, <2>2
<1>2. now \in Nat /\ now' \in Nat
  BY DEF Data!Supported, Data!Numbered
<1>3. \A c \in tunnels' : issued'[c].end > now' => issued[c].end > now
  BY <1>1, <1>2
<1>4. Data!Running' => Data!Running
  BY DEF Data!engine, Data!Running
<1> QED  BY <1>3, <1>4 DEF Data!Supported, Data!RevokedAreCut, Data!engine

LEMMA ClockTicks ==
  ASSUME Data!Supported, Data!Tick
  PROVE  Data!Supported'
<1>1. Data!Numbered'
  BY DEF Data!Supported, Data!Numbered, Data!Tick, Data!plane, Data!engine
<1>2. UNCHANGED Data!engine /\ UNCHANGED tunnels /\ UNCHANGED issued /\ now' = now + 1
  BY DEF Data!Tick, Data!plane
<1>3. now \in Nat
  BY DEF Data!Supported, Data!Numbered
<1> QED  BY <1>1, <1>2, <1>3, EngineLeftAlone, OthersKeep DEF Data!Supported

LEMMA CertificatesIssued ==
  ASSUME Data!Supported, NEW p \in Peer, Data!Issue(p)
  PROVE  Data!Supported'
<1> DEFINE new == [peer |-> p, end |-> now + Life]
<1>1. now \in Nat /\ issued \in Seq([peer: Peer, end: Nat])
  BY DEF Data!Supported, Data!Numbered
<1>2. new \in [peer: Peer, end: Nat]
  BY <1>1
<1>3. issued' = Append(issued, new) /\ member' = member \cup {p} /\ now' = now
      /\ UNCHANGED <<cut, game, nodes, lease, snapshot, tunnels>> /\ UNCHANGED Data!engine
  BY DEF Data!Issue
<1> HIDE DEF new
<1>4. issued' \in Seq([peer: Peer, end: Nat]) /\ DOMAIN issued \subseteq DOMAIN issued'
      /\ \A c \in DOMAIN issued : issued'[c] = issued[c]
  BY <1>1, <1>2, <1>3
<1>5. Data!Numbered'
  BY <1>3, <1>4 DEF Data!Supported, Data!Numbered, Data!engine
<1>6. \A c \in tunnels' : issued'[c] = issued[c] /\ now' >= now
  BY <1>1, <1>3, <1>4 DEF Data!Supported, Data!Numbered
<1> QED  BY <1>3, <1>5, <1>6, EngineLeftAlone, OthersKeep DEF Data!Supported

\* Steps of the control plane and the agent that issue nothing.
LEMMA NothingIssued ==
  ASSUME Data!Supported, UNCHANGED Data!engine, UNCHANGED <<now, issued, tunnels>>,
         Data!Numbered'
  PROVE  Data!Supported'
<1>1. now \in Nat
  BY DEF Data!Supported, Data!Numbered
<1> QED  BY <1>1, EngineLeftAlone, OthersKeep DEF Data!Supported

LEMMA PlaneSteps ==
  ASSUME Data!Supported,
         \/ \E p \in Peer : Data!Remove(p)
         \/ Data!EditGame \/ Data!ChangeNodes
         \/ Data!Fetch
         \/ \E r \in EngineRoom : Data!Renew(r)
  PROVE  Data!Supported'
<1> USE DEF Data!Supported, Data!Numbered, Data!engine, Data!plane
<1>1. CASE \E p \in Peer : Data!Remove(p)
  BY <1>1, NothingIssued DEF Data!Remove
<1>2. CASE Data!EditGame
  BY <1>2, NothingIssued DEF Data!EditGame
<1>3. CASE Data!ChangeNodes
  BY <1>3, NothingIssued DEF Data!ChangeNodes
<1>4. CASE Data!Fetch
  <2>1. snapshot'.game = game
    BY <1>4 DEF Data!Fetch, Data!SnapshotOf
  <2> QED  BY <1>4, <2>1, NothingIssued DEF Data!Fetch
<1>5. CASE \E r \in EngineRoom : Data!Renew(r)
  <2>1. lease'.end = now + Life
    BY <1>5 DEF Data!Renew
  <2>2. lease'.end \in Nat
    BY <2>1
  <2> QED  BY <1>5, <2>2, NothingIssued DEF Data!Renew
<1> QED  BY <1>1, <1>2, <1>3, <1>4, <1>5

-----------------------------------------------------------------------------
(* Tunnels and the engine.                                                   *)

\* A handshake is refused to a certificate on the blocklist Nebula runs with, which is
\* that of the snapshot last applied.
LEMMA HandshakeKeeps ==
  ASSUME Data!Supported, NEW c \in DOMAIN issued, Data!Handshake(c)
  PROVE  Data!Supported'
<1>1. tunnels' = tunnels \cup {c} /\ c \notin control.blocked /\ Data!Running
      /\ UNCHANGED <<now, snapshot, lease>> /\ UNCHANGED Data!engine
      /\ UNCHANGED Data!plane
  BY DEF Data!Handshake
<1>2. Data!Loaded
  BY <1>1, LoadedIffRunning
<1>3. c \notin applied.snapshot.blocked
  BY <1>1, <1>2 DEF Data!Loaded
<1>4. Data!Numbered'
  BY <1>1 DEF Data!Supported, Data!Numbered, Data!engine, Data!plane
<1>5. Data!Loaded'
  BY <1>1, <1>2 DEF Data!Loaded, Data!engine
<1>6. Data!RevokedAreCut'
  BY <1>1, <1>3 DEF Data!Supported, Data!RevokedAreCut, Data!engine, Data!plane, Data!Running
<1> QED  BY <1>4, <1>5, <1>6 DEF Data!Supported

\* Tunnels may end at any time.
LEMMA FewerTunnels ==
  ASSUME Data!Supported, tunnels' \subseteq tunnels, UNCHANGED <<now, snapshot, lease>>,
         UNCHANGED Data!engine, UNCHANGED Data!plane
  PROVE  Data!Supported'
<1>1. Data!Numbered'
  BY DEF Data!Supported, Data!Numbered, Data!engine, Data!plane
<1>2. (Data!Idle \/ Data!Loaded)'
  BY DEF Data!Supported, Data!Idle, Data!Loaded, Data!engine
<1>3. Data!RevokedAreCut'
  BY DEF Data!Supported, Data!RevokedAreCut, Data!engine, Data!plane, Data!Running
<1> QED  BY <1>1, <1>2, <1>3 DEF Data!Supported

LEMMA StopsAllKeeps ==
  ASSUME Data!Supported, Data!StopsAll, UNCHANGED <<now, snapshot, lease>>,
         UNCHANGED Data!plane
  PROVE  Data!Supported'
<1>1. Data!Idle'
  BY DEF Data!StopsAll, Data!Idle
<1>2. Data!Numbered'
  BY DEF Data!Supported, Data!Numbered, Data!StopsAll, Data!plane
<1> QED  BY <1>1, <1>2 DEF Data!Supported, Data!Idle, Data!RevokedAreCut, Data!Running

\* The lease and the snapshot that the agent has are in force, wherever they were loaded:
\* of the tunnels, those the snapshot revokes were cut or are none.
LEMMA NowLoaded ==
  ASSUME Data!Supported, Data!Valid,
         control' = Data!Nebula, raw' = Data!Rendered, lan' = Data!Policy,
         applied' = Data!Config, generation' \in {0, 1},
         tunnels' \subseteq tunnels,
         \A c \in tunnels' : issued[c].end > now => c \notin snapshot.blocked,
         UNCHANGED <<now, snapshot, lease>>, UNCHANGED Data!plane
  PROVE  Data!Supported'
<1>1. Data!Numbered'
  BY DEF Data!Supported, Data!Numbered, Data!plane
<1>2. applied'.lease = lease /\ applied'.snapshot = snapshot
  BY DEF Data!Config
<1>3. lease.end \in Nat \ {0} /\ snapshot.game \in Nat \ {0}
  BY DEF Data!Supported, Data!Numbered, Data!Valid
<1>4. Data!Loaded'
  BY <1>2, <1>3 DEF Data!Loaded, Data!Nebula, Data!Rendered, Data!Policy
<1>5. Data!RevokedAreCut'
  BY <1>2 DEF Data!RevokedAreCut, Data!plane
<1> QED  BY <1>1, <1>4, <1>5 DEF Data!Supported

\* Nothing to load: what would be rendered is what was, so the blocklist is the one that
\* the tunnels were held against.
LEMMA SameKeeps ==
  ASSUME Data!Supported, Data!Same
  PROVE  Data!Supported'
<1>1. Data!Valid /\ Data!Running /\ Data!Rendered = raw
      /\ UNCHANGED <<now, snapshot, lease>> /\ UNCHANGED Data!plane
  BY DEF Data!Same
<1>2. Data!Loaded
  BY <1>1, LoadedIffRunning
<1>3. CASE Data!Refused
  BY <1>1, <1>3, StopsAllKeeps DEF Data!Refused
<1>4. CASE /\ lan' = Data!Policy /\ applied' = Data!Config
           /\ UNCHANGED <<control, raw, generation, tunnels>>
  <2>1. lease = applied.lease /\ snapshot.blocked = applied.snapshot.blocked
        /\ snapshot.game = applied.snapshot.game
    BY <1>1, <1>2 DEF Data!Loaded, Data!Rendered
  <2>2. control' = Data!Nebula
    BY <1>2, <1>4, <2>1 DEF Data!Loaded, Data!Nebula
  <2>3. generation' \in {0, 1}
    BY <1>4 DEF Data!Supported, Data!Numbered
  <2>4. \A c \in tunnels' : issued[c].end > now => c \notin snapshot.blocked
    BY <1>1, <1>4, <2>1 DEF Data!Supported, Data!RevokedAreCut
  <2> QED  BY <1>1, <1>4, <2>2, <2>3, <2>4, NowLoaded
<1> QED  BY <1>3, <1>4 DEF Data!Same

LEMMA StartKeeps ==
  ASSUME Data!Supported, Data!Start
  PROVE  Data!Supported'
<1>1. Data!Valid /\ UNCHANGED <<now, snapshot, lease>> /\ UNCHANGED Data!plane
  BY DEF Data!Start
<1>2. CASE Data!StopsAll
  BY <1>1, <1>2, StopsAllKeeps
<1>3. CASE /\ control' = Data!Nebula /\ lan' = Data!Policy /\ tunnels' = {}
           /\ raw' = Data!Rendered /\ applied' = Data!Config /\ generation' = 1 - generation
  <2>1. generation' \in {0, 1}
    BY <1>3 DEF Data!Supported, Data!Numbered
  <2> QED  BY <1>1, <1>3, <2>1, NowLoaded
<1> QED  BY <1>2, <1>3 DEF Data!Start

LEMMA ReloadKeeps ==
  ASSUME Data!Supported, Data!Reload
  PROVE  Data!Supported'
<1>1. Data!Valid /\ Data!Running
      /\ UNCHANGED <<now, snapshot, lease>> /\ UNCHANGED Data!plane
  BY DEF Data!Reload
<1>2. CASE Data!Refused
  BY <1>1, <1>2, StopsAllKeeps DEF Data!Refused
<1>3. CASE
    /\ control' = [control EXCEPT !.blocked = snapshot.blocked,
                                  !.rules = Data!Nebula.rules]
    /\ lan' = Data!Policy /\ tunnels' = {c \in tunnels : ~Data!Invalid(c)}
    /\ raw' = Data!Rendered /\ applied' = Data!Config /\ UNCHANGED generation
  <2>1. Data!Loaded
    BY <1>1, LoadedIffRunning
  <2>2. control = [blocked |-> applied.snapshot.blocked,
                   rules |-> <<applied.lease.room, applied.snapshot.game>>]
    BY <2>1 DEF Data!Loaded
  <2>3. control' = Data!Nebula
    BY <1>3, <2>2 DEF Data!Nebula
  <2>4. generation' \in {0, 1}
    BY <1>3 DEF Data!Supported, Data!Numbered
  <2>5. tunnels' \subseteq tunnels
        /\ \A c \in tunnels' : issued[c].end > now => c \notin snapshot.blocked
    BY <1>3 DEF Data!Invalid
  <2> QED  BY <1>1, <1>3, <2>3, <2>4, <2>5, NowLoaded
<1> QED  BY <1>2, <1>3 DEF Data!Reload

LEMMA ExpireKeeps ==
  ASSUME Data!Supported, Data!Expire
  PROVE  Data!Supported'
<1>1. UNCHANGED <<now, snapshot, lease>> /\ UNCHANGED Data!plane
  BY DEF Data!Expire
<1>2. CASE Data!StopsAll
  BY <1>1, <1>2, StopsAllKeeps
<1>3. CASE tunnels' = {c \in tunnels : issued[c].end > now} /\ UNCHANGED Data!engine
  BY <1>1, <1>3, FewerTunnels
<1> QED  BY <1>2, <1>3 DEF Data!Expire

LEMMA EngineStep == Data!Supported /\ Data!Next => Data!Supported'
<1> SUFFICES ASSUME Data!Supported, Data!Next PROVE Data!Supported'
  OBVIOUS
<1>1. CASE Data!Tick
  BY <1>1, ClockTicks
<1>2. ASSUME NEW p \in Peer, Data!Issue(p) \/ Data!Remove(p) PROVE Data!Supported'
  BY <1>2, CertificatesIssued, PlaneSteps
<1>3. CASE Data!EditGame \/ Data!ChangeNodes \/ Data!Fetch \/ \E r \in EngineRoom : Data!Renew(r)
  BY <1>3, PlaneSteps
<1>4. ASSUME NEW c \in DOMAIN issued, Data!Handshake(c) PROVE Data!Supported'
  BY <1>4, HandshakeKeeps
<1>5. ASSUME NEW c \in DOMAIN issued, Data!Breaks(c) PROVE Data!Supported'
  <2>1. tunnels' \subseteq tunnels
    BY <1>5 DEF Data!Breaks
  <2> QED  BY <1>5, <2>1, FewerTunnels DEF Data!Breaks
<1>6. CASE Data!Same \/ Data!Start \/ Data!Reload \/ Data!Expire
  BY <1>6, SameKeeps, StartKeeps, ReloadKeeps, ExpireKeeps
<1>7. CASE Data!Stop
  BY <1>7, StopsAllKeeps DEF Data!Stop
<1> QED  BY <1>1, <1>2, <1>3, <1>4, <1>5, <1>6, <1>7 DEF Data!Next

\* Rules change by a restart: a reload loads another game or room only where the rendered
\* configuration and the rules had already parted, which they never do.
LEMMA EngineRules == Data!Supported /\ Data!Next => Data!RulesStep
<1> SUFFICES ASSUME Data!Supported, Data!Next, Data!Running, control' # Data!Stopped
             PROVE  control'.rules = control.rules \/ generation' # generation
  BY DEF Data!RulesStep
<1>1. Data!Loaded
  BY LoadedIffRunning
<1>2. control.rules = <<applied.lease.room, applied.snapshot.game>>
  BY <1>1 DEF Data!Loaded
<1>3. ~Data!StopsAll
  BY DEF Data!StopsAll
<1>4. CASE UNCHANGED control
  BY <1>4
<1>5. CASE Data!Start
  <2>1. generation' = 1 - generation
    BY <1>3, <1>5 DEF Data!Start
  <2> QED  BY <2>1 DEF Data!Supported, Data!Numbered
<1>6. CASE Data!Reload
  <2>1. control' = [control EXCEPT !.blocked = snapshot.blocked,
                                   !.rules = Data!Nebula.rules]
    BY <1>3, <1>6 DEF Data!Reload, Data!Refused
  <2>2. control = [blocked |-> applied.snapshot.blocked,
                   rules |-> <<applied.lease.room, applied.snapshot.game>>]
    BY <1>1 DEF Data!Loaded
  <2>3. control'.rules = <<lease.room, snapshot.game>>
    BY <2>1, <2>2 DEF Data!Nebula
  <2>4. applied.lease.room = lease.room /\ raw.game = snapshot.game
    BY <1>6 DEF Data!Reload, Data!Restarts
  <2>5. raw.game = applied.snapshot.game
    BY <1>1 DEF Data!Loaded
  <2> QED  BY <1>2, <2>3, <2>4, <2>5
<1>7. UNCHANGED control \/ Data!Start \/ Data!Reload
  BY <1>3 DEF Data!Next, Data!Tick, Data!Issue, Data!Remove, Data!EditGame, Data!ChangeNodes,
              Data!Fetch, Data!Renew, Data!Handshake, Data!Breaks, Data!Same, Data!Refused,
              Data!Expire, Data!Stop, Data!engine
<1> QED  BY <1>4, <1>5, <1>6, <1>7

-----------------------------------------------------------------------------
(* The seats of two rooms, which the theorems of RoomControl_proofs bound.   *)

\* The proofs of RoomControl_proofs, of the two rooms.
TwoProofs == INSTANCE RoomControl_proofs WITH
  Device <- PairOfDevices, UserOf <- PairUsers, FirstGrant <- PairGrants,
  Capacity <- 1, Enforced <- Nothing, Suspended <- Guests, MaxClock <- 0

LEMMA TwoConstants ==
  /\ PairUsers \in [PairOfDevices -> User]
  /\ PairGrants \in [PairOfDevices -> Nat \cup {TwoProofs!Never}]
  /\ Nothing \subseteq PairOfDevices /\ Guests \subseteq User
  /\ PairOfDevices \subseteq Device /\ Leasing \subseteq PairOfDevices
  /\ TwoProofs!NoMac = NoMac
BY PairAssumption DEF PairUsers, PairGrants, MCUserOf, MCFirstGrant, Nothing, Guests,
                      Never, TwoProofs!Never, NoMac, TwoProofs!NoMac

LEMMA TwoInductive ==
  /\ TwoProofs!Init => TwoProofs!RoomInv
  /\ TwoProofs!RoomInv /\ [TwoProofs!Next]_TwoProofs!vars => TwoProofs!RoomInv'
<1>1. TwoProofs!Init => TwoProofs!RoomInv
  BY TwoConstants, RoomAssumption, TimeAssumption, TwoProofs!Initially
<1>2. TwoProofs!RoomInv /\ [TwoProofs!Next]_TwoProofs!vars => TwoProofs!RoomInv'
  BY TwoConstants, RoomAssumption, TimeAssumption, TwoProofs!Inductive
<1> QED  BY <1>1, <1>2

\* The rooms whose proofs are used are the two rooms of MCRooms.
LEMMA SameRooms ==
  /\ Two!Init <=> TwoProofs!Init
  /\ Two!Next <=> TwoProofs!Next
  /\ Two!RoomWithinCapacity <=> TwoProofs!RoomWithinCapacity
<1>1. Two!Init <=> TwoProofs!Init
  BY DEF Two!Init, TwoProofs!Init, Two!NoRoom, TwoProofs!NoRoom, Two!NULL, TwoProofs!NULL,
         Two!IP, TwoProofs!IP, Two!Pool!NoRow, TwoProofs!Pool!NoRow,
         Two!Pool!NULL, TwoProofs!Pool!NULL
<1>2. Two!Next <=> TwoProofs!Next
  BY Zenon DEF Two!Never, TwoProofs!Never, Two!NULL, TwoProofs!NULL,
       Two!NoRoom, TwoProofs!NoRoom, Two!NoMac, TwoProofs!NoMac,
       Two!accounts, TwoProofs!accounts, Two!IP, TwoProofs!IP, Two!Min, TwoProofs!Min,
       Two!GrantExpired, TwoProofs!GrantExpired, Two!Authorized, TwoProofs!Authorized,
       Two!Registered, TwoProofs!Registered, Two!InUse, TwoProofs!InUse,
       Two!Open, TwoProofs!Open, Two!RowsOf, TwoProofs!RowsOf, Two!Roster, TwoProofs!Roster,
       Two!Banned, TwoProofs!Banned, Two!ActiveMember, TwoProofs!ActiveMember,
       Two!Owns, TwoProofs!Owns, Two!Pairs, TwoProofs!Pairs, Two!Everyone, TwoProofs!Everyone,
       Two!Touched, TwoProofs!Touched, Two!StaleRows, TwoProofs!StaleRows,
       Two!Available, TwoProofs!Available, Two!Alike, TwoProofs!Alike,
       Two!Latest, TwoProofs!Latest, Two!CertsAfter, TwoProofs!CertsAfter,
       Two!MembersAfter, TwoProofs!MembersAfter, Two!AddressesAfter, TwoProofs!AddressesAfter,
       Two!Revoke, TwoProofs!Revoke, Two!Closed, TwoProofs!Closed,
       Two!Uninvited, TwoProofs!Uninvited, Two!Seat, TwoProofs!Seat,
       Two!AddMember, TwoProofs!AddMember, Two!CreateRoom, TwoProofs!CreateRoom,
       Two!JoinRoom, TwoProofs!JoinRoom, Two!OwnerJoin, TwoProofs!OwnerJoin,
       Two!MacIsFree, TwoProofs!MacIsFree, Two!Heartbeat, TwoProofs!Heartbeat,
       Two!Limit, TwoProofs!Limit, Two!Lease, TwoProofs!Lease, Two!Leave, TwoProofs!Leave,
       Two!Target, TwoProofs!Target, Two!Kick, TwoProofs!Kick, Two!Transfer, TwoProofs!Transfer,
       Two!CloseRooms, TwoProofs!CloseRooms, Two!Close, TwoProofs!Close,
       Two!Invite, TwoProofs!Invite, Two!InviteRevoke, TwoProofs!InviteRevoke,
       Two!Takeover, TwoProofs!Takeover, Two!Owned, TwoProofs!Owned,
       Two!EndConnections, TwoProofs!EndConnections, Two!DevicesOf, TwoProofs!DevicesOf,
       Two!RevokeDevice, TwoProofs!RevokeDevice, Two!SetDisabled, TwoProofs!SetDisabled,
       Two!AdminRevoke, TwoProofs!AdminRevoke, Two!DeleteUser, TwoProofs!DeleteUser,
       Two!LinkGuest, TwoProofs!LinkGuest, Two!AdminClose, TwoProofs!AdminClose,
       Two!AdminKick, TwoProofs!AdminKick, Two!OutdatedRows, TwoProofs!OutdatedRows,
       Two!Expired, TwoProofs!Expired, Two!Sweep, TwoProofs!Sweep,
       Two!SetOutdated, TwoProofs!SetOutdated, Two!Tick, TwoProofs!Tick,
       Two!PlayerStep, TwoProofs!PlayerStep, Two!AdminStep, TwoProofs!AdminStep,
       Two!Next, TwoProofs!Next, Two!Pool!IP, TwoProofs!Pool!IP,
       Two!Pool!NULL, TwoProofs!Pool!NULL, Two!Pool!NoRow, TwoProofs!Pool!NoRow,
       Two!Pool!HeldBy, TwoProofs!Pool!HeldBy, Two!Pool!TxTime, TwoProofs!Pool!TxTime,
       Two!Pool!Purged, TwoProofs!Pool!Purged, Two!Pool!Allocated, TwoProofs!Pool!Allocated,
       Two!Cardinality, TwoProofs!Cardinality
<1>3. Two!RoomWithinCapacity <=> TwoProofs!RoomWithinCapacity
  BY DEF Two!RoomWithinCapacity, TwoProofs!RoomWithinCapacity, Two!Roster, TwoProofs!Roster,
         Two!Cardinality, TwoProofs!Cardinality
<1> QED  BY <1>1, <1>2, <1>3

-----------------------------------------------------------------------------
(* The composition.                                                          *)

all == <<part, vars, engineVars>>

LEMMA EngineStutters ==
  ASSUME UNCHANGED engineVars
  PROVE  /\ Data!Supported <=> Data!Supported'
         /\ Data!RulesStep /\ UNCHANGED Data!vars
BY DEF engineVars, Data!vars, Data!plane, Data!engine, Data!Supported, Data!Numbered,
       Data!Idle, Data!Loaded, Data!RevokedAreCut, Data!Running, Data!RulesStep

LEMMA EngineOrNot == [PartsNext]_all => UNCHANGED engineVars \/ Data!Next
BY DEF PartsNext, all

\* A behaviour of the two rooms stays one, and keeps their tables in agreement.
TwoAgree == part = "two" => TwoProofs!RoomInv

LEMMA TwoKeep == TwoAgree /\ [PartsNext]_all => TwoAgree'
<1> SUFFICES ASSUME TwoAgree, [PartsNext]_all, part' = "two"  PROVE TwoProofs!RoomInv'
  BY DEF TwoAgree
<1>1. part = "two" /\ (Two!Next \/ UNCHANGED vars)
  BY DEF PartsNext, all
<1>2. UNCHANGED vars => UNCHANGED TwoProofs!vars
  BY DEF vars, TwoProofs!vars, accounts, TwoProofs!accounts
<1> QED  BY <1>1, <1>2, SameRooms, TwoInductive DEF TwoAgree

\* Nebula, the adapter and the rendered configuration are those of what was last applied,
\* or none of them is there: whatever the sets and the bounds.
THEOREM EngineSupported == PartsSpec => []Data!Supported
<1>1. PartsInit => Data!Supported
  BY EngineInit DEF PartsInit
<1>2. Data!Supported /\ [PartsNext]_all => Data!Supported'
  BY EngineOrNot, EngineStutters, EngineStep
<1> QED  BY <1>1, <1>2, PTL DEF PartsSpec, all

\* Nebula, the LAN device and the snapshot last applied agree, and no tunnel to a peer
\* whose certificate it revokes survives its application, for every number of peers,
\* certificates, edits and leases: Engine.Apply.
THEOREM EngineAgrees == PartsSpec => []EngineInv
<1>1. Data!Supported => EngineInv
  BY EngineKeeps DEF EngineInv
<1> QED  BY <1>1, EngineSupported, PTL

\* Packet readers never see the firewall's or the LAN section's rules change; another room
\* or game restarts Nebula, in
\* whatever order leases, snapshots and failures come: Engine.Apply.
THEOREM RulesOnlyByRestart == PartsSpec => RulesByRestart
<1>1. Data!Supported /\ [PartsNext]_all => [Data!RulesStep]_Data!vars
  BY EngineOrNot, EngineStutters, EngineRules
<1> QED  BY <1>1, EngineSupported, PTL DEF PartsSpec, all, RulesByRestart, Data!RulesByRestart

\* The last seat of a room is given once, for any users, devices, rooms and times,
\* whichever of two rooms it is contended for in: addMember.
THEOREM LastSeatOnce == PartsSpec => []SeatsKept
<1>1. PartsInit => TwoAgree
  BY SameRooms, TwoInductive DEF PartsInit, TwoAgree
<1>2. TwoAgree => SeatsKept
  BY SameRooms DEF TwoAgree, TwoProofs!RoomInv, SeatsKept
<1> QED  BY <1>1, <1>2, TwoKeep, PTL DEF PartsSpec, all
=============================================================================
