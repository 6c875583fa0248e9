---------------------------- MODULE RoomControl ----------------------------
(***************************************************************************)
(* The control plane's rooms: who may be in one, who runs it, and how a    *)
(* membership ends.  One action is one transaction of the PostgreSQL       *)
(* store.  Store.Write serializes them behind an advisory lock, but the    *)
(* now() each one reads is the time it BEGAN to wait, so a transaction can *)
(* judge by an earlier time than the one committed before it.              *)
(*                                                                         *)
(* A membership ends in many ways (leave, kick, close, takeover, logout,   *)
(* revoked device, deleted account, required update, expired room), and    *)
(* each has to leave the tables members, certificates, addresses,          *)
(* invitations, rooms and room_bans in agreement.                          *)
(*                                                                         *)
(* Left out: sessions (a device whose account and grant are in order can   *)
(* always obtain one by challenge), names, the game catalogue (a disabled  *)
(* game only refuses what is allowed here), and the revision each owner's  *)
(* command carries (a caller here knows the current one; `bumped` keeps    *)
(* which rooms a transaction gave a new revision).  Addresses are those of *)
(* AddressLease, which this module implements (Pool!Spec).                 *)
(***************************************************************************)
EXTENDS Integers, FiniteSets

CONSTANTS
  User, Device, Room,
  UserOf,         \* user_devices.user_id, a function on Device
  FirstGrant,     \* expires_at of each device at the start; Never for a guest's
  Capacity,       \* model.RoomCapacity, 4
  Mac,            \* LAN MAC addresses that heartbeats may report
  RoomLife,       \* 24 hours
  InviteLife,     \* 30 minutes
  GrantLife,      \* 30 days
  Enforced,       \* devices whose software may fall below a required version
  Suspended,      \* users whom the administrator may disable
  Leasing,        \* devices that ask for certificates
  PoolSize, LeaseDuration, Quarantine, Retention, MaxSkew, MaxWait,
  MaxClock,       \* bound on time, for model checking
  Nobody, Renamed \* see AddressLease

Never == -2       \* the NULL expires_at of a guest's device
NULL == -1        \* a room without an invitation
NoRoom == [owner |-> Nobody, closed |-> TRUE, expires |-> NULL]
NoMac == 0        \* the empty mac of a member whose LAN is not up yet

ASSUME RoomAssumption ==
  /\ UserOf \in [Device -> User] /\ FirstGrant \in [Device -> Nat \cup {Never}]
  /\ Capacity \in Nat \ {0} /\ Mac \subseteq Nat \ {NoMac}
  /\ RoomLife \in Nat \ {0} /\ InviteLife \in Nat /\ GrantLife \in Nat
  /\ Enforced \subseteq Device /\ Suspended \subseteq User
  /\ Leasing \subseteq Device
  /\ Nobody \notin User /\ Nobody \notin Device /\ Renamed \notin Device

ASSUME TimeAssumption ==
  /\ LeaseDuration \in Nat /\ Quarantine \in Nat /\ Retention \in Nat
  /\ MaxSkew \in Nat /\ MaxWait \in Nat /\ MaxClock \in Nat /\ PoolSize \in Nat

VARIABLES
  clock,      \* the database's clock
  state,      \* users.state
  revoked,    \* the devices with user_devices.revoked
  grant,      \* user_devices.expires_at
  outdated,   \* the devices for which updateRequired holds
  rooms,      \* table rooms: owner_user_id, closed, expires_at
  members,    \* the active rows of table members
  bans,       \* table room_bans
  invites,    \* expires_at of each room's invitation
  addresses,  \* table addresses, as in AddressLease
  certs,      \* table certificates; of rows alike but for the time, the latest
  bumped      \* the rooms whose revision the last transaction raised

vars == <<clock, state, revoked, grant, outdated, rooms, members, bans, invites,
          addresses, certs, bumped>>
accounts == <<state, revoked, grant, outdated>>

IP == 1..PoolSize
MemberRow == [room : Room, device : Device, ip : IP, mac : Mac \cup {NoMac}]
Cert == [room : Room, device : Device, ip : IP, until : Nat, revoked : BOOLEAN]

BoundIP == [d \in Device |->
  IF \E m \in members : m.device = d THEN (CHOOSE m \in members : m.device = d).ip ELSE 0]
LatestExpiry == [d \in Device |-> [ip \in IP |->
  LET times == {c.until : c \in {x \in certs : x.device = d /\ x.ip = ip}}
  IN IF times = {} THEN NULL ELSE CHOOSE u \in times : \A v \in times : v <= u]]

\* The address pool, whose holders are the players' devices.
Pool == INSTANCE AddressLease
          WITH Player <- Device, Node <- {}, bound <- BoundIP, expiry <- LatestExpiry

TypeOK ==
  /\ clock \in Nat
  /\ state \in [User -> {"active", "disabled", "deleted"}]
  /\ revoked \subseteq Device /\ outdated \subseteq Device
  /\ grant \in [Device -> Nat \cup {Never}]
  /\ rooms \in [Room -> [owner : User, closed : BOOLEAN, expires : Nat] \cup {NoRoom}]
  /\ members \subseteq MemberRow
  /\ bans \subseteq Room \X User
  /\ invites \in [Room -> Nat \cup {NULL}]
  /\ addresses \in [IP -> Pool!Row]
  /\ certs \subseteq Cert
  /\ bumped \subseteq Room

Init ==
  /\ clock = 0
  /\ state = [u \in User |-> "active"]
  /\ revoked = {} /\ outdated = {}
  /\ grant = FirstGrant
  /\ rooms = [r \in Room |-> NoRoom]
  /\ members = {} /\ bans = {} /\ certs = {} /\ bumped = {}
  /\ invites = [r \in Room |-> NULL]
  /\ addresses = [ip \in IP |-> Pool!NoRow]

-----------------------------------------------------------------------------
(* Conditions read inside a transaction whose now() is t.                  *)

Min(a, b) == IF a <= b THEN a ELSE b

GrantExpired(d, t) == grant[d] # Never /\ grant[d] <= t

\* playerUser: the account and the device's grant are in order.
Authorized(d, t) ==
  /\ state[UserOf[d]] # "deleted"
  /\ d \notin revoked
  /\ ~GrantExpired(d, t)

Registered(d) == grant[d] # Never
InUse(room, t) == ~room.closed /\ room.expires > t
Open(r, t) == InUse(rooms[r], t)
RowsOf(u) == {m \in members : UserOf[m.device] = u}
Roster(r) == {m \in members : m.room = r}
BannedUnlessOwner(r, u) == <<r, u>> \in bans /\ rooms[r].owner # u
Banned(r, u) == <<r, u>> \in bans

\* activeMember; owner
ActiveMember(d, r, t) == Authorized(d, t) /\ Open(r, t) /\ \E m \in Roster(r) : m.device = d
Owns(d, r, t) == Authorized(d, t) /\ Open(r, t) /\ rooms[r].owner = UserOf[d]

\* The (room, device) pairs of the given rows, and all pairs of the given rooms:
\* the two scopes of revoke.
Pairs(rows) == {<<m.room, m.device>> : m \in rows}
Everyone(closing) == closing \X Device

\* The rooms that get a new revision when the given rows end.
Silent(rows) == {}
Touched(rows) == {m.room : m \in rows}

\* available: the memberships of the user that hold nothing any more, and whether
\* the user is free to join once they have ended.
StaleRows(u, t) ==
  {m \in RowsOf(u) : ~Open(m.room, t) \/ m.device \in revoked \/ GrantExpired(m.device, t)}
Available(d, t) == RowsOf(UserOf[d]) = StaleRows(UserOf[d], t)

-----------------------------------------------------------------------------
(* What revoke writes for the memberships in scope.                        *)

Alike(c, e) == [c EXCEPT !.until = 0] = [e EXCEPT !.until = 0]
Latest(rows) == {c \in rows : \A e \in rows : Alike(c, e) => e.until <= c.until}

CertsAfter(scope) ==
  Latest({[c EXCEPT !.revoked = @ \/ <<c.room, c.device>> \in scope] : c \in certs})
MembersAfter(scope) == {m \in members : <<m.room, m.device>> \notin scope}
AddressesAtOnce(scope, t) ==
  LET freed == {m.ip : m \in members \ MembersAfter(scope)}
  IN [ip \in IP |-> IF ip \in freed THEN [holder |-> Renamed, release |-> t]
                    ELSE addresses[ip]]
AddressesAfter(scope, t) ==
  LET freed == {m.ip : m \in members \ MembersAfter(scope)}
  IN [ip \in IP |-> IF ip \in freed
                      THEN [holder |-> Renamed, release |-> t + Quarantine]
                      ELSE addresses[ip]]

Revoke(scope, t) ==
  /\ members' = MembersAfter(scope)
  /\ certs' = CertsAfter(scope)
  /\ addresses' = AddressesAfter(scope, t)

Closed(closing) ==
  [r \in Room |-> IF r \in closing THEN [rooms[r] EXCEPT !.closed = TRUE] ELSE rooms[r]]
Uninvited(gone) == [r \in Room |-> IF r \in gone THEN NULL ELSE invites[r]]

\* Whether the room has a seat left when the memberships in scope are gone.
SeatAtLimit(r, scope) == Cardinality({m \in MembersAfter(scope) : m.room = r}) <= Capacity
Seat(r, scope) == Cardinality({m \in MembersAfter(scope) : m.room = r}) < Capacity

\* addMember for room r whose row is `room` (the new one, in createRoom): the user's
\* stale memberships end, none may be left, and the device gets an address.
AddMember(d, r, room, t) ==
  LET scope == Pairs(StaleRows(UserOf[d], t))
  IN /\ Available(d, t)
     /\ InUse(room, t)
     /\ ~Banned(r, UserOf[d])
     /\ Seat(r, scope)
     /\ \E ip \in IP :
          /\ Pool!Allocated(AddressesAfter(scope, t), d, t, ip, addresses')
          /\ members' = MembersAfter(scope) \cup
                          {[room |-> r, device |-> d, ip |-> ip, mac |-> NoMac]}
     /\ certs' = CertsAfter(scope)
     /\ bumped' = {r} \cup Touched(StaleRows(UserOf[d], t))

-----------------------------------------------------------------------------
(* The players' operations.                                                *)

CreateRoom(d, r, t) ==
  LET room == [owner |-> UserOf[d], closed |-> FALSE, expires |-> t + RoomLife]
  IN /\ rooms[r] = NoRoom
     /\ Authorized(d, t) /\ d \notin outdated /\ state[UserOf[d]] # "disabled"
     /\ AddMember(d, r, room, t)
     /\ rooms' = [rooms EXCEPT ![r] = room]
     /\ invites' = [invites EXCEPT ![r] = Min(t + InviteLife, room.expires)]
     /\ UNCHANGED <<clock, accounts, bans>>

\* joinRoom: anyone may have been told the code of the current invitation.
JoinRoom(d, r, t) ==
  /\ Authorized(d, t) /\ d \notin outdated
  /\ invites[r] > t
  /\ ~ActiveMember(d, r, t)
  /\ AddMember(d, r, rooms[r], t)
  /\ UNCHANGED <<clock, accounts, rooms, invites, bans>>

\* playerOwnerJoin
OwnerJoin(d, r, t) ==
  /\ d \notin outdated
  /\ Owns(d, r, t) /\ ~ActiveMember(d, r, t)
  /\ AddMember(d, r, rooms[r], t)
  /\ UNCHANGED <<clock, accounts, rooms, invites, bans>>

MacIsFree(d, r, mac) == \A m \in Roster(r) : m.device # d => m.mac # mac

\* heartbeat with a MAC that no other member of the room has reported.
Heartbeat(d, r, mac, t) ==
  /\ d \notin outdated /\ ActiveMember(d, r, t)
  /\ MacIsFree(d, r, mac)
  /\ \E m \in Roster(r) :
       /\ m.device = d /\ m.mac # mac
       /\ members' = (members \ {m}) \cup {[m EXCEPT !.mac = mac]}
  /\ bumped' = {r}
  /\ UNCHANGED <<clock, accounts, rooms, bans, invites, addresses, certs>>

\* No certificate outlives the room or the device's grant.
LimitWithoutNull(d, r) == Min(rooms[r].expires, grant[d])
Limit(d, r) ==
  IF grant[d] = Never THEN rooms[r].expires ELSE Min(rooms[r].expires, grant[d])

\* playerLease, issueLease: `skew` is the lead of the process's clock on the database's.
Lease(d, r, skew, t) ==
  /\ d \in Leasing /\ d \notin outdated /\ ActiveMember(d, r, t)
  /\ \E m \in Roster(r) :
       LET until == Min(clock + skew + LeaseDuration, Limit(d, r))
       IN /\ m.device = d
          /\ certs' = Latest(certs \cup {[room |-> r, device |-> d, ip |-> m.ip,
                                          until |-> until, revoked |-> FALSE]})
  /\ bumped' = {}
  /\ UNCHANGED <<clock, accounts, rooms, members, bans, invites, addresses>>

\* roomAction: leave, kick, transfer, close, invite, invite/revoke
Leave(d, r, t) ==
  /\ ActiveMember(d, r, t)
  /\ Revoke({<<r, d>>}, t)
  /\ bumped' = {r}
  /\ UNCHANGED <<clock, accounts, rooms, bans, invites>>

\* A target that `kick` and `transfer` accept.
Target(d, r, target, t) == ActiveMember(target, r, t) /\ UserOf[target] # UserOf[d]

Kick(d, r, target, t) ==
  /\ Owns(d, r, t) /\ Target(d, r, target, t)
  /\ Revoke({<<r, target>>}, t)
  /\ bans' = bans \cup {<<r, UserOf[target]>>}
  /\ bumped' = {r}
  /\ UNCHANGED <<clock, accounts, rooms, invites>>

Transfer(d, r, target, t) ==
  /\ Owns(d, r, t) /\ Target(d, r, target, t)
  /\ rooms' = [rooms EXCEPT ![r].owner = UserOf[target]]
  /\ invites' = Uninvited({r})
  /\ bumped' = {r}
  /\ UNCHANGED <<clock, accounts, members, bans, addresses, certs>>

\* Revoke everyone, close, delete the invitation.
CloseRooms(closing, scope, t) ==
  /\ Revoke(Everyone(closing) \cup scope, t)
  /\ rooms' = Closed(closing)
  /\ invites' = Uninvited(closing)

Close(d, r, t) ==
  /\ Owns(d, r, t)
  /\ CloseRooms({r}, {}, t)
  /\ bumped' = {r}
  /\ UNCHANGED <<clock, accounts, bans>>

Invite(d, r, t) ==
  /\ Owns(d, r, t)
  /\ invites' = [invites EXCEPT ![r] = Min(t + InviteLife, rooms[r].expires)]
  /\ bumped' = {r}
  /\ UNCHANGED <<clock, accounts, rooms, members, bans, addresses, certs>>

InviteRevoke(d, r, t) ==
  /\ Owns(d, r, t) /\ invites[r] # NULL
  /\ invites' = Uninvited({r})
  /\ bumped' = {r}
  /\ UNCHANGED <<clock, accounts, rooms, members, bans, addresses, certs>>

\* takeoverPlayer: the user's memberships on other devices end.
Takeover(d, t) ==
  LET rows == {m \in RowsOf(UserOf[d]) : m.device # d}
  IN /\ Authorized(d, t) /\ rows # {}
     /\ Revoke(Pairs(rows), t)
     /\ bumped' = Touched(rows)
     /\ UNCHANGED <<clock, accounts, rooms, bans, invites>>

-----------------------------------------------------------------------------
(* Accounts: revokeUserConnections and the operations that call it.        *)

OwnedAndJoined(u) ==
  {r \in Room : rooms[r].owner = u /\ ~rooms[r].closed /\ \E m \in RowsOf(u) : m.room = r}
Owned(u) == {r \in Room : rooms[r].owner = u /\ ~rooms[r].closed}

\* revokeUserConnections for the devices S of user u, whose rooms close if `closing`.
EndConnections(u, S, closing, t) ==
  LET rows == {m \in RowsOf(u) : m.device \in S}
      owned == IF closing THEN Owned(u) ELSE {}
  IN /\ CloseRooms(owned, Pairs(rows), t)
     /\ bumped' = owned \cup Touched(rows)
     /\ UNCHANGED <<clock, grant, outdated, bans>>

DevicesOf(u) == {d \in Device : UserOf[d] = u}

\* logoutPlayer (target = d); revokePlayerDevice (another device of the account)
RevokeDevice(d, target, t) ==
  /\ Authorized(d, t) /\ Registered(d)
  /\ UserOf[target] = UserOf[d] /\ target \notin revoked
  /\ revoked' = revoked \cup {target}
  /\ EndConnections(UserOf[d], {target}, FALSE, t)
  /\ UNCHANGED state

\* userAction: enable, disable; logout and revoke-device; delete
SetDisabled(u, next) ==
  /\ state[u] \notin {"deleted", next}
  /\ state' = [state EXCEPT ![u] = next]
  /\ bumped' = {}
  /\ UNCHANGED <<clock, revoked, grant, outdated, rooms, members, bans, invites,
                 addresses, certs>>

AdminRevoke(u, S, t) ==
  /\ state[u] # "deleted"
  /\ S = DevicesOf(u) \/ \E d \in DevicesOf(u) : S = {d}
  /\ revoked' = revoked \cup S
  /\ EndConnections(u, S, FALSE, t)
  /\ UNCHANGED state

DeleteUser(u, t) ==
  /\ state[u] # "deleted"
  /\ state' = [state EXCEPT ![u] = "deleted"]
  /\ EndConnections(u, DevicesOf(u), TRUE, t)
  /\ UNCHANGED revoked

\* completeIdentity with a link: a guest signs in and its device gets a grant.
LinkGuest(d, t) ==
  /\ Authorized(d, t) /\ ~Registered(d)
  /\ grant' = [grant EXCEPT ![d] = t + GrantLife]
  /\ bumped' = {}
  /\ UNCHANGED <<clock, state, revoked, outdated, rooms, members, bans, invites,
                 addresses, certs>>

-----------------------------------------------------------------------------
(* The administrator and the clock.                                        *)

\* adminRoomAction
AdminClose(r, t) ==
  /\ ~rooms[r].closed
  /\ CloseRooms({r}, {}, t)
  /\ bumped' = {r}
  /\ UNCHANGED <<clock, accounts, bans>>

AdminKick(r, target, t) ==
  /\ ActiveMember(target, r, t)
  /\ Revoke({<<r, target>>}, t)
  /\ bans' = bans \cup {<<r, UserOf[target]>>}
  /\ bumped' = {r}
  /\ UNCHANGED <<clock, accounts, rooms, invites>>

\* The members that enforceUpdates ends.
OutdatedGuests == {m \in members : m.device \in outdated /\ rooms[m.room].owner # UserOf[m.device]}
OutdatedRows == {m \in members : m.device \in outdated}

ExpiredInUse(t) == {m.room : m \in {n \in members : rooms[n.room].expires <= t}}
Expired(t) == {r \in Room : ~rooms[r].closed /\ rooms[r].expires <= t}

Sweep(t) ==
  LET expired == Expired(t)
      scope == Pairs(OutdatedRows) \cup Everyone(expired)
  IN /\ members' = MembersAfter(scope)
     /\ addresses' = Pool!Purged(AddressesAfter(scope, t), t)
     /\ certs' = {c \in CertsAfter(scope) : c.until >= t - Retention}
     /\ rooms' = Closed(expired)
     /\ invites' = Uninvited({r \in Room : invites[r] < t})
     /\ bumped' = expired \cup Touched(OutdatedRows)
     /\ UNCHANGED <<clock, accounts, bans>>

\* An update policy takes effect, or the device reports a newer version.
SetOutdated(d) ==
  /\ outdated' = IF d \in outdated THEN outdated \ {d} ELSE outdated \cup {d}
  /\ bumped' = {}
  /\ UNCHANGED <<clock, state, revoked, grant, rooms, members, bans, invites,
                 addresses, certs>>

Tick ==
  /\ clock < MaxClock
  /\ clock' = clock + 1
  /\ bumped' = {}
  /\ UNCHANGED <<accounts, rooms, members, bans, invites, addresses, certs>>

PlayerStep(d, t) ==
  \/ \E r \in Room :
       \/ CreateRoom(d, r, t) \/ JoinRoom(d, r, t) \/ OwnerJoin(d, r, t)
       \/ \E mac \in Mac : Heartbeat(d, r, mac, t)
       \/ \E skew \in 0..MaxSkew : Lease(d, r, skew, t)
       \/ Leave(d, r, t) \/ Close(d, r, t) \/ Invite(d, r, t) \/ InviteRevoke(d, r, t)
       \/ \E target \in Device : Kick(d, r, target, t) \/ Transfer(d, r, target, t)
  \/ Takeover(d, t)
  \/ \E target \in Device : RevokeDevice(d, target, t)
  \/ LinkGuest(d, t)

AdminStep(t) ==
  \/ \E r \in Room : AdminClose(r, t) \/ \E d \in Device : AdminKick(r, d, t)
  \/ \E u \in User : DeleteUser(u, t) \/ \E S \in SUBSET DevicesOf(u) : AdminRevoke(u, S, t)

Next ==
  \/ \E t \in Pool!TxTime :
       \/ \E d \in Device : PlayerStep(d, t)
       \/ AdminStep(t)
       \/ Sweep(t)
  \/ \E u \in Suspended : SetDisabled(u, "active") \/ SetDisabled(u, "disabled")
  \/ \E d \in Enforced : SetOutdated(d)
  \/ Tick

Spec == Init /\ [][Next]_vars

\* The sweep runs every ten seconds whatever becomes of the last one (setup.go), and
\* time passes.
FairSpec == Spec /\ WF_vars(\E t \in Pool!TxTime : Sweep(t)) /\ WF_vars(Tick)

-----------------------------------------------------------------------------
(* What must hold between transactions.                                    *)

\* A user is in at most one room, with one device, and no two members of a room have
\* the same MAC: the unique indexes of schema.sql never have to refuse a row, so no
\* operation fails on one (a 500 to the caller) instead of answering.
IndexesHold ==
  \A m, n \in members : m # n =>
    /\ UserOf[m.device] # UserOf[n.device]
    /\ m.ip # n.ip
    /\ m.room = n.room => m.mac # n.mac \/ m.mac = NoMac

\* No room holds more members than its capacity, whichever way they came in.
RoomWithinCapacity == \A r \in Room : Cardinality(Roster(r)) <= Capacity

\* A user banned from a room is not in it with any device: neither an invitation nor
\* another device nor becoming its owner again leads back.
BannedStayOut == \A m \in members : <<m.room, UserOf[m.device]>> \notin bans

\* A closed room is over: no members, and a certificate for its group is either
\* revoked or gone.
ClosedRoomIsEmpty ==
  \A r \in Room : rooms[r].closed =>
    Roster(r) = {} /\ \A c \in certs : c.room = r => c.revoked

\* Snapshots block the certificates marked revoked and no others, so a certificate
\* not marked has to be that of a present member, with its present address.
UnrevokedIsMember ==
  \A c \in certs : ~c.revoked =>
    \E m \in members : m.room = c.room /\ m.device = c.device /\ m.ip = c.ip

\* A revoked device or a deleted account keeps nothing: no membership, no certificate
\* that peers accept, and no open room that only it could manage.
RevokedKeepsNothing ==
  /\ \A m \in members : m.device \notin revoked /\ state[UserOf[m.device]] # "deleted"
  /\ \A r \in Room : ~rooms[r].closed => state[rooms[r].owner] # "deleted"

\* A member's address is held by its device, and not in quarantine.
RowsHeld == \A m \in members : addresses[m.ip] = Pool!HeldBy(m.device)

\* The inductive invariant.  That an address handed out is no other member's needs
\* RowsHeld; the capacity, a finite table.
RoomInv ==
  /\ TypeOK /\ IsFiniteSet(members)
  /\ RowsHeld
  /\ IndexesHold
  /\ RoomWithinCapacity
  /\ BannedStayOut
  /\ ClosedRoomIsEmpty
  /\ UnrevokedIsMember
  /\ RevokedKeepsNothing

\* What the control plane never takes back, and what it announces: a closed room never
\* reopens or changes hands, bans, deletions and device revocations are final, and a
\* change of a room's members, owner or end raises its revision (events.go and the
\* agents' snapshots notice nothing else).
Announced ==
  /\ \A r \in Room : rooms[r] # NoRoom /\ rooms[r].closed => rooms'[r] = rooms[r]
  /\ bans \subseteq bans' /\ revoked \subseteq revoked'
  /\ \A u \in User : state[u] = "deleted" => state'[u] = "deleted"
  /\ \A r \in Room :
       rooms'[r] # rooms[r] \/ {m \in members' : m.room = r} # Roster(r) => r \in bumped'
EndsAreFinalAndAnnounced == [][Announced]_vars

\* The tables behave as the address pool does: whatever ends a membership quarantines
\* its address, and no certificate outlives the quarantine (AddressLease).
PoolImplemented == Pool!Spec

\* A room past its end for every transaction, however long it waited, gets closed.
ExpiredRoomsClose ==
  \A r \in Room : rooms[r] # NoRoom /\ rooms[r].expires + MaxWait <= clock ~> rooms[r].closed

\* A member whose software falls below the required version does not stay: it is
\* updated, or its membership ends, although nobody asks for it.
OutdatedLeave ==
  \A d \in Enforced :
    d \in outdated ~> d \notin outdated \/ \A m \in members : m.device # d

\* Sooner or later an address in quarantine is free again, if time goes on.
AddressesReturn ==
  \A ip \in IP :
    addresses[ip].holder = Renamed /\ addresses[ip].release + MaxWait < MaxClock
      ~> addresses[ip].holder # Renamed
=============================================================================
