------------------------- MODULE RoomControl_proofs -------------------------
(***************************************************************************)
(* The safety of RoomControl for any users, devices and rooms, any size of *)
(* pool and room, and any durations.                                       *)
(*                                                                         *)
(* The tables members, addresses and certificates are written together, by *)
(* revoke and by addMember, and are read together by nothing: the first    *)
(* part is about what those writes make of any tables in order.  The       *)
(* second part is about bans, ends and accounts, operation by operation;   *)
(* the third, about what is final and announced; the last, about the       *)
(* address pool, whose specification (AddressLease) the rooms implement.   *)
(***************************************************************************)
EXTENDS RoomControl, FiniteSetTheorems, WellFoundedInduction, TLAPS

\* A row of each device's user at most, and no MAC twice in a room.
Indexed(ms) ==
  \A m, n \in ms : m # n =>
    /\ UserOf[m.device] # UserOf[n.device]
    /\ m.ip # n.ip
    /\ m.room = n.room => m.mac # n.mac \/ m.mac = NoMac

\* Members ms, addresses as and certificates cs are in order.
Tables(ms, as, cs) ==
  /\ ms \subseteq MemberRow /\ IsFiniteSet(ms)
  /\ as \in [IP -> Pool!Row] /\ cs \subseteq Cert
  /\ \A m \in ms : as[m.ip] = Pool!HeldBy(m.device)
  /\ Indexed(ms)
  /\ \A r \in Room : Cardinality({m \in ms : m.room = r}) <= Capacity
  /\ \A c \in cs : ~c.revoked =>
       \E m \in ms : m.room = c.room /\ m.device = c.device /\ m.ip = c.ip

\* What else the invariant says.
Types ==
  /\ clock \in Nat
  /\ state \in [User -> {"active", "disabled", "deleted"}]
  /\ revoked \subseteq Device /\ outdated \subseteq Device
  /\ grant \in [Device -> Nat \cup {Never}]
  /\ rooms \in [Room -> [owner : User, closed : BOOLEAN, expires : Nat] \cup {NoRoom}]
  /\ bans \subseteq Room \X User
  /\ invites \in [Room -> Nat \cup {NULL}]
  /\ bumped \subseteq Room
\* A member is let in, in an open room, on a device and an account that are in order.
Welcome(m) ==
  /\ <<m.room, UserOf[m.device]>> \notin bans
  /\ ~rooms[m.room].closed
  /\ m.device \notin revoked /\ state[UserOf[m.device]] # "deleted"
Managed == \A r \in Room : ~rooms[r].closed => state[rooms[r].owner] # "deleted"

InOrder ==
  /\ Tables(members, addresses, certs)
  /\ Types
  /\ \A m \in members : Welcome(m)
  /\ Managed

\* The invariant, sorted by what is written together.  That the certificates of a
\* closed room are revoked follows from its having no members.
LEMMA Sorted == RoomInv <=> InOrder
<1>1. RoomInv <=> /\ Tables(members, addresses, certs) /\ Types
              /\ BannedStayOut /\ ClosedRoomIsEmpty /\ RevokedKeepsNothing
  BY DEF RoomInv, TypeOK, RowsHeld, IndexesHold, Indexed, RoomWithinCapacity, Roster,
         UnrevokedIsMember, Tables, Types
<1>2. ASSUME Tables(members, addresses, certs)
      PROVE  ClosedRoomIsEmpty <=> \A m \in members : ~rooms[m.room].closed
  <2>1. \A m \in members : m.room \in Room
    BY <1>2 DEF Tables, MemberRow
  <2>2. \A c \in certs : c.room \in Room /\ c.revoked \in BOOLEAN
    BY <1>2 DEF Tables, Cert
  <2>3. \A c \in certs : ~c.revoked => \E m \in members : m.room = c.room
    BY <1>2 DEF Tables
  <2> QED  BY <2>1, <2>2, <2>3 DEF ClosedRoomIsEmpty, Roster
<1> QED  BY <1>1, <1>2 DEF InOrder, Welcome, Managed, BannedStayOut, RevokedKeepsNothing

\* The same of the next state.
LEMMA SortedNext == RoomInv' <=> InOrder'
BY Sorted, PTL

-----------------------------------------------------------------------------
(* What revoke, allocate and the sweep make of the tables.                 *)

\* A time that a transaction may see.
LEMMA TxTimeNat == ASSUME clock \in Nat, NEW t \in Pool!TxTime  PROVE t \in Nat
BY DEF Pool!TxTime

\* What is marked revoked keeps the rest, and of what is alike one is kept.
LEMMA CertsAfterFacts ==
  ASSUME certs \subseteq Cert, NEW scope
  PROVE  /\ CertsAfter(scope) \subseteq Cert
         /\ \A c \in CertsAfter(scope) : \E e \in certs :
              /\ c.room = e.room /\ c.device = e.device /\ c.ip = e.ip
              /\ ~c.revoked => ~e.revoked /\ <<c.room, c.device>> \notin scope
              /\ e.revoked => c.revoked
<1> DEFINE Mark(e) == [e EXCEPT !.revoked = e.revoked \/ <<e.room, e.device>> \in scope]
<1>1. CertsAfter(scope) \subseteq {Mark(e) : e \in certs}
  BY DEF CertsAfter, Latest
<1>2. ASSUME NEW e \in certs
      PROVE  /\ Mark(e) \in Cert
             /\ Mark(e).room = e.room /\ Mark(e).device = e.device /\ Mark(e).ip = e.ip
             /\ Mark(e).revoked <=> e.revoked \/ <<e.room, e.device>> \in scope
  BY DEF Cert
<1> QED  BY <1>1, <1>2

\* Memberships end: what is left is in order.
LEMMA RevokedTables ==
  ASSUME Tables(members, addresses, certs), NEW scope, NEW t \in Nat
  PROVE  Tables(MembersAfter(scope), AddressesAfter(scope, t), CertsAfter(scope))
<1> DEFINE ms == MembersAfter(scope)
           as == AddressesAfter(scope, t)
           cs == CertsAfter(scope)
<1>1. ms \subseteq members /\ \A m \in members : m \in ms <=> <<m.room, m.device>> \notin scope
  BY DEF MembersAfter
<1>2. ms \subseteq MemberRow /\ IsFiniteSet(ms)
  BY <1>1, FS_Subset DEF Tables
<1>3. as \in [IP -> Pool!Row]
  BY TimeAssumption DEF Tables, AddressesAfter, Pool!Row
<1>4. \A m \in ms : as[m.ip] = Pool!HeldBy(m.device)
  <2> TAKE m \in ms
  <2>1. m.ip \in IP
    BY <1>2 DEF MemberRow
  <2>2. \A n \in members \ ms : n.ip # m.ip
    BY <1>1 DEF Tables, Indexed
  <2>3. as[m.ip] = addresses[m.ip]
    BY <2>1, <2>2 DEF AddressesAfter
  <2> QED  BY <2>3, <1>1 DEF Tables
<1>5. Indexed(ms)
  BY <1>1 DEF Tables, Indexed
<1>6. \A r \in Room : Cardinality({m \in ms : m.room = r}) <= Capacity
  <2> TAKE r \in Room
  <2>1. /\ IsFiniteSet({m \in members : m.room = r})
        /\ {m \in ms : m.room = r} \in SUBSET {m \in members : m.room = r}
    BY <1>1, FS_Subset DEF Tables
  <2>2. /\ Cardinality({m \in ms : m.room = r}) <= Cardinality({m \in members : m.room = r})
        /\ Cardinality({m \in ms : m.room = r}) \in Nat
        /\ Cardinality({m \in members : m.room = r}) \in Nat
    BY <2>1, FS_Subset, FS_CardinalityType
  <2> QED  BY <2>2, RoomAssumption DEF Tables
<1>7. cs \subseteq Cert
  BY CertsAfterFacts DEF Tables
<1>8. \A c \in cs : ~c.revoked =>
        \E m \in ms : m.room = c.room /\ m.device = c.device /\ m.ip = c.ip
  <2> SUFFICES ASSUME NEW c \in cs, ~c.revoked
               PROVE  \E m \in ms : m.room = c.room /\ m.device = c.device /\ m.ip = c.ip
    OBVIOUS
  <2>1. PICK e \in certs : /\ c.room = e.room /\ c.device = e.device /\ c.ip = e.ip
                           /\ ~e.revoked /\ <<c.room, c.device>> \notin scope
    <3>1. certs \subseteq Cert /\ c \in CertsAfter(scope)
      BY DEF Tables
    <3> QED  BY <3>1, CertsAfterFacts
  <2>2. PICK m \in members : m.room = e.room /\ m.device = e.device /\ m.ip = e.ip
    BY <2>1 DEF Tables
  <2> QED  BY <1>1, <2>1, <2>2
<1> QED  BY <1>2, <1>3, <1>4, <1>5, <1>6, <1>7, <1>8 DEF Tables

\* The purge of expired rows touches no member's.
LEMMA PurgedTables ==
  ASSUME NEW ms, NEW as, NEW cs, Tables(ms, as, cs), NEW t \in Nat
  PROVE  Tables(ms, Pool!Purged(as, t), cs)
<1>1. Pool!Purged(as, t) \in [IP -> Pool!Row]
  BY DEF Tables, Pool!Purged, Pool!Row, Pool!NoRow, Pool!NULL, IP, Pool!IP
<1>2. ASSUME NEW m \in ms  PROVE Pool!Purged(as, t)[m.ip] = Pool!HeldBy(m.device)
  <2>1. m.ip \in IP
    BY DEF Tables, MemberRow
  <2>2. as[m.ip] = Pool!HeldBy(m.device)
    BY DEF Tables
  <2>3. as[m.ip].release = Pool!NULL
    BY <2>2 DEF Pool!HeldBy
  <2>4. Pool!Purged(as, t)[m.ip] = as[m.ip]
    BY <2>1, <2>3 DEF Pool!Purged, IP, Pool!IP
  <2> QED  BY <2>2, <2>4
<1> QED  BY <1>1, <1>2 DEF Tables

\* Fewer certificates are in order too.
LEMMA FewerCerts ==
  ASSUME NEW ms, NEW as, NEW cs, Tables(ms, as, cs), NEW ds \in SUBSET cs
  PROVE  Tables(ms, as, ds)
BY DEF Tables

\* Counting: one more, and one for another.
LEMMA OneMore ==
  ASSUME NEW S, IsFiniteSet(S), NEW x, NEW n \in Nat, Cardinality(S) < n
  PROVE  Cardinality(S \cup {x}) <= n
<1>1. Cardinality(S) \in Nat
  BY FS_CardinalityType
<1>2. Cardinality(S \cup {x}) = IF x \in S THEN Cardinality(S) ELSE Cardinality(S) + 1
  BY FS_AddElement
<1> QED  BY <1>1, <1>2

\* The same when one leaves.
LEMMA OneForAnother ==
  ASSUME NEW S, IsFiniteSet(S), NEW x \in S, NEW y, NEW n \in Nat, Cardinality(S) <= n
  PROVE  Cardinality((S \ {x}) \cup {y}) <= n
<1>1. Cardinality(S) \in Nat
  BY FS_CardinalityType
<1>2. IsFiniteSet(S \ {x}) /\ Cardinality(S \ {x}) = Cardinality(S) - 1
  BY FS_RemoveElement
<1>3. Cardinality(S \ {x}) < n
  BY <1>1, <1>2
<1> QED  BY <1>2, <1>3, OneMore

\* An address is handed out to a device whose user has no member: it is no other's.
LEMMA AddedTables ==
  ASSUME NEW ms, NEW as, NEW cs, Tables(ms, as, cs),
         NEW d \in Device, NEW r \in Room, NEW t \in Nat, NEW ip \in IP, NEW bs,
         Pool!Allocated(as, d, t, ip, bs),
         \A m \in ms : UserOf[m.device] # UserOf[d],
         Cardinality({m \in ms : m.room = r}) < Capacity
  PROVE  Tables(ms \cup {[room |-> r, device |-> d, ip |-> ip, mac |-> NoMac]}, bs, cs)
<1> DEFINE new == [room |-> r, device |-> d, ip |-> ip, mac |-> NoMac]
           ns == ms \cup {new}
           rows == Pool!Purged(as, t)
<1>1. ms \subseteq MemberRow /\ IsFiniteSet(ms) /\ \A m \in ms : m.device \in Device /\ m.ip \in IP
  BY DEF Tables, MemberRow
<1>2. /\ bs \in [IP -> Pool!Row] /\ bs[ip] = Pool!HeldBy(d)
      /\ \A m \in ms : m.ip # ip /\ bs[m.ip] = Pool!HeldBy(m.device)
  <2>1. ASSUME NEW e \in Device
        PROVE  /\ Pool!HeldBy(e) \in Pool!Row /\ Pool!HeldBy(e) # Pool!NoRow
               /\ Pool!HeldBy(e) = Pool!HeldBy(d) => e = d
    <3>1. Pool!HeldBy(e).holder = e /\ Pool!HeldBy(d).holder = d /\ Pool!NoRow.holder = Nobody
      BY DEF Pool!HeldBy, Pool!NoRow
    <3>2. Pool!HeldBy(e) \in Pool!Row
      BY DEF Pool!HeldBy, Pool!Row, Pool!Holder
    <3> QED  BY <3>1, <3>2, RoomAssumption
  <2>2. CASE as[ip] = Pool!HeldBy(d) /\ bs = as
    BY <2>1, <2>2, <1>1 DEF Tables
  <2>3. CASE rows[ip] = Pool!NoRow /\ bs = [rows EXCEPT ![ip] = Pool!HeldBy(d)]
    <3>0. Tables(ms, rows, cs)
      BY PurgedTables
    <3> HIDE DEF rows
    <3>1. rows \in [IP -> Pool!Row] /\ \A m \in ms : rows[m.ip] = Pool!HeldBy(m.device)
      BY <3>0 DEF Tables
    <3>2. \A m \in ms : m.ip # ip
      BY <3>1, <2>1, <2>3, <1>1
    <3> QED  BY <3>1, <3>2, <2>1, <2>3, <1>1
  <2> QED  BY <2>2, <2>3 DEF Pool!Allocated, IP, Pool!IP
<1>3. new \in MemberRow
  BY DEF MemberRow
<1>4. ns \subseteq MemberRow /\ IsFiniteSet(ns)
  BY <1>1, <1>3, FS_AddElement
<1>5. \A m \in ns : bs[m.ip] = Pool!HeldBy(m.device)
  BY <1>2
<1>6. Indexed(ns)
  BY <1>2 DEF Tables, Indexed
<1>7. \A q \in Room : Cardinality({m \in ns : m.room = q}) <= Capacity
  <2> TAKE q \in Room
  <2>1. CASE q # r
    <3>1. {m \in ns : m.room = q} = {m \in ms : m.room = q}
      BY <2>1
    <3> QED  BY <3>1 DEF Tables
  <2>2. CASE q = r
    <3>1. {m \in ns : m.room = q} = {m \in ms : m.room = r} \cup {new}
      BY <2>2
    <3>2. IsFiniteSet({m \in ms : m.room = r})
      BY <1>1, FS_Subset
    <3>3. Capacity \in Nat
      BY RoomAssumption
    <3>4. Cardinality({m \in ms : m.room = r} \cup {new}) <= Capacity
      BY <3>2, <3>3, OneMore
    <3> QED  BY <3>1, <3>4
  <2> QED  BY <2>1, <2>2
<1>8. \A c \in cs : ~c.revoked =>
        \E m \in ns : m.room = c.room /\ m.device = c.device /\ m.ip = c.ip
  BY DEF Tables
<1> QED  BY <1>2, <1>4, <1>5, <1>6, <1>7, <1>8 DEF Tables

\* A member reports a MAC that no other member of the room has.
LEMMA MacTables ==
  ASSUME NEW as, NEW cs, Tables(members, as, cs), NEW m \in members, NEW mac \in Mac,
         MacIsFree(m.device, m.room, mac)
  PROVE  Tables((members \ {m}) \cup {[m EXCEPT !.mac = mac]}, as, cs)
<1> DEFINE new == [m EXCEPT !.mac = mac]
           ns == (members \ {m}) \cup {new}
<1>1. members \subseteq MemberRow /\ IsFiniteSet(members)
  BY DEF Tables
<1>2. /\ new \in MemberRow /\ new.room = m.room /\ new.device = m.device
      /\ new.ip = m.ip /\ new.mac = mac
  BY <1>1 DEF MemberRow
<1>3. ns \subseteq MemberRow /\ IsFiniteSet(ns)
  BY <1>1, <1>2, FS_AddElement, FS_RemoveElement
<1>4. \A x \in ns : as[x.ip] = Pool!HeldBy(x.device)
  BY <1>2 DEF Tables
<1>5. Indexed(ns)
  <2>1. \A x \in members \ {m} : x.room = m.room => x.mac # mac
    <3>1. \A x \in members \ {m} : x.device # m.device
      BY DEF Tables, Indexed
    <3> QED  BY <3>1 DEF MacIsFree, Roster
  <2>2. ASSUME NEW x \in members \ {m}
        PROVE  /\ UserOf[x.device] # UserOf[new.device] /\ x.ip # new.ip
               /\ x.room = new.room => x.mac # new.mac
    BY <2>1, <1>2 DEF Tables, Indexed
  <2>3. ASSUME NEW x \in members \ {m}, NEW y \in members \ {m}, x # y
        PROVE  /\ UserOf[x.device] # UserOf[y.device] /\ x.ip # y.ip
               /\ x.room = y.room => x.mac # y.mac \/ x.mac = NoMac
    BY <2>3 DEF Tables, Indexed
  <2> HIDE DEF new
  <2> QED  BY <2>2, <2>3 DEF Indexed
<1>6. \A r \in Room : Cardinality({x \in ns : x.room = r}) <= Capacity
  <2> TAKE r \in Room
  <2> DEFINE old == {x \in members : x.room = r}
  <2>1. IsFiniteSet(old) /\ Cardinality(old) \in Nat /\ Cardinality(old) <= Capacity
    BY <1>1, FS_Subset, FS_CardinalityType DEF Tables
  <2>2. CASE m.room # r
    <3>1. {x \in ns : x.room = r} = old
      BY <1>2, <2>2
    <3> QED  BY <3>1, <2>1
  <2>3. CASE m.room = r
    <3>1. {x \in ns : x.room = r} = (old \ {m}) \cup {new}
      BY <1>2, <2>3
    <3>2. m \in old /\ Capacity \in Nat
      BY <2>3, RoomAssumption
    <3>3. Cardinality((old \ {m}) \cup {new}) <= Capacity
      BY <2>1, <3>2, OneForAnother
    <3> QED  BY <3>1, <3>3
  <2> QED  BY <2>2, <2>3
<1>7. \A c \in cs : ~c.revoked =>
        \E x \in ns : x.room = c.room /\ x.device = c.device /\ x.ip = c.ip
  BY <1>2 DEF Tables
<1> QED  BY <1>3, <1>4, <1>5, <1>6, <1>7 DEF Tables

-----------------------------------------------------------------------------
(* The three ways a transaction can write: members come, members go, and   *)
(* members stay.                                                           *)

\* createRoom, joinRoom and playerOwnerJoin: the user's stale memberships end, and the
\* new one is in a room that is open and from which the user is not banned.
LEMMA Comes ==
  ASSUME InOrder, NEW d \in Device, NEW r \in Room, NEW t \in Nat, NEW room,
         room \in [owner : User, closed : BOOLEAN, expires : Nat],
         state[room.owner] # "deleted",
         Authorized(d, t), AddMember(d, r, room, t),
         rooms' = [rooms EXCEPT ![r] = room],
         invites' \in [Room -> Nat \cup {NULL}],
         UNCHANGED <<clock, accounts, bans>>
  PROVE  InOrder'
<1> DEFINE scope == Pairs(StaleRows(UserOf[d], t))
           left == MembersAfter(scope)
           as == AddressesAfter(scope, t)
           cs == CertsAfter(scope)
<1>1. Tables(left, as, cs)
  BY RevokedTables DEF InOrder
<1>2. PICK ip \in IP :
        /\ Pool!Allocated(as, d, t, ip, addresses')
        /\ members' = left \cup {[room |-> r, device |-> d, ip |-> ip, mac |-> NoMac]}
  BY DEF AddMember
<1>3. /\ certs' = cs /\ InUse(room, t) /\ ~Banned(r, UserOf[d])
      /\ Cardinality({m \in left : m.room = r}) < Capacity
      /\ bumped' = {r} \cup Touched(StaleRows(UserOf[d], t))
  BY DEF AddMember, Seat
<1>4. left \subseteq members /\ \A m \in left : UserOf[m.device] # UserOf[d]
  <2>1. \A m \in members : UserOf[m.device] = UserOf[d] => m \in StaleRows(UserOf[d], t)
    BY DEF AddMember, Available, RowsOf
  <2> QED  BY <2>1 DEF MembersAfter, Pairs
<1>5. Tables(members', addresses', certs')
  <2> HIDE DEF left, as, cs
  <2> QED  BY <1>1, <1>2, <1>3, <1>4, AddedTables
<1>6. Types'
  <2>1. \A m \in members : m.room \in Room
    BY DEF InOrder, Tables, MemberRow
  <2>2. bumped' \subseteq Room
    BY <1>3, <2>1 DEF Touched, StaleRows, RowsOf
  <2>3. rooms' \in [Room -> [owner : User, closed : BOOLEAN, expires : Nat] \cup {NoRoom}]
    BY DEF InOrder, Types
  <2> QED  BY <2>2, <2>3 DEF InOrder, Types, accounts
<1>7. ASSUME NEW m \in members'  PROVE Welcome(m)'
  <2>1. rooms'[r].closed = FALSE /\ \A q \in Room \ {r} : rooms'[q] = rooms[q]
    BY <1>3 DEF InOrder, Types, InUse
  <2>2. CASE m \in left
    <3>1. m.room \in Room /\ Welcome(m)
      BY <2>2, <1>4 DEF InOrder, Tables, MemberRow
    <3>2. ~rooms'[m.room].closed
      BY <2>1, <3>1 DEF Welcome
    <3> QED  BY <3>1, <3>2 DEF Welcome, accounts
  <2>3. CASE m.room = r /\ m.device = d
    BY <2>1, <2>3, <1>3 DEF Welcome, Banned, Authorized, accounts
  <2> QED  BY <2>2, <2>3, <1>2
<1>8. Managed'
  <2> SUFFICES ASSUME NEW q \in Room, ~rooms'[q].closed
               PROVE  state'[rooms'[q].owner] # "deleted"
    BY DEF Managed
  <2>1. rooms'[q] = IF q = r THEN room ELSE rooms[q]
    BY DEF InOrder, Types
  <2> QED  BY <2>1 DEF InOrder, Managed, accounts
<1> QED  BY <1>5, <1>6, <1>7, <1>8 DEF InOrder

\* Whatever ends memberships: those in scope end, the rooms in `closing` end with all
\* their members, and what is left is welcome and managed under the new bans and accounts.
LEMMA Goes ==
  ASSUME InOrder, NEW closing \in SUBSET Room, NEW scope,
         \A r \in closing : \A d \in Device : <<r, d>> \in scope,
         members' = MembersAfter(scope),
         Tables(members', addresses', certs'),
         rooms' = Closed(closing),
         invites' \in [Room -> Nat \cup {NULL}], bumped' \subseteq Room,
         state' \in [User -> {"active", "disabled", "deleted"}],
         revoked' \subseteq Device, bans' \subseteq Room \X User,
         UNCHANGED <<clock, grant, outdated>>,
         \A m \in members' :
           /\ <<m.room, UserOf[m.device]>> \notin bans'
           /\ m.device \notin revoked' /\ state'[UserOf[m.device]] # "deleted",
         \A r \in Room \ closing :
           ~rooms[r].closed => state'[rooms[r].owner] # "deleted"
  PROVE  InOrder'
<1>1. \A r \in Room : rooms'[r] = IF r \in closing THEN [rooms[r] EXCEPT !.closed = TRUE]
                                                   ELSE rooms[r]
  BY DEF Closed
<1>2. \A r \in Room :
        rooms[r] \in [owner : User, closed : BOOLEAN, expires : Nat] \cup {NoRoom}
  BY DEF InOrder, Types
<1>3. ASSUME NEW r \in closing
      PROVE  /\ rooms'[r] \in [owner : User, closed : BOOLEAN, expires : Nat] \cup {NoRoom}
             /\ rooms'[r].closed = TRUE
  <2>1. rooms'[r] = [rooms[r] EXCEPT !.closed = TRUE]
    BY <1>1
  <2>2. CASE rooms[r] \in [owner : User, closed : BOOLEAN, expires : Nat]
    BY <2>1, <2>2
  <2>3. CASE rooms[r] = NoRoom
    <3>1. [NoRoom EXCEPT !.closed = NoRoom.closed] = NoRoom
      BY DEF NoRoom
    <3>2. NoRoom.closed = TRUE
      BY DEF NoRoom
    <3>3. [NoRoom EXCEPT !.closed = TRUE] = NoRoom
      BY <3>1, <3>2, Zenon
    <3> QED  BY <2>1, <2>3, <3>2, <3>3
  <2> QED  BY <1>2, <2>2, <2>3
<1>4. rooms' \in [Room -> [owner : User, closed : BOOLEAN, expires : Nat] \cup {NoRoom}]
  BY <1>1, <1>2, <1>3 DEF Closed
<1>5. Types'
  BY <1>4 DEF InOrder, Types
<1>6. ASSUME NEW m \in members'  PROVE Welcome(m)'
  <2>1. m \in members /\ <<m.room, m.device>> \notin scope
    BY DEF MembersAfter
  <2>2. m.room \in Room /\ m.device \in Device /\ Welcome(m)
    BY <2>1 DEF InOrder, Tables, MemberRow
  <2>3. rooms'[m.room] = rooms[m.room]
    BY <1>1, <2>1, <2>2
  <2> QED  BY <2>2, <2>3 DEF Welcome
<1>7. Managed'
  <2> SUFFICES ASSUME NEW r \in Room, ~rooms'[r].closed
               PROVE  state'[rooms'[r].owner] # "deleted"
    BY DEF Managed
  <2>1. r \notin closing
    BY <1>3
  <2> QED  BY <2>1, <1>1
<1> QED  BY <1>5, <1>6, <1>7 DEF InOrder

\* revoke writes the three tables.
LEMMA RevokeTables ==
  ASSUME InOrder, NEW scope, NEW t \in Nat, Revoke(scope, t)
  PROVE  Tables(members', addresses', certs') /\ members' = MembersAfter(scope)
BY RevokedTables DEF InOrder, Revoke

\* No room closes.
LEMMA NoneClosed == ASSUME Types  PROVE rooms = Closed({})
BY DEF Types, Closed

\* The members stay, and a room that changes hands goes to an account that is not deleted.
LEMMA Stays ==
  ASSUME InOrder,
         Tables(members', addresses', certs'), Types',
         \A m \in members' : \E n \in members : m.room = n.room /\ m.device = n.device,
         UNCHANGED <<bans, revoked>>,
         \A u \in User : state'[u] = "deleted" => state[u] = "deleted",
         \A r \in Room :
           /\ rooms'[r].closed = rooms[r].closed
           /\ rooms'[r].owner = rooms[r].owner \/ state[rooms'[r].owner] # "deleted"
  PROVE  InOrder'
<1>1. ASSUME NEW m \in members'  PROVE Welcome(m)'
  <2>1. PICK n \in members : m.room = n.room /\ m.device = n.device
    OBVIOUS
  <2>2. n.room \in Room /\ n.device \in Device /\ Welcome(n)
    BY DEF InOrder, Tables, MemberRow
  <2>3. UserOf[n.device] \in User
    BY <2>2, RoomAssumption
  <2> QED  BY <2>1, <2>2, <2>3 DEF Welcome
<1>2. Managed'
  <2> SUFFICES ASSUME NEW r \in Room, ~rooms'[r].closed
               PROVE  state'[rooms'[r].owner] # "deleted"
    BY DEF Managed
  <2>1. rooms'[r].owner \in User
    BY DEF Types, NoRoom
  <2>2. state[rooms'[r].owner] # "deleted"
    BY DEF InOrder, Managed
  <2> QED  BY <2>1, <2>2
<1> QED  BY <1>1, <1>2 DEF InOrder

\* What the types say of a member, of a room in use and of two expiries.
LEMMA MemberFacts ==
  ASSUME InOrder, NEW m \in members
  PROVE  /\ m.room \in Room /\ m.device \in Device /\ UserOf[m.device] \in User
         /\ m.ip \in IP /\ Welcome(m)
BY RoomAssumption DEF InOrder, Tables, MemberRow

\* A room in use has an owner, whose account is not deleted.
LEMMA RoomFacts ==
  ASSUME InOrder, NEW r \in Room, ~rooms[r].closed
  PROVE  /\ rooms[r] \in [owner : User, closed : BOOLEAN, expires : Nat]
         /\ rooms[r].owner \in User /\ rooms[r].expires \in Nat
         /\ state[rooms[r].owner] # "deleted"
<1>1. rooms[r] \in [owner : User, closed : BOOLEAN, expires : Nat]
  <2>1. NoRoom.closed = TRUE
    BY DEF NoRoom
  <2>2. rooms[r] \in [owner : User, closed : BOOLEAN, expires : Nat] \cup {NoRoom}
    BY DEF InOrder, Types
  <2> QED  BY <2>1, <2>2
<1> QED  BY <1>1 DEF InOrder, Managed

\* The earlier of two expiries is an expiry.
LEMMA MinNat == ASSUME NEW a \in Nat, NEW b \in Nat  PROVE Min(a, b) \in Nat
BY DEF Min

\* Uninvited keeps the type of the invitations.
LEMMA UninvitedType ==
  ASSUME InOrder, NEW gone  PROVE Uninvited(gone) \in [Room -> Nat \cup {NULL}]
BY DEF InOrder, Types, Uninvited

-----------------------------------------------------------------------------
(* The operations, one by one.                                             *)

\* createRoom: the room is the caller's, and new.
LEMMA CreateRoomStep ==
  ASSUME InOrder, NEW d \in Device, NEW r \in Room, NEW t \in Nat, CreateRoom(d, r, t)
  PROVE  InOrder'
<1> DEFINE room == [owner |-> UserOf[d], closed |-> FALSE, expires |-> t + RoomLife]
<1>1. /\ UserOf[d] \in User /\ t + RoomLife \in Nat /\ t + InviteLife \in Nat
  BY RoomAssumption
<1>2. room \in [owner : User, closed : BOOLEAN, expires : Nat]
  BY <1>1
<1>3. Min(t + InviteLife, room.expires) \in Nat
  BY <1>1, MinNat
<1>4. invites' \in [Room -> Nat \cup {NULL}]
  BY <1>3 DEF CreateRoom, InOrder, Types
<1>5. /\ Authorized(d, t) /\ AddMember(d, r, room, t) /\ rooms' = [rooms EXCEPT ![r] = room]
      /\ UNCHANGED <<clock, accounts, bans>>
  BY DEF CreateRoom
<1>6. state[room.owner] # "deleted"
  BY <1>5 DEF Authorized
<1> HIDE DEF room
<1> QED  BY <1>2, <1>4, <1>5, <1>6, Comes

\* joinRoom, playerOwnerJoin: the room is as it was.
LEMMA JoinStep ==
  ASSUME InOrder, NEW d \in Device, NEW r \in Room, NEW t \in Nat,
         JoinRoom(d, r, t) \/ OwnerJoin(d, r, t)
  PROVE  InOrder'
<1>1. /\ Authorized(d, t) /\ AddMember(d, r, rooms[r], t)
      /\ UNCHANGED <<clock, accounts, rooms, invites, bans>>
  BY DEF JoinRoom, OwnerJoin, Owns
<1>2. /\ rooms[r] \in [owner : User, closed : BOOLEAN, expires : Nat]
      /\ state[rooms[r].owner] # "deleted"
  BY <1>1, RoomFacts DEF AddMember, InUse
<1>3. rooms' = [rooms EXCEPT ![r] = rooms[r]] /\ invites' \in [Room -> Nat \cup {NULL}]
  BY <1>1 DEF InOrder, Types
<1> QED  BY <1>1, <1>2, <1>3, Comes

\* Memberships end, and rooms and accounts are as they were.
LEMMA OnlyMembersGo ==
  ASSUME InOrder, NEW scope, NEW t \in Nat, Revoke(scope, t),
         UNCHANGED <<clock, accounts, rooms, invites>>, bumped' \subseteq Room,
         bans' \subseteq Room \X User,
         \A m \in members' : <<m.room, UserOf[m.device]>> \notin bans'
  PROVE  InOrder'
<1>1. Tables(members', addresses', certs') /\ members' = MembersAfter(scope)
  BY RevokeTables
<1>2. rooms' = Closed({})
  BY NoneClosed DEF InOrder
<1>3. \A m \in members' : m.device \notin revoked' /\ state'[UserOf[m.device]] # "deleted"
  BY <1>1, MemberFacts DEF MembersAfter, Welcome, accounts
<1>4. \A r \in Room : ~rooms[r].closed => state'[rooms[r].owner] # "deleted"
  BY RoomFacts DEF accounts
<1>5. /\ state' \in [User -> {"active", "disabled", "deleted"}] /\ revoked' \subseteq Device
      /\ invites' \in [Room -> Nat \cup {NULL}] /\ UNCHANGED <<clock, grant, outdated>>
  BY DEF InOrder, Types, accounts
<1> QED  BY <1>1, <1>2, <1>3, <1>4, <1>5, Goes

\* The members left are not banned, if no one was banned.
LEMMA StillWelcome ==
  ASSUME InOrder, NEW scope, members' = MembersAfter(scope)
  PROVE  \A m \in members' : /\ m \in members /\ <<m.room, m.device>> \notin scope
                              /\ <<m.room, UserOf[m.device]>> \notin bans
BY MemberFacts DEF MembersAfter, Welcome

\* leave
LEMMA LeaveStep ==
  ASSUME InOrder, NEW d \in Device, NEW r \in Room, NEW t \in Nat, Leave(d, r, t)
  PROVE  InOrder'
<1>1. /\ Revoke({<<r, d>>}, t) /\ bumped' = {r}
      /\ UNCHANGED <<clock, accounts, rooms, bans, invites>>
  BY DEF Leave
<1>2. members' = MembersAfter({<<r, d>>}) /\ bans' \subseteq Room \X User
  BY <1>1 DEF Revoke, InOrder, Types
<1> QED  BY <1>1, <1>2, StillWelcome, OnlyMembersGo

\* kick, by the owner or the administrator: nobody else has the banned user's rows.
LEMMA KickStep ==
  ASSUME InOrder, NEW r \in Room, NEW target \in Device, NEW t \in Nat,
         AdminKick(r, target, t) \/ \E d \in Device : Kick(d, r, target, t)
  PROVE  InOrder'
<1>1. /\ ActiveMember(target, r, t) /\ Revoke({<<r, target>>}, t)
      /\ bans' = bans \cup {<<r, UserOf[target]>>} /\ bumped' = {r}
      /\ UNCHANGED <<clock, accounts, rooms, invites>>
  BY DEF AdminKick, Kick, Target
<1>2. PICK n \in members : n.room = r /\ n.device = target
  BY <1>1 DEF ActiveMember, Roster
<1>3. members' = MembersAfter({<<r, target>>})
  BY <1>1 DEF Revoke
<1>4. ASSUME NEW m \in members'  PROVE <<m.room, UserOf[m.device]>> \notin bans'
  <2>1. /\ m \in members /\ <<m.room, m.device>> # <<r, target>>
        /\ <<m.room, UserOf[m.device]>> \notin bans
    BY <1>3, StillWelcome
  <2>2. UserOf[m.device] # UserOf[target]
    BY <1>2, <2>1 DEF InOrder, Tables, Indexed
  <2> QED  BY <1>1, <2>1, <2>2
<1>5. bans' \subseteq Room \X User
  BY <1>1, RoomAssumption DEF InOrder, Types
<1> QED  BY <1>1, <1>4, <1>5, OnlyMembersGo

\* takeoverPlayer
LEMMA TakeoverStep ==
  ASSUME InOrder, NEW d \in Device, NEW t \in Nat, Takeover(d, t)
  PROVE  InOrder'
<1> DEFINE rows == {m \in RowsOf(UserOf[d]) : m.device # d}
<1>1. /\ Revoke(Pairs(rows), t) /\ bumped' = Touched(rows)
      /\ UNCHANGED <<clock, accounts, rooms, bans, invites>>
  BY DEF Takeover
<1>2. members' = MembersAfter(Pairs(rows)) /\ bans' \subseteq Room \X User
  BY <1>1 DEF Revoke, InOrder, Types
<1>3. bumped' \subseteq Room
  BY <1>1, MemberFacts DEF Touched, RowsOf
<1> HIDE DEF rows
<1> QED  BY <1>1, <1>2, <1>3, StillWelcome, OnlyMembersGo

\* Rooms end with all their members, and so do other memberships: the accounts may
\* change as long as whoever is left is in order.
LEMMA RoomsGo ==
  ASSUME InOrder, NEW closing \in SUBSET Room, NEW scope, NEW t \in Nat,
         CloseRooms(closing, scope, t), bumped' \subseteq Room,
         state' \in [User -> {"active", "disabled", "deleted"}], revoked' \subseteq Device,
         UNCHANGED <<clock, grant, outdated, bans>>,
         \A m \in members : <<m.room, m.device>> \notin scope =>
           m.device \notin revoked' /\ state'[UserOf[m.device]] # "deleted",
         \A r \in Room \ closing :
           ~rooms[r].closed => state'[rooms[r].owner] # "deleted"
  PROVE  InOrder'
<1> DEFINE all == Everyone(closing) \cup scope
<1>1. \A r \in closing : \A d \in Device : <<r, d>> \in all
  BY DEF Everyone
<1>2. scope \subseteq all
  OBVIOUS
<1>3. Revoke(all, t) /\ rooms' = Closed(closing) /\ invites' = Uninvited(closing)
  BY DEF CloseRooms
<1> HIDE DEF all
<1>4. Tables(members', addresses', certs') /\ members' = MembersAfter(all)
  BY <1>3, RevokeTables
<1>5. invites' \in [Room -> Nat \cup {NULL}] /\ bans' \subseteq Room \X User
  BY <1>3, UninvitedType DEF InOrder, Types
<1>6. \A m \in members' : /\ <<m.room, UserOf[m.device]>> \notin bans'
                           /\ m.device \notin revoked' /\ state'[UserOf[m.device]] # "deleted"
  BY <1>2, <1>4, StillWelcome
<1> QED  BY <1>1, <1>3, <1>4, <1>5, <1>6, Goes

\* close, by the owner or the administrator
LEMMA CloseStep ==
  ASSUME InOrder, NEW r \in Room, NEW t \in Nat,
         AdminClose(r, t) \/ \E d \in Device : Close(d, r, t)
  PROVE  InOrder'
<1>1. /\ CloseRooms({r}, {}, t) /\ bumped' = {r} /\ UNCHANGED <<clock, accounts, bans>>
  BY DEF AdminClose, Close
<1>2. \A m \in members : m.device \notin revoked' /\ state'[UserOf[m.device]] # "deleted"
  BY <1>1, MemberFacts DEF Welcome, accounts
<1>3. \A q \in Room : ~rooms[q].closed => state'[rooms[q].owner] # "deleted"
  BY <1>1, RoomFacts DEF accounts
<1>4. /\ state' \in [User -> {"active", "disabled", "deleted"}] /\ revoked' \subseteq Device
      /\ UNCHANGED <<clock, grant, outdated, bans>>
  BY <1>1 DEF InOrder, Types, accounts
<1> QED  BY <1>1, <1>2, <1>3, <1>4, RoomsGo

\* The memberships of user u on the devices S.
RowsOn(u, S) == {m \in RowsOf(u) : m.device \in S}

\* revokeUserConnections in general, for the rooms `owned` that it closes.
LEMMA EndConnectionsStep ==
  ASSUME InOrder, NEW u \in User, NEW S \in SUBSET DevicesOf(u), NEW t \in Nat,
         NEW owned \in SUBSET Room,
         CloseRooms(owned, Pairs(RowsOn(u, S)), t),
         bumped' = owned \cup Touched(RowsOn(u, S)),
         UNCHANGED <<clock, grant, outdated, bans>>,
         revoked' \subseteq revoked \cup S,
         state' \in [User -> {"active", "disabled", "deleted"}],
         \A v \in User : state'[v] = "deleted" =>
           state[v] = "deleted" \/ (v = u /\ DevicesOf(u) \subseteq S /\ Owned(u) \subseteq owned)
  PROVE  InOrder'
<1>1. bumped' \subseteq Room
  BY MemberFacts DEF Touched, RowsOf, RowsOn
<1>2. revoked' \subseteq Device
  BY DEF InOrder, Types, DevicesOf
<1>3. ASSUME NEW m \in members, <<m.room, m.device>> \notin Pairs(RowsOn(u, S))
      PROVE  m.device \notin revoked' /\ state'[UserOf[m.device]] # "deleted"
  <2>1. /\ m.device \in Device /\ UserOf[m.device] \in User
        /\ m.device \notin revoked /\ state[UserOf[m.device]] # "deleted"
    BY MemberFacts DEF Welcome
  <2>2. m \notin RowsOn(u, S)
    BY <1>3 DEF Pairs
  <2>3. m.device \notin S
    BY <2>1, <2>2 DEF RowsOf, RowsOn, DevicesOf
  <2> QED  BY <2>1, <2>3 DEF DevicesOf
<1>4. ASSUME NEW r \in Room \ owned, ~rooms[r].closed
      PROVE  state'[rooms[r].owner] # "deleted"
  <2>1. rooms[r].owner \in User /\ state[rooms[r].owner] # "deleted"
    BY <1>4, RoomFacts
  <2>2. Owned(u) \subseteq owned => rooms[r].owner # u
    BY <1>4 DEF Owned
  <2> QED  BY <2>1, <2>2
<1> QED  BY <1>1, <1>2, <1>3, <1>4, RoomsGo

\* logoutPlayer, revokePlayerDevice
LEMMA RevokeDeviceStep ==
  ASSUME InOrder, NEW d \in Device, NEW target \in Device, NEW t \in Nat,
         RevokeDevice(d, target, t)
  PROVE  InOrder'
<1> DEFINE S == {target}
           owned == {}
<1>1. /\ CloseRooms(owned, Pairs(RowsOn(UserOf[d], S)), t)
      /\ bumped' = owned \cup Touched(RowsOn(UserOf[d], S))
      /\ UNCHANGED <<clock, grant, outdated, bans, state>>
      /\ revoked' = revoked \cup S /\ S \in SUBSET DevicesOf(UserOf[d])
  BY DEF RevokeDevice, EndConnections, DevicesOf, RowsOn
<1>2. /\ UserOf[d] \in User /\ owned \in SUBSET Room
      /\ state' \in [User -> {"active", "disabled", "deleted"}]
  BY <1>1, RoomAssumption DEF InOrder, Types
<1> HIDE DEF S, owned
<1> QED  BY <1>1, <1>2, EndConnectionsStep

\* userAction: logout, revoke-device
LEMMA AdminRevokeStep ==
  ASSUME InOrder, NEW u \in User, NEW S \in SUBSET DevicesOf(u), NEW t \in Nat,
         AdminRevoke(u, S, t)
  PROVE  InOrder'
<1> DEFINE owned == {}
<1>1. /\ CloseRooms(owned, Pairs(RowsOn(u, S)), t)
      /\ bumped' = owned \cup Touched(RowsOn(u, S))
      /\ UNCHANGED <<clock, grant, outdated, bans, state>> /\ revoked' = revoked \cup S
  BY DEF AdminRevoke, EndConnections, RowsOn
<1>2. owned \in SUBSET Room /\ state' \in [User -> {"active", "disabled", "deleted"}]
  BY <1>1 DEF InOrder, Types
<1> HIDE DEF owned
<1> QED  BY <1>1, <1>2, EndConnectionsStep

\* userAction: delete.  Every device of the account ends, and every room it owns.
LEMMA DeleteUserStep ==
  ASSUME InOrder, NEW u \in User, NEW t \in Nat, DeleteUser(u, t)
  PROVE  InOrder'
<1> DEFINE rows == RowsOn(u, DevicesOf(u))
<1>1. /\ CloseRooms(Owned(u), Pairs(rows), t) /\ bumped' = Owned(u) \cup Touched(rows)
      /\ UNCHANGED <<clock, grant, outdated, bans, revoked>>
      /\ state' = [state EXCEPT ![u] = "deleted"]
  BY DEF DeleteUser, EndConnections, RowsOn
<1>2. /\ state' \in [User -> {"active", "disabled", "deleted"}]
      /\ \A v \in User : state'[v] = "deleted" => state[v] = "deleted" \/ v = u
      /\ Owned(u) \in SUBSET Room
  BY <1>1 DEF InOrder, Types, Owned
<1> QED  BY <1>1, <1>2, EndConnectionsStep

\* The sweep: revoke, then purge addresses and certificates.
LEMMA SweepStep ==
  ASSUME InOrder, NEW t \in Nat, Sweep(t)
  PROVE  InOrder'
<1> DEFINE expired == Expired(t)
           scope == Pairs(OutdatedRows) \cup Everyone(expired)
<1>1. /\ members' = MembersAfter(scope)
      /\ addresses' = Pool!Purged(AddressesAfter(scope, t), t)
      /\ certs' = {c \in CertsAfter(scope) : c.until >= t - Retention}
      /\ rooms' = Closed(expired)
      /\ invites' = Uninvited({r \in Room : invites[r] < t})
      /\ bumped' = expired \cup Touched(OutdatedRows)
      /\ UNCHANGED <<clock, accounts, bans>>
  BY DEF Sweep
<1>2. expired \in SUBSET Room /\ \A r \in expired : \A d \in Device : <<r, d>> \in scope
  BY DEF Expired, Everyone
<1>3. bumped' \subseteq Room
  BY <1>1, <1>2, MemberFacts DEF Touched, OutdatedRows
<1> HIDE DEF expired, scope
<1>4. Tables(members', addresses', certs')
  <2>1. Tables(members', AddressesAfter(scope, t), CertsAfter(scope))
    BY <1>1, RevokedTables DEF InOrder
  <2>2. Tables(members', addresses', CertsAfter(scope))
    BY <1>1, <2>1, PurgedTables
  <2>3. certs' \in SUBSET CertsAfter(scope)
    BY <1>1
  <2> QED  BY <2>2, <2>3, FewerCerts
<1>5. invites' \in [Room -> Nat \cup {NULL}]
  BY <1>1, UninvitedType
<1>6. \A m \in members' : /\ <<m.room, UserOf[m.device]>> \notin bans'
                           /\ m.device \notin revoked' /\ state'[UserOf[m.device]] # "deleted"
  BY <1>1, StillWelcome, MemberFacts DEF Welcome, accounts
<1>7. \A r \in Room : ~rooms[r].closed => state'[rooms[r].owner] # "deleted"
  BY <1>1, RoomFacts DEF accounts
<1>8. /\ state' \in [User -> {"active", "disabled", "deleted"}] /\ revoked' \subseteq Device
      /\ bans' \subseteq Room \X User /\ UNCHANGED <<clock, grant, outdated>>
  BY <1>1 DEF InOrder, Types, accounts
<1> QED  BY <1>1, <1>2, <1>3, <1>4, <1>5, <1>6, <1>7, <1>8, Goes

\* heartbeat
LEMMA HeartbeatStep ==
  ASSUME InOrder, NEW d \in Device, NEW r \in Room, NEW mac \in Mac, NEW t \in Nat,
         Heartbeat(d, r, mac, t)
  PROVE  InOrder'
<1>1. PICK m \in members :
        /\ m.room = r /\ m.device = d
        /\ members' = (members \ {m}) \cup {[m EXCEPT !.mac = mac]}
  BY DEF Heartbeat, Roster
<1>2. /\ MacIsFree(m.device, m.room, mac) /\ bumped' = {r}
      /\ UNCHANGED <<clock, accounts, rooms, bans, invites, addresses, certs>>
  BY <1>1 DEF Heartbeat
<1>3. Tables(members', addresses', certs')
  BY <1>1, <1>2, MacTables DEF InOrder
<1>4. \A x \in members' : \E n \in members : x.room = n.room /\ x.device = n.device
  <2>1. m \in MemberRow
    BY DEF InOrder, Tables
  <2>2. [m EXCEPT !.mac = mac].room = m.room /\ [m EXCEPT !.mac = mac].device = m.device
    BY <2>1 DEF MemberRow
  <2> QED  BY <1>1, <2>2
<1>5. Types'
  BY <1>2 DEF InOrder, Types, accounts
<1> QED  BY <1>2, <1>3, <1>4, <1>5, Stays DEF accounts

\* A lease's certificate names a member and its address, within the horizon.
LEMMA Signed ==
  ASSUME InOrder, NEW d \in Device, NEW r \in Room, NEW skew \in 0..MaxSkew, NEW t,
         Lease(d, r, skew, t)
  PROVE  \E m \in members, new \in Cert :
           /\ m.room = r /\ m.device = d
           /\ new.room = r /\ new.device = d /\ new.ip = m.ip
           /\ new.until <= clock + MaxSkew + LeaseDuration
           /\ certs' = Latest(certs \cup {new})
<1> DEFINE until == Min(clock + skew + LeaseDuration, Limit(d, r))
<1>1. PICK m \in members :
        /\ m.room = r /\ m.device = d
        /\ certs' = Latest(certs \cup {[room |-> r, device |-> d, ip |-> m.ip,
                                        until |-> until, revoked |-> FALSE]})
  BY DEF Lease, Roster
<1>2. ~rooms[r].closed
  BY DEF Lease, ActiveMember, Open, InUse
<1>3. until \in Nat /\ until <= clock + MaxSkew + LeaseDuration
  <2> DEFINE plain == clock + skew + LeaseDuration
             horizon == clock + MaxSkew + LeaseDuration
  <2>1. plain \in Nat /\ horizon \in Nat /\ plain <= horizon
    BY TimeAssumption DEF InOrder, Types
  <2>2. rooms[r].expires \in Nat
    BY <1>2, RoomFacts
  <2>3. Limit(d, r) \in Nat
    <3>1. grant[d] # Never => grant[d] \in Nat
      BY DEF InOrder, Types
    <3> QED  BY <2>2, <3>1, MinNat DEF Limit
  <2> HIDE DEF plain, horizon
  <2>4. \A limit \in Nat : Min(plain, limit) \in Nat /\ Min(plain, limit) <= horizon
    BY <2>1 DEF Min
  <2> QED  BY <2>3, <2>4 DEF plain, horizon
<1> DEFINE new == [room |-> r, device |-> d, ip |-> m.ip, until |-> until, revoked |-> FALSE]
<1>4. new \in Cert /\ new.room = r /\ new.device = d /\ new.ip = m.ip /\ new.until = until
  <2>1. m.ip \in IP
    BY MemberFacts
  <2> HIDE DEF until
  <2> QED  BY <1>1, <1>3, <2>1 DEF Cert
<1>5. certs' = Latest(certs \cup {new})
  BY <1>1
<1> HIDE DEF new, until
<1> QED  BY <1>1, <1>3, <1>4, <1>5

\* playerLease: the new certificate is that of a member, with its address.
LEMMA LeaseStep ==
  ASSUME InOrder, NEW d \in Device, NEW r \in Room, NEW skew \in 0..MaxSkew, NEW t \in Nat,
         Lease(d, r, skew, t)
  PROVE  InOrder'
<1>1. PICK m \in members, new \in Cert :
        /\ m.room = r /\ m.device = d
        /\ new.room = r /\ new.device = d /\ new.ip = m.ip
        /\ certs' = Latest(certs \cup {new})
  BY Signed
<1>2. /\ bumped' = {}
      /\ UNCHANGED <<clock, accounts, rooms, members, bans, invites, addresses>>
  BY DEF Lease
<1>3. Tables(members', addresses', certs')
  <2>1. certs' \subseteq certs \cup {new}
    BY <1>1 DEF Latest
  <2>2. Tables(members, addresses, certs \cup {new})
    BY <1>1 DEF InOrder, Tables
  <2>3. Tables(members, addresses, certs')
    BY <2>1, <2>2, FewerCerts
  <2> QED  BY <1>2, <2>3
<1>4. Types'
  BY <1>2 DEF InOrder, Types, accounts
<1> QED  BY <1>2, <1>3, <1>4, Stays DEF accounts

\* Nothing of the three tables, bans or accounts is written.
LEMMA OnlyRooms ==
  ASSUME InOrder, UNCHANGED <<clock, accounts, members, bans, addresses, certs>>,
         rooms' \in [Room -> [owner : User, closed : BOOLEAN, expires : Nat] \cup {NoRoom}],
         invites' \in [Room -> Nat \cup {NULL}], bumped' \subseteq Room,
         \A r \in Room :
           /\ rooms'[r].closed = rooms[r].closed
           /\ rooms'[r].owner = rooms[r].owner \/ state[rooms'[r].owner] # "deleted"
  PROVE  InOrder'
<1>1. Types' /\ Tables(members', addresses', certs')
  BY DEF InOrder, Types, accounts
<1> QED  BY <1>1, Stays DEF accounts

\* transfer: to a member, whose account is in order.
LEMMA TransferStep ==
  ASSUME InOrder, NEW d \in Device, NEW r \in Room, NEW target \in Device, NEW t \in Nat,
         Transfer(d, r, target, t)
  PROVE  InOrder'
<1>1. /\ ActiveMember(target, r, t) /\ ~rooms[r].closed
      /\ rooms' = [rooms EXCEPT ![r] = [rooms[r] EXCEPT !.owner = UserOf[target]]]
      /\ invites' = Uninvited({r}) /\ bumped' = {r}
      /\ UNCHANGED <<clock, accounts, members, bans, addresses, certs>>
  BY DEF Transfer, Target, ActiveMember, Open, InUse
<1>2. rooms[r] \in [owner : User, closed : BOOLEAN, expires : Nat] /\ UserOf[target] \in User
  BY <1>1, RoomFacts, RoomAssumption
<1> DEFINE room == [rooms[r] EXCEPT !.owner = UserOf[target]]
<1>3. /\ room \in [owner : User, closed : BOOLEAN, expires : Nat]
      /\ room.owner = UserOf[target] /\ room.closed = rooms[r].closed
  BY <1>2
<1>4. state[UserOf[target]] # "deleted"
  BY <1>1 DEF ActiveMember, Authorized
<1>5. rooms' = [rooms EXCEPT ![r] = room]
  BY <1>1
<1> HIDE DEF room
<1>6. rooms' \in [Room -> [owner : User, closed : BOOLEAN, expires : Nat] \cup {NoRoom}]
  BY <1>3, <1>5 DEF InOrder, Types
<1>7. \A q \in Room :
        /\ rooms'[q].closed = rooms[q].closed
        /\ rooms'[q].owner = rooms[q].owner \/ state[rooms'[q].owner] # "deleted"
  <2> TAKE q \in Room
  <2>1. rooms'[q] = IF q = r THEN room ELSE rooms[q]
    BY <1>5 DEF InOrder, Types
  <2> QED  BY <2>1, <1>3, <1>4
<1> QED  BY <1>1, <1>6, <1>7, UninvitedType, OnlyRooms

\* invite, invite/revoke
LEMMA InviteStep ==
  ASSUME InOrder, NEW d \in Device, NEW r \in Room, NEW t \in Nat,
         Invite(d, r, t) \/ InviteRevoke(d, r, t)
  PROVE  InOrder'
<1>1. /\ ~rooms[r].closed /\ bumped' = {r}
      /\ UNCHANGED <<clock, accounts, rooms, members, bans, addresses, certs>>
      /\ \/ invites' = [invites EXCEPT ![r] = Min(t + InviteLife, rooms[r].expires)]
         \/ invites' = Uninvited({r})
  BY DEF Invite, InviteRevoke, Owns, Open, InUse
<1>2. Min(t + InviteLife, rooms[r].expires) \in Nat
  <2>1. rooms[r].expires \in Nat /\ t + InviteLife \in Nat
    BY <1>1, RoomFacts, RoomAssumption
  <2> QED  BY <2>1, MinNat
<1>3. [invites EXCEPT ![r] = Min(t + InviteLife, rooms[r].expires)] \in [Room -> Nat \cup {NULL}]
  BY <1>2 DEF InOrder, Types
<1>4. invites' \in [Room -> Nat \cup {NULL}]
  BY <1>1, <1>3, UninvitedType
<1>5. rooms' \in [Room -> [owner : User, closed : BOOLEAN, expires : Nat] \cup {NoRoom}]
  BY <1>1 DEF InOrder, Types
<1> QED  BY <1>1, <1>4, <1>5, OnlyRooms

\* enable, disable, an update policy, a linked account, the clock: no table is written.
LEMMA NoTables ==
  ASSUME InOrder, UNCHANGED <<rooms, members, bans, revoked, invites, addresses, certs>>,
         bumped' \subseteq Room, clock' \in Nat, outdated' \subseteq Device,
         grant' \in [Device -> Nat \cup {Never}],
         state' \in [User -> {"active", "disabled", "deleted"}],
         \A u \in User : state'[u] = "deleted" => state[u] = "deleted"
  PROVE  InOrder'
<1>1. Types' /\ Tables(members', addresses', certs')
  BY DEF InOrder, Types
<1> QED  BY <1>1, Stays

\* userAction: enable, disable.  They leave deleted accounts alone.
LEMMA SetDisabledStep ==
  ASSUME InOrder, NEW u \in User, NEW next \in {"active", "disabled"}, SetDisabled(u, next)
  PROVE  InOrder'
<1>1. /\ state' \in [User -> {"active", "disabled", "deleted"}] /\ clock' = clock
      /\ \A v \in User : state'[v] = "deleted" => state[v] = "deleted"
  BY DEF SetDisabled, InOrder, Types
<1>2. /\ clock' \in Nat /\ outdated' \subseteq Device /\ bumped' \subseteq Room
      /\ grant' \in [Device -> Nat \cup {Never}]
      /\ UNCHANGED <<rooms, members, bans, revoked, invites, addresses, certs>>
  BY DEF SetDisabled, InOrder, Types
<1> QED  BY <1>1, <1>2, NoTables

\* completeIdentity: the guest's device gets a grant.
LEMMA LinkGuestStep ==
  ASSUME InOrder, NEW d \in Device, NEW t \in Nat, LinkGuest(d, t)
  PROVE  InOrder'
<1>1. t + GrantLife \in Nat
  BY RoomAssumption
<1>2. /\ grant' \in [Device -> Nat \cup {Never}] /\ clock' \in Nat /\ outdated' \subseteq Device
      /\ bumped' \subseteq Room /\ state' \in [User -> {"active", "disabled", "deleted"}]
      /\ UNCHANGED <<rooms, members, bans, revoked, invites, addresses, certs, state>>
  BY <1>1 DEF LinkGuest, InOrder, Types
<1> QED  BY <1>2, NoTables

\* Time passes; a device falls below the required version or is updated.
LEMMA ClockStep ==
  ASSUME InOrder, Tick \/ \E d \in Device : SetOutdated(d)
  PROVE  InOrder'
<1>1. /\ clock' \in Nat /\ outdated' \subseteq Device /\ bumped' \subseteq Room
      /\ grant' \in [Device -> Nat \cup {Never}]
      /\ state' \in [User -> {"active", "disabled", "deleted"}]
      /\ UNCHANGED <<rooms, members, bans, revoked, invites, addresses, certs, state>>
  BY DEF Tick, SetOutdated, InOrder, Types, accounts
<1> QED  BY <1>1, NoTables

-----------------------------------------------------------------------------
(* The invariant.                                                          *)

\* The first state: no rooms, no members, no address handed out.
LEMMA Initially == Init => RoomInv
<1> SUFFICES ASSUME Init  PROVE InOrder
  BY Sorted
<1>1. \A S : S = {} => IsFiniteSet(S) /\ Cardinality(S) = 0
  BY FS_EmptySet
<1>2. members = {} /\ IsFiniteSet(members)
  BY <1>1 DEF Init
<1>3. \A r \in Room : Cardinality({m \in members : m.room = r}) <= Capacity
  <2> TAKE r \in Room
  <2>1. {m \in members : m.room = r} = {}
    BY <1>2
  <2>2. Cardinality({m \in members : m.room = r}) = 0
    BY <1>1, <2>1
  <2> QED  BY <2>2, RoomAssumption
<1>4. addresses \in [IP -> Pool!Row]
  BY DEF Init, Pool!NoRow, Pool!Row, Pool!NULL
<1>5. Tables(members, addresses, certs)
  BY <1>2, <1>3, <1>4 DEF Tables, Indexed, Init
<1>6. Types
  BY RoomAssumption DEF Init, Types
<1>7. Managed
  BY DEF Init, Managed, NoRoom
<1> QED  BY <1>2, <1>5, <1>6, <1>7 DEF InOrder

\* Every step keeps the tables, the bans, the ends and the accounts in agreement.
LEMMA Inductive == RoomInv /\ [Next]_vars => RoomInv'
<1> SUFFICES ASSUME InOrder, [Next]_vars  PROVE InOrder'
  BY Sorted, SortedNext
<1>1. ASSUME NEW t \in Pool!TxTime, NEW d \in Device, PlayerStep(d, t)  PROVE InOrder'
  <2>1. t \in Nat
    BY TxTimeNat DEF InOrder, Types
  <2>2. ASSUME NEW r \in Room,
               CreateRoom(d, r, t) \/ JoinRoom(d, r, t) \/ OwnerJoin(d, r, t)
        PROVE  InOrder'
    BY <2>1, <2>2, CreateRoomStep, JoinStep
  <2>3. ASSUME NEW r \in Room, \/ \E mac \in Mac : Heartbeat(d, r, mac, t)
                               \/ \E skew \in 0..MaxSkew : Lease(d, r, skew, t)
        PROVE  InOrder'
    BY <2>1, <2>3, HeartbeatStep, LeaseStep
  <2>4. ASSUME NEW r \in Room, \/ Leave(d, r, t) \/ Close(d, r, t)
                               \/ Invite(d, r, t) \/ InviteRevoke(d, r, t)
        PROVE  InOrder'
    BY <2>1, <2>4, LeaveStep, CloseStep, InviteStep
  <2>5. ASSUME NEW r \in Room, NEW target \in Device,
               Kick(d, r, target, t) \/ Transfer(d, r, target, t)
        PROVE  InOrder'
    BY <2>1, <2>5, KickStep, TransferStep
  <2>6. CASE Takeover(d, t)
    BY <2>1, <2>6, TakeoverStep
  <2>7. CASE \E target \in Device : RevokeDevice(d, target, t)
    BY <2>1, <2>7, RevokeDeviceStep
  <2>8. CASE LinkGuest(d, t)
    BY <2>1, <2>8, LinkGuestStep
  <2> QED  BY <1>1, <2>2, <2>3, <2>4, <2>5, <2>6, <2>7, <2>8 DEF PlayerStep
<1>2. ASSUME NEW t \in Pool!TxTime, AdminStep(t)  PROVE InOrder'
  <2>1. t \in Nat
    BY TxTimeNat DEF InOrder, Types
  <2>2. CASE \E r \in Room : AdminClose(r, t) \/ \E d \in Device : AdminKick(r, d, t)
    BY <2>1, <2>2, CloseStep, KickStep
  <2>3. CASE \E u \in User : DeleteUser(u, t) \/ \E S \in SUBSET DevicesOf(u) : AdminRevoke(u, S, t)
    BY <2>1, <2>3, DeleteUserStep, AdminRevokeStep
  <2> QED  BY <1>2, <2>2, <2>3 DEF AdminStep
<1>3. ASSUME NEW t \in Pool!TxTime, Sweep(t)  PROVE InOrder'
  BY <1>3, TxTimeNat, SweepStep DEF InOrder, Types
<1>4. CASE \E u \in Suspended : SetDisabled(u, "active") \/ SetDisabled(u, "disabled")
  BY <1>4, SetDisabledStep, RoomAssumption
<1>5. CASE Tick \/ \E d \in Enforced : SetOutdated(d)
  BY <1>5, RoomAssumption, ClockStep
<1>6. CASE UNCHANGED vars
  BY <1>6 DEF vars, accounts, InOrder, Types, Tables, Welcome, Managed
<1> QED  BY <1>1, <1>2, <1>3, <1>4, <1>5, <1>6 DEF Next

\* For any users, devices, rooms, capacity, pool and durations, the tables agree after
\* every transaction.
THEOREM Invariance == Spec => []RoomInv
<1> QED  BY Initially, Inductive, PTL DEF Spec

\* No operation ever fails on a unique index of schema.sql.
THEOREM IndexesNeverRefuse == Spec => []IndexesHold
<1>1. RoomInv => IndexesHold
  BY DEF RoomInv
<1> QED  BY <1>1, Invariance, PTL

\* A room never holds more than its capacity, through whichever door they came.
THEOREM CapacityKept == Spec => []RoomWithinCapacity
<1>1. RoomInv => RoomWithinCapacity
  BY DEF RoomInv
<1> QED  BY <1>1, Invariance, PTL

\* No banned user is in the room it is banned from.
THEOREM BansKept == Spec => []BannedStayOut
<1>1. RoomInv => BannedStayOut
  BY DEF RoomInv
<1> QED  BY <1>1, Invariance, PTL

\* Closed rooms have neither members nor certificates that peers accept.
THEOREM ClosedMeansEmpty == Spec => []ClosedRoomIsEmpty
<1>1. RoomInv => ClosedRoomIsEmpty
  BY DEF RoomInv
<1> QED  BY <1>1, Invariance, PTL

\* A certificate that snapshots do not block is a present member's, at its address.
THEOREM OnlyMembersAccepted == Spec => []UnrevokedIsMember
<1>1. RoomInv => UnrevokedIsMember
  BY DEF RoomInv
<1> QED  BY <1>1, Invariance, PTL

\* Revoked devices and deleted accounts keep nothing.
THEOREM EndedKeepNothing == Spec => []RevokedKeepsNothing
<1>1. RoomInv => RevokedKeepsNothing
  BY DEF RoomInv
<1> QED  BY <1>1, Invariance, PTL

-----------------------------------------------------------------------------
(* What is final, and what is announced.                                   *)

\* Memberships and rooms end only in rooms that get a new revision.
LEMMA GoingAnnounced ==
  ASSUME Types, NEW closing, NEW scope,
         members' = MembersAfter(scope), rooms' = Closed(closing),
         \A r \in closing : ~rooms[r].closed /\ r \in bumped',
         \A m \in members : <<m.room, m.device>> \in scope => m.room \in bumped',
         bans \subseteq bans', revoked \subseteq revoked',
         \A u \in User : state[u] = "deleted" => state'[u] = "deleted"
  PROVE  Announced
<1>1. \A r \in Room : r \notin closing => rooms'[r] = rooms[r]
  BY DEF Closed
<1>2. ASSUME NEW r \in Room, r \notin bumped'
      PROVE  rooms'[r] = rooms[r] /\ {m \in members' : m.room = r} = Roster(r)
  <2>1. rooms'[r] = rooms[r]
    BY <1>1, <1>2
  <2>2. \A m \in members : m.room = r => m \in members'
    BY <1>2 DEF MembersAfter
  <2>3. members' \subseteq members
    BY DEF MembersAfter
  <2> QED  BY <2>1, <2>2, <2>3 DEF Roster
<1> QED  BY <1>1, <1>2 DEF Announced

\* The members of a room, or its row, change only with its revision.
LEMMA ComingAnnounced ==
  ASSUME Types, NEW r \in Room,
         \A q \in Room \ bumped' : {m \in members' : m.room = q} = Roster(q),
         \A q \in Room \ {r} : rooms'[q] = rooms[q],
         rooms'[r] # rooms[r] => (rooms[r] = NoRoom \/ ~rooms[r].closed) /\ r \in bumped',
         bans \subseteq bans', revoked \subseteq revoked',
         \A u \in User : state[u] = "deleted" => state'[u] = "deleted"
  PROVE  Announced
BY DEF Announced

\* addMember gives both rooms a new revision, the one left and the one joined.
LEMMA AddAnnounced ==
  ASSUME NEW d \in Device, NEW r \in Room, NEW room, NEW t, AddMember(d, r, room, t)
  PROVE  /\ \A q \in Room \ bumped' : {m \in members' : m.room = q} = Roster(q)
         /\ r \in bumped'
<1> DEFINE stale == StaleRows(UserOf[d], t)
<1>1. PICK ip \in IP :
        members' = MembersAfter(Pairs(stale)) \cup
                     {[room |-> r, device |-> d, ip |-> ip, mac |-> NoMac]}
  BY DEF AddMember
<1>2. bumped' = {r} \cup Touched(stale)
  BY DEF AddMember
<1>3. ASSUME NEW m \in members, m \notin MembersAfter(Pairs(stale))
      PROVE  m.room \in bumped'
  <2>1. PICK n \in stale : <<m.room, m.device>> = <<n.room, n.device>>
    BY <1>3 DEF MembersAfter, Pairs
  <2> QED  BY <1>2, <2>1 DEF Touched
<1>4. MembersAfter(Pairs(stale)) \subseteq members
  BY DEF MembersAfter
<1> HIDE DEF stale
<1>5. ASSUME NEW q \in Room \ bumped', NEW m
      PROVE  (m \in members' /\ m.room = q) <=> (m \in members /\ m.room = q)
  BY <1>1, <1>2, <1>3, <1>4
<1>6. r \in bumped'
  BY <1>2
<1> QED  BY <1>5, <1>6 DEF Roster

\* What players do, operation by operation.
LEMMA PlayerAnnounced ==
  ASSUME InOrder, NEW d \in Device, NEW t, PlayerStep(d, t)
  PROVE  Announced
<1> USE DEF InOrder
<1>1. ASSUME NEW r \in Room, CreateRoom(d, r, t)  PROVE Announced
  <2>1. PICK room : /\ AddMember(d, r, room, t) /\ rooms[r] = NoRoom
                    /\ rooms' = [rooms EXCEPT ![r] = room]
                    /\ UNCHANGED <<accounts, bans>>
    BY <1>1 DEF CreateRoom
  <2>2. \A q \in Room \ {r} : rooms'[q] = rooms[q]
    BY <2>1 DEF Types
  <2> QED  BY <2>1, <2>2, AddAnnounced, ComingAnnounced DEF accounts
<1>2. ASSUME NEW r \in Room, JoinRoom(d, r, t) \/ OwnerJoin(d, r, t)  PROVE Announced
  <2>1. AddMember(d, r, rooms[r], t) /\ UNCHANGED <<accounts, rooms, bans>>
    BY <1>2 DEF JoinRoom, OwnerJoin
  <2> QED  BY <2>1, AddAnnounced, ComingAnnounced DEF accounts
<1>3. ASSUME NEW r \in Room, NEW mac \in Mac, Heartbeat(d, r, mac, t)  PROVE Announced
  <2>1. PICK m \in members : /\ m.room = r
                             /\ members' = (members \ {m}) \cup {[m EXCEPT !.mac = mac]}
    BY <1>3 DEF Heartbeat, Roster
  <2>2. [m EXCEPT !.mac = mac].room = r
    <3>1. m \in MemberRow
      BY DEF Tables
    <3> QED  BY <2>1, <3>1 DEF MemberRow
  <2>3. bumped' = {r} /\ UNCHANGED <<accounts, rooms, bans>>
    BY <1>3 DEF Heartbeat
  <2>4. \A q \in Room \ bumped' : {x \in members' : x.room = q} = Roster(q)
    BY <2>1, <2>2, <2>3 DEF Roster
  <2> QED  BY <2>3, <2>4, ComingAnnounced DEF accounts
<1>4. ASSUME NEW r \in Room, \E skew \in 0..MaxSkew : Lease(d, r, skew, t)  PROVE Announced
  BY <1>4 DEF Lease, Announced, Roster, accounts
<1>5. ASSUME NEW r \in Room, Leave(d, r, t)  PROVE Announced
  <2>1. /\ members' = MembersAfter({<<r, d>>}) /\ bumped' = {r}
        /\ UNCHANGED <<accounts, rooms, bans>>
    BY <1>5 DEF Leave, Revoke
  <2> QED  BY <2>1, NoneClosed, GoingAnnounced DEF accounts
<1>6. ASSUME NEW r \in Room, Close(d, r, t)  PROVE Announced
  <2>1. /\ members' = MembersAfter(Everyone({r}) \cup {}) /\ rooms' = Closed({r})
        /\ bumped' = {r} /\ ~rooms[r].closed /\ UNCHANGED <<accounts, bans>>
    BY <1>6 DEF Close, CloseRooms, Revoke, Owns, Open, InUse
  <2>2. \A m \in members : <<m.room, m.device>> \in Everyone({r}) \cup {} => m.room \in bumped'
    BY <2>1 DEF Everyone
  <2> QED  BY <2>1, <2>2, GoingAnnounced DEF accounts
<1>7. ASSUME NEW r \in Room, Invite(d, r, t) \/ InviteRevoke(d, r, t)  PROVE Announced
  BY <1>7 DEF Invite, InviteRevoke, Announced, Roster, accounts
<1>8. ASSUME NEW r \in Room, NEW target \in Device, Kick(d, r, target, t)  PROVE Announced
  <2>1. /\ members' = MembersAfter({<<r, target>>}) /\ bumped' = {r} /\ bans \subseteq bans'
        /\ UNCHANGED <<accounts, rooms>>
    BY <1>8 DEF Kick, Revoke
  <2> QED  BY <2>1, NoneClosed, GoingAnnounced DEF accounts
<1>9. ASSUME NEW r \in Room, NEW target \in Device, Transfer(d, r, target, t)  PROVE Announced
  <2>1. PICK room : /\ rooms' = [rooms EXCEPT ![r] = room] /\ ~rooms[r].closed
                    /\ bumped' = {r} /\ UNCHANGED <<accounts, members, bans>>
    BY <1>9 DEF Transfer, Owns, Open, InUse
  <2>2. \A q \in Room \ {r} : rooms'[q] = rooms[q]
    BY <2>1 DEF Types
  <2>3. \A q \in Room \ bumped' : {m \in members' : m.room = q} = Roster(q)
    BY <2>1 DEF Roster
  <2> QED  BY <2>1, <2>2, <2>3, ComingAnnounced DEF accounts
<1>10. ASSUME Takeover(d, t)  PROVE Announced
  <2> DEFINE rows == {m \in RowsOf(UserOf[d]) : m.device # d}
  <2>1. /\ members' = MembersAfter(Pairs(rows)) /\ bumped' = Touched(rows)
        /\ UNCHANGED <<accounts, rooms, bans>>
    BY <1>10 DEF Takeover, Revoke
  <2> HIDE DEF rows
  <2>2. \A m \in members : <<m.room, m.device>> \in Pairs(rows) => m.room \in bumped'
    BY <2>1 DEF Pairs, Touched
  <2> QED  BY <2>1, <2>2, NoneClosed, GoingAnnounced DEF accounts
<1>11. ASSUME NEW target \in Device, RevokeDevice(d, target, t)  PROVE Announced
  <2> DEFINE rows == RowsOn(UserOf[d], {target})
  <2>1. /\ members' = MembersAfter(Everyone({}) \cup Pairs(rows)) /\ rooms' = Closed({})
        /\ bumped' = {} \cup Touched(rows) /\ revoked \subseteq revoked' /\ UNCHANGED <<state, bans>>
    BY <1>11 DEF RevokeDevice, EndConnections, CloseRooms, Revoke, RowsOn
  <2>2. \A m \in members :
          <<m.room, m.device>> \in Everyone({}) \cup Pairs(rows) => m.room \in bumped'
    BY <2>1 DEF Pairs, Touched, Everyone
  <2> QED  BY <2>1, <2>2, GoingAnnounced
<1>12. ASSUME LinkGuest(d, t)  PROVE Announced
  BY <1>12 DEF LinkGuest, Announced, Roster
<1> QED  BY <1>1, <1>2, <1>3, <1>4, <1>5, <1>6, <1>7, <1>8, <1>9, <1>10, <1>11, <1>12
         DEF PlayerStep

\* What the administrator and the sweep do.
LEMMA AdminAnnounced ==
  ASSUME InOrder, NEW t, AdminStep(t) \/ Sweep(t)
  PROVE  Announced
<1> USE DEF InOrder
<1>1. ASSUME NEW r \in Room, AdminClose(r, t)  PROVE Announced
  <2>1. /\ members' = MembersAfter(Everyone({r}) \cup {}) /\ rooms' = Closed({r})
        /\ bumped' = {r} /\ ~rooms[r].closed /\ UNCHANGED <<accounts, bans>>
    BY <1>1 DEF AdminClose, CloseRooms, Revoke
  <2>2. \A m \in members : <<m.room, m.device>> \in Everyone({r}) \cup {} => m.room \in bumped'
    BY <2>1 DEF Everyone
  <2> QED  BY <2>1, <2>2, GoingAnnounced DEF accounts
<1>2. ASSUME NEW r \in Room, NEW target \in Device, AdminKick(r, target, t)  PROVE Announced
  <2>1. /\ members' = MembersAfter({<<r, target>>}) /\ bumped' = {r} /\ bans \subseteq bans'
        /\ UNCHANGED <<accounts, rooms>>
    BY <1>2 DEF AdminKick, Revoke
  <2> QED  BY <2>1, NoneClosed, GoingAnnounced DEF accounts
<1>3. ASSUME NEW u \in User, DeleteUser(u, t)  PROVE Announced
  <2> DEFINE rows == RowsOn(u, DevicesOf(u))
  <2>1. /\ members' = MembersAfter(Everyone(Owned(u)) \cup Pairs(rows))
        /\ rooms' = Closed(Owned(u)) /\ bumped' = Owned(u) \cup Touched(rows)
        /\ state' = [state EXCEPT ![u] = "deleted"] /\ UNCHANGED <<revoked, bans>>
    BY <1>3 DEF DeleteUser, EndConnections, CloseRooms, Revoke, RowsOn
  <2>2. \A r \in Owned(u) : ~rooms[r].closed /\ r \in bumped'
    BY <2>1 DEF Owned
  <2>3. \A m \in members :
          <<m.room, m.device>> \in Everyone(Owned(u)) \cup Pairs(rows) => m.room \in bumped'
    BY <2>1 DEF Pairs, Touched, Everyone
  <2>4. \A v \in User : state[v] = "deleted" => state'[v] = "deleted"
    BY <2>1 DEF Types
  <2> QED  BY <2>1, <2>2, <2>3, <2>4, GoingAnnounced
<1>4. ASSUME NEW u \in User, NEW S \in SUBSET DevicesOf(u), AdminRevoke(u, S, t)
      PROVE  Announced
  <2> DEFINE rows == RowsOn(u, S)
  <2>1. /\ members' = MembersAfter(Everyone({}) \cup Pairs(rows)) /\ rooms' = Closed({})
        /\ bumped' = {} \cup Touched(rows) /\ revoked \subseteq revoked' /\ UNCHANGED <<state, bans>>
    BY <1>4 DEF AdminRevoke, EndConnections, CloseRooms, Revoke, RowsOn
  <2>2. \A m \in members :
          <<m.room, m.device>> \in Everyone({}) \cup Pairs(rows) => m.room \in bumped'
    BY <2>1 DEF Pairs, Touched, Everyone
  <2> QED  BY <2>1, <2>2, GoingAnnounced
<1>5. ASSUME Sweep(t)  PROVE Announced
  <2> DEFINE scope == Pairs(OutdatedRows) \cup Everyone(Expired(t))
  <2>1. /\ members' = MembersAfter(scope) /\ rooms' = Closed(Expired(t))
        /\ bumped' = Expired(t) \cup Touched(OutdatedRows) /\ UNCHANGED <<accounts, bans>>
    BY <1>5 DEF Sweep
  <2>2. \A r \in Expired(t) : ~rooms[r].closed /\ r \in bumped'
    BY <2>1 DEF Expired
  <2>3. \A m \in members : <<m.room, m.device>> \in scope => m.room \in bumped'
    BY <2>1 DEF Pairs, Touched, Everyone
  <2> QED  BY <2>1, <2>2, <2>3, GoingAnnounced DEF accounts
<1> QED  BY <1>1, <1>2, <1>3, <1>4, <1>5 DEF AdminStep

\* Ends are final, and a change of a room's members, owner or end is announced by a new
\* revision, which is all that events and agents' snapshots notice.
THEOREM FinalAndAnnounced == Spec => EndsAreFinalAndAnnounced
<1>1. RoomInv /\ [Next]_vars => [Announced]_vars
  <2> SUFFICES ASSUME InOrder, Next  PROVE Announced
    BY Sorted
  <2>1. ASSUME NEW t \in Pool!TxTime, NEW d \in Device, PlayerStep(d, t)  PROVE Announced
    BY <2>1, PlayerAnnounced
  <2>2. ASSUME NEW t \in Pool!TxTime, AdminStep(t) \/ Sweep(t)  PROVE Announced
    BY <2>2, AdminAnnounced
  <2>3. ASSUME NEW u \in Suspended, SetDisabled(u, "active") \/ SetDisabled(u, "disabled")
        PROVE  Announced
    BY <2>3, RoomAssumption DEF SetDisabled, Announced, Roster, InOrder, Types
  <2>4. CASE Tick \/ \E d \in Enforced : SetOutdated(d)
    BY <2>4 DEF Tick, SetOutdated, Announced, Roster, accounts
  <2> QED  BY <2>1, <2>2, <2>3, <2>4 DEF Next
<1> QED  BY <1>1, Invariance, PTL DEF Spec, EndsAreFinalAndAnnounced

-----------------------------------------------------------------------------
(* That RoomControl implements AddressLease.  The mapping reads a device's  *)
(* binding off the members and its latest expiry off the certificates; the  *)
(* two definitions below name it for any members and certificates.          *)

BoundOf(ms) == [d \in Device |->
  IF \E m \in ms : m.device = d THEN (CHOOSE m \in ms : m.device = d).ip ELSE 0]
Times(cs, d, ip) == {c.until : c \in {x \in cs : x.device = d /\ x.ip = ip}}
ExpiryOf(cs) == [d \in Device |-> [ip \in IP |->
  IF Times(cs, d, ip) = {} THEN NULL
  ELSE CHOOSE u \in Times(cs, d, ip) : \A v \in Times(cs, d, ip) : v <= u]]

\* Certificates cs do not outlast the horizon of AddressLease.
WithinHorizon(cs, time) == \A c \in cs : c.until <= time + MaxSkew + LeaseDuration

\* A set of naturals has a least element.
LEMMA Least ==
  ASSUME NEW T \in SUBSET Nat, T # {}
  PROVE  \E x \in T : \A y \in T : x <= y
<1> DEFINE R == OpToRel(<, Nat)
<1>1. IsWellFoundedOn(R, Nat)
  BY NatLessThanWellFounded
<1>2. \A x, y \in Nat : x < y => <<x, y>> \in R
  BY DEF OpToRel
<1> HIDE DEF R
<1>3. PICK x \in T : \A y \in T : ~ (<<y, x>> \in R)
  BY <1>1, WFMin
<1>4. \A y \in T : x \in Nat /\ y \in Nat /\ ~ (y < x)
  BY <1>2, <1>3
<1> QED  BY <1>4

\* A bounded one has a greatest.
LEMMA Greatest ==
  ASSUME NEW T \in SUBSET Nat, T # {}, NEW n \in Nat, \A x \in T : x <= n
  PROVE  \E x \in T : \A y \in T : y <= x
<1> DEFINE U == {u \in Nat : \A x \in T : x <= u}
<1>1. PICK u \in U : \A v \in U : u <= v
  BY Least
<1>2. u \in Nat /\ \A x \in T : x \in Nat /\ x <= u
  OBVIOUS
<1>3. PICK x \in T : TRUE
  OBVIOUS
<1>4. CASE u \in T
  BY <1>2, <1>4
<1>5. CASE u \notin T
  <2>1. \A y \in T : y < u
    BY <1>2, <1>5
  <2>2. u # 0
    BY <1>2, <1>3, <2>1
  <2>3. u - 1 \in Nat /\ \A y \in T : y <= u - 1
    BY <1>2, <2>1, <2>2
  <2> QED  BY <1>1, <1>2, <2>3
<1> QED  BY <1>4, <1>5

LEMMA BoundMapped == BoundIP = BoundOf(members) /\ BoundIP' = BoundOf(members')
BY DEF BoundIP, BoundOf

LEMMA ExpiryMapped == LatestExpiry = ExpiryOf(certs) /\ LatestExpiry' = ExpiryOf(certs')
BY DEF LatestExpiry, ExpiryOf, Times

LEMMA PoolConstants == Pool!IP = IP /\ Pool!NoIP = 0 /\ Pool!NULL = NULL /\ Pool!Holder = Device
BY DEF Pool!IP, IP, Pool!NoIP, Pool!NULL, NULL, Pool!Holder

\* A member's device is bound to the member's address, any other to none.
LEMMA Binding ==
  ASSUME NEW ms \in SUBSET MemberRow, Indexed(ms), NEW d \in Device
  PROVE  /\ \A m \in ms : m.device = d => BoundOf(ms)[d] = m.ip
         /\ (\A m \in ms : m.device # d) => BoundOf(ms)[d] = 0
<1>1. ASSUME NEW m \in ms, m.device = d  PROVE BoundOf(ms)[d] = m.ip
  <2> DEFINE n == CHOOSE x \in ms : x.device = d
  <2>1. n \in ms /\ n.device = d
    BY <1>1
  <2>2. n = m
    BY <1>1, <2>1 DEF Indexed
  <2> QED  BY <1>1, <2>2 DEF BoundOf
<1> QED  BY <1>1 DEF BoundOf

\* e is the latest time of the certificates in cs that name d and ip.
IsLatest(cs, d, ip, e) ==
  \/ e = NULL /\ \A c \in cs : ~(c.device = d /\ c.ip = ip)
  \/ /\ e \in Nat
     /\ \E c \in cs : c.device = d /\ c.ip = ip /\ c.until = e
     /\ \A c \in cs : c.device = d /\ c.ip = ip => c.until <= e

LEMMA ExpiryIs ==
  ASSUME NEW cs \in SUBSET Cert, NEW n \in Nat, \A c \in cs : c.until <= n,
         NEW d \in Device, NEW ip \in IP
  PROVE  /\ IsLatest(cs, d, ip, ExpiryOf(cs)[d][ip])
         /\ \A e : IsLatest(cs, d, ip, e) => ExpiryOf(cs)[d][ip] = e
<1> DEFINE T == Times(cs, d, ip)
           best == CHOOSE u \in T : \A v \in T : v <= u
<1>1. T \in SUBSET Nat /\ \A x \in T : x <= n
  BY DEF Times, Cert
<1>2. ExpiryOf(cs)[d][ip] = IF T = {} THEN NULL ELSE best
  BY DEF ExpiryOf
<1>3. \A x : x \in T <=> \E c \in cs : c.device = d /\ c.ip = ip /\ c.until = x
  BY DEF Times
<1> HIDE DEF T
<1>4. CASE T = {}
  BY <1>2, <1>3, <1>4 DEF IsLatest
<1>5. CASE T # {}
  <2>1. \E u \in T : \A v \in T : v <= u
    BY <1>1, <1>5, Greatest
  <2>2. best \in T /\ \A v \in T : v <= best
    BY <2>1
  <2>3. best \in Nat
    BY <1>1, <2>2
  <2> HIDE DEF best
  <2>4. IsLatest(cs, d, ip, best)
    BY <1>3, <2>2, <2>3 DEF IsLatest
  <2>5. ASSUME NEW e, IsLatest(cs, d, ip, e)  PROVE e = best
    <3>1. e \in T /\ \A v \in T : v <= e
      BY <1>3, <1>5, <2>5 DEF IsLatest
    <3> QED  BY <1>1, <2>2, <2>3, <3>1
  <2> QED  BY <1>2, <1>5, <2>4, <2>5
<1> QED  BY <1>4, <1>5

\* Of certificates alike only the latest is kept, which changes no latest time.
LEMMA LatestOfAlike ==
  ASSUME NEW rows \in SUBSET Cert, NEW d, NEW ip, NEW e, IsLatest(rows, d, ip, e)
  PROVE  IsLatest(Latest(rows), d, ip, e)
<1>1. \A c, x \in rows : Alike(c, x) => c.device = x.device /\ c.ip = x.ip
  <2> TAKE c, x \in rows
  <2> HAVE Alike(c, x)
  <2>1. /\ [c EXCEPT !.until = 0].device = c.device /\ [x EXCEPT !.until = 0].device = x.device
        /\ [c EXCEPT !.until = 0].ip = c.ip /\ [x EXCEPT !.until = 0].ip = x.ip
    BY DEF Cert
  <2> QED  BY <2>1 DEF Alike
<1>2. Latest(rows) \subseteq rows
  BY DEF Latest
<1>3. CASE e = NULL /\ \A c \in rows : ~(c.device = d /\ c.ip = ip)
  BY <1>2, <1>3 DEF IsLatest
<1>4. ASSUME e \in Nat, NEW c \in rows, c.device = d, c.ip = ip, c.until = e,
             \A x \in rows : x.device = d /\ x.ip = ip => x.until <= e
      PROVE  IsLatest(Latest(rows), d, ip, e)
  <2>1. c \in Latest(rows)
    BY <1>1, <1>4 DEF Latest
  <2> QED  BY <1>2, <1>4, <2>1 DEF IsLatest
<1> QED  BY <1>3, <1>4 DEF IsLatest

Marked(c, scope) == [c EXCEPT !.revoked = @ \/ <<c.room, c.device>> \in scope]

\* A mark changes nothing else of a certificate.
LEMMA MarkedFacts ==
  ASSUME NEW c \in Cert, NEW scope
  PROVE  /\ Marked(c, scope) \in Cert /\ Marked(c, scope).device = c.device
         /\ Marked(c, scope).ip = c.ip /\ Marked(c, scope).until = c.until
BY DEF Cert, Marked

\* Marking certificates revoked, and keeping the latest of those alike, does not change
\* the latest time of a device and an address.
LEMMA LatestMarked ==
  ASSUME certs \subseteq Cert, NEW scope, NEW d, NEW ip, NEW e, IsLatest(certs, d, ip, e)
  PROVE  IsLatest(CertsAfter(scope), d, ip, e)
<1> DEFINE rows == {Marked(c, scope) : c \in certs}
<1>1. CertsAfter(scope) = Latest(rows)
  BY DEF CertsAfter, Marked
<1>2. rows \in SUBSET Cert
  BY MarkedFacts
<1>3. IsLatest(rows, d, ip, e)
  BY MarkedFacts DEF IsLatest
<1> HIDE DEF rows
<1> QED  BY <1>1, <1>2, <1>3, LatestOfAlike

\* The time of a certificate is a certificate's time of before.
LEMMA UntilsAfter ==
  ASSUME certs \subseteq Cert, NEW scope
  PROVE  \A c \in CertsAfter(scope) : \E e \in certs : c.until = e.until
<1>1. CertsAfter(scope) \subseteq {Marked(c, scope) : c \in certs}
  BY DEF CertsAfter, Latest, Marked
<1> QED  BY <1>1, MarkedFacts

\* What the mapping needs of a state.
Mapped == InOrder /\ WithinHorizon(certs, clock)

\* The latest expiry of a device and an address, in this state and the next.
LEMMA ExpiryNow ==
  ASSUME Mapped, NEW d \in Device, NEW ip \in IP
  PROVE  /\ IsLatest(certs, d, ip, LatestExpiry[d][ip])
         /\ \A e : IsLatest(certs, d, ip, e) => LatestExpiry[d][ip] = e
<1>1. certs \in SUBSET Cert /\ clock + MaxSkew + LeaseDuration \in Nat
  BY TimeAssumption DEF Mapped, InOrder, Tables, Types
<1>2. \A c \in certs : c.until <= clock + MaxSkew + LeaseDuration
  BY DEF Mapped, WithinHorizon
<1> QED  BY <1>1, <1>2, ExpiryIs, ExpiryMapped

LEMMA ExpiryNext ==
  ASSUME Mapped', NEW d \in Device, NEW ip \in IP
  PROVE  /\ IsLatest(certs', d, ip, LatestExpiry'[d][ip])
         /\ \A e : IsLatest(certs', d, ip, e) => LatestExpiry'[d][ip] = e
<1>1. certs' \in SUBSET Cert
  BY DEF Mapped, InOrder, Tables
<1>2. \A c \in certs' : c.until <= clock' + MaxSkew + LeaseDuration
  BY DEF Mapped, WithinHorizon
<1>3. \A n \in Nat : n + MaxSkew + LeaseDuration \in Nat
  BY TimeAssumption
<1>4. clock' \in Nat
  BY DEF Mapped, InOrder, Types
<1> QED  BY <1>1, <1>2, <1>3, <1>4, ExpiryIs, ExpiryMapped

LEMMA ExpiryShape == /\ LatestExpiry = [d \in Device |-> [ip \in IP |-> LatestExpiry[d][ip]]]
                     /\ LatestExpiry' = [d \in Device |-> [ip \in IP |-> LatestExpiry'[d][ip]]]
BY ExpiryMapped DEF ExpiryOf

\* When certificates are only marked, no latest expiry moves.
LEMMA ExpiryStays ==
  ASSUME Mapped, Mapped', NEW scope, certs' = CertsAfter(scope) \/ certs' = certs
  PROVE  LatestExpiry' = LatestExpiry
<1>1. ASSUME NEW d \in Device, NEW ip \in IP  PROVE LatestExpiry'[d][ip] = LatestExpiry[d][ip]
  <2> DEFINE e == LatestExpiry[d][ip]
  <2>1. IsLatest(certs, d, ip, e) /\ certs \subseteq Cert
    BY ExpiryNow DEF Mapped, InOrder, Tables
  <2> HIDE DEF e
  <2>2. IsLatest(certs', d, ip, e)
    BY <2>1, LatestMarked
  <2> QED  BY <2>2, ExpiryNext DEF e
<1> QED  BY <1>1, ExpiryShape

\* The binding of a device, in this state and the next.
LEMMA BindingNow ==
  ASSUME InOrder, NEW d \in Device
  PROVE  /\ \A m \in members : m.device = d => BoundIP[d] = m.ip
         /\ (\A m \in members : m.device # d) => BoundIP[d] = 0
<1>1. members \in SUBSET MemberRow /\ Indexed(members)
  BY DEF InOrder, Tables
<1> QED  BY <1>1, Binding, BoundMapped

LEMMA BindingNext ==
  ASSUME InOrder', NEW d \in Device
  PROVE  /\ \A m \in members' : m.device = d => BoundIP'[d] = m.ip
         /\ (\A m \in members' : m.device # d) => BoundIP'[d] = 0
<1>1. members' \in SUBSET MemberRow /\ Indexed(members')
  BY DEF InOrder, Tables, Indexed
<1> QED  BY <1>1, Binding, BoundMapped

LEMMA BoundShape == /\ BoundIP = [d \in Device |-> BoundIP[d]]
                    /\ BoundIP' = [d \in Device |-> BoundIP'[d]]
BY DEF BoundIP

\* The devices of the members that a scope names.
Gone(scope) == {m.device : m \in members \ MembersAfter(scope)}

\* revoke quarantines the addresses that its devices are bound to.
LEMMA Freed ==
  ASSUME InOrder, NEW scope, NEW t
  PROVE  /\ Gone(scope) \in SUBSET Device
         /\ Pool!Members(Gone(scope))
         /\ AddressesAfter(scope, t) = Pool!Released(Gone(scope), t)
<1>1. \A m \in members : m.device \in Device /\ m.ip \in IP /\ BoundIP[m.device] = m.ip
  BY MemberFacts, BindingNow
<1>2. Gone(scope) \in SUBSET Device
  BY <1>1 DEF Gone
<1>3. Pool!Members(Gone(scope))
  BY <1>1 DEF Gone, Pool!Members, Pool!IP, IP
<1>4. AddressesAfter(scope, t) = Pool!Released(Gone(scope), t)
  <2> DEFINE freed == {m.ip : m \in members \ MembersAfter(scope)}
  <2>1. \A ip \in IP : ip \in freed <=> \E h \in Gone(scope) : BoundIP[h] = ip
    BY <1>1 DEF Gone
  <2> HIDE DEF freed
  <2>2. AddressesAfter(scope, t) =
          [ip \in IP |-> IF ip \in freed THEN [holder |-> Renamed, release |-> t + Quarantine]
                         ELSE addresses[ip]]
    BY DEF AddressesAfter, freed
  <2> QED  BY <2>1, <2>2 DEF Pool!Released, Pool!IP, IP
<1> QED  BY <1>2, <1>3, <1>4

\* A device that loses its membership is bound to nothing, the others stay bound as
\* they were; `joined` is the row that addMember adds, if any.
LEMMA Rebound ==
  ASSUME InOrder, InOrder', NEW scope, NEW h \in Device, NEW joined,
         members' = MembersAfter(scope) \cup joined, \A m \in joined : m.device # h
  PROVE  BoundIP'[h] = IF h \in Gone(scope) THEN 0 ELSE BoundIP[h]
<1>1. \A m, n \in members : m.device = n.device => m = n
  BY DEF InOrder, Tables, Indexed
<1>2. \A m \in members' : m.device = h <=> m \in MembersAfter(scope) /\ m.device = h
  OBVIOUS
<1>3. MembersAfter(scope) \subseteq members
  BY DEF MembersAfter
<1>4. CASE h \in Gone(scope)
  <2>1. \A m \in MembersAfter(scope) : m.device # h
    BY <1>1, <1>3, <1>4 DEF Gone
  <2> QED  BY <1>2, <1>4, <2>1, BindingNext
<1>5. CASE h \notin Gone(scope) /\ \E m \in members : m.device = h
  <2>1. PICK m \in members' : m \in members /\ m.device = h
    BY <1>5 DEF Gone
  <2> QED  BY <1>5, <2>1, BindingNow, BindingNext
<1>6. CASE h \notin Gone(scope) /\ \A m \in members : m.device # h
  BY <1>2, <1>3, <1>6, BindingNow, BindingNext
<1> QED  BY <1>4, <1>5, <1>6

\* A revocation is an end of memberships to the pool.
LEMMA RevokeIsEnd ==
  ASSUME Mapped, Mapped', NEW t \in Pool!TxTime, NEW scope, Revoke(scope, t), clock' = clock
  PROVE  Pool!Next
<1> DEFINE S == Gone(scope)
<1>1. /\ members' = MembersAfter(scope) /\ certs' = CertsAfter(scope)
      /\ addresses' = AddressesAfter(scope, t)
  BY DEF Revoke
<1>2. S \in SUBSET Device /\ Pool!Members(S) /\ addresses' = Pool!Released(S, t)
  BY <1>1, Freed DEF Mapped
<1>3. ASSUME NEW h \in Device
      PROVE  BoundIP'[h] = IF h \in S THEN 0 ELSE BoundIP[h]
  <2> DEFINE joined == {}
  <2>1. members' = MembersAfter(scope) \cup joined /\ \A m \in joined : m.device # h
    BY <1>1
  <2>2. InOrder /\ InOrder'
    BY DEF Mapped
  <2> HIDE DEF joined
  <2> QED  BY <2>1, <2>2, Rebound
<1>4. LatestExpiry' = LatestExpiry
  BY <1>1, ExpiryStays
<1> HIDE DEF S
<1>5. BoundIP' = [h \in Device |-> IF h \in S THEN 0 ELSE BoundIP[h]]
  BY <1>3, BoundShape
<1>6. Pool!End(S, t)
  BY <1>2, <1>4, <1>5 DEF Pool!End, Pool!Holder, Pool!NoIP
<1> QED  BY <1>2, <1>6 DEF Pool!Next

\* addMember is an admission: of the user's memberships only stale ones end, and its
\* device has none other.
LEMMA AddMemberIsAdmit ==
  ASSUME Mapped, Mapped', NEW t \in Pool!TxTime, NEW d \in Device, NEW r, NEW room,
         AddMember(d, r, room, t), clock' = clock
  PROVE  Pool!Next
<1> DEFINE scope == Pairs(StaleRows(UserOf[d], t))
           S == Gone(scope)
<1>1. PICK ip \in IP :
        /\ Pool!Allocated(AddressesAfter(scope, t), d, t, ip, addresses')
        /\ members' = MembersAfter(scope) \cup
                        {[room |-> r, device |-> d, ip |-> ip, mac |-> NoMac]}
  BY DEF AddMember
<1> DEFINE new == [room |-> r, device |-> d, ip |-> ip, mac |-> NoMac]
<1>2. members' = MembersAfter(scope) \cup {new} /\ new.device = d /\ new.ip = ip
  BY <1>1
<1> HIDE DEF new
<1>3. certs' = CertsAfter(scope) /\ RowsOf(UserOf[d]) = StaleRows(UserOf[d], t)
  BY DEF AddMember, Available
<1>4. BoundIP[d] = 0 \/ d \in S
  <2>1. \A m \in members : m.device = d => m \in StaleRows(UserOf[d], t)
    BY <1>3 DEF RowsOf
  <2>2. \A m \in members : m.device = d => m \notin MembersAfter(scope)
    BY <2>1 DEF Pairs, MembersAfter
  <2> QED  BY <2>2, BindingNow DEF Gone, Mapped
<1> HIDE DEF scope
<1>5. /\ S \in SUBSET Device /\ Pool!Members(S)
      /\ AddressesAfter(scope, t) = Pool!Released(S, t)
  BY Freed DEF Mapped
<1>6. LatestExpiry' = LatestExpiry
  BY <1>3, ExpiryStays
<1>7. ASSUME NEW h \in Device
      PROVE  BoundIP'[h] = IF h = d THEN ip ELSE IF h \in S THEN 0 ELSE BoundIP[h]
  <2>1. InOrder /\ InOrder'
    BY DEF Mapped
  <2>2. CASE h = d
    <3>1. new \in members'
      BY <1>2
    <3> QED  BY <1>2, <2>1, <2>2, <3>1, BindingNext
  <2>3. CASE h # d
    <3> DEFINE joined == {new}
    <3>1. members' = MembersAfter(scope) \cup joined /\ \A m \in joined : m.device # h
      BY <1>2, <2>3
    <3> HIDE DEF joined
    <3> QED  BY <2>1, <2>3, <3>1, Rebound
  <2> QED  BY <2>2, <2>3
<1> HIDE DEF S
<1>8. BoundIP' = [h \in Device |-> IF h = d THEN ip ELSE IF h \in S THEN 0 ELSE BoundIP[h]]
  BY <1>7, BoundShape
<1>9. Pool!Admit(d, S, t)
  BY <1>1, <1>4, <1>5, <1>6, <1>8 DEF Pool!Admit, Pool!Holder, Pool!NoIP, Pool!IP, IP
<1> QED  BY <1>5, <1>9 DEF Pool!Next

\* The sweep is one to the pool: certificates past their retention are those whose device
\* and address have no later one, or a later one stays.
LEMMA SweepIsSweep ==
  ASSUME Mapped, Mapped', NEW t \in Pool!TxTime, Sweep(t)
  PROVE  Pool!Next
<1> DEFINE scope == Pairs(OutdatedRows) \cup Everyone(Expired(t))
           S == Gone(scope)
<1>1. /\ members' = MembersAfter(scope)
      /\ addresses' = Pool!Purged(AddressesAfter(scope, t), t)
      /\ certs' = {c \in CertsAfter(scope) : c.until >= t - Retention}
      /\ clock' = clock
  BY DEF Sweep
<1> HIDE DEF scope
<1>2. InOrder /\ InOrder' /\ certs \subseteq Cert /\ certs' \subseteq Cert /\ t \in Nat
  BY TxTimeNat DEF Mapped, InOrder, Tables, Types
<1>3. S \in SUBSET Device /\ Pool!Members(S) /\ AddressesAfter(scope, t) = Pool!Released(S, t)
  BY <1>2, Freed
<1>4. ASSUME NEW h \in Device
      PROVE  BoundIP'[h] = IF h \in S THEN 0 ELSE BoundIP[h]
  <2> DEFINE joined == {}
  <2>1. members' = MembersAfter(scope) \cup joined /\ \A m \in joined : m.device # h
    BY <1>1
  <2> HIDE DEF joined
  <2> QED  BY <1>2, <2>1, Rebound
<1> HIDE DEF S
<1>5. BoundIP' = [h \in Device |-> IF h \in S THEN 0 ELSE BoundIP[h]]
  BY <1>4, BoundShape
<1>6. ASSUME NEW h \in Device, NEW ip \in IP
      PROVE  LatestExpiry'[h][ip] =
               IF LatestExpiry[h][ip] < t - Retention THEN NULL ELSE LatestExpiry[h][ip]
  <2> DEFINE e == LatestExpiry[h][ip]
             swept == IF e < t - Retention THEN NULL ELSE e
             marked == CertsAfter(scope)
  <2>1. IsLatest(certs, h, ip, e)
    BY ExpiryNow
  <2>2. IsLatest(marked, h, ip, e) /\ marked \subseteq Cert
    BY <1>2, <2>1, LatestMarked, CertsAfterFacts
  <2>3. certs' = {c \in marked : c.until >= t - Retention} /\ t - Retention \in Int
    BY <1>1, <1>2, TimeAssumption
  <2>4. \A c \in marked : c.until \in Nat
    BY <2>2 DEF Cert
  <2> HIDE DEF marked, e
  <2>5. IsLatest(certs', h, ip, swept)
    BY <2>2, <2>3, <2>4 DEF IsLatest, NULL
  <2> QED  BY <2>5, ExpiryNext DEF e
<1>7. LatestExpiry' = [h \in Device |-> [ip \in IP |->
          IF LatestExpiry[h][ip] < t - Retention THEN NULL ELSE LatestExpiry[h][ip]]]
  BY <1>6, ExpiryShape
<1>8. Pool!Sweep(S, t)
  BY <1>1, <1>3, <1>5, <1>7
     DEF Pool!Sweep, Pool!Holder, Pool!NoIP, Pool!IP, IP, Pool!NULL, NULL
<1> QED  BY <1>3, <1>8 DEF Pool!Next

\* A lease is one to the pool.
LEMMA LeaseIsLease ==
  ASSUME Mapped, Mapped', NEW d \in Device, NEW r \in Room, NEW skew \in 0..MaxSkew, NEW t,
         Lease(d, r, skew, t)
  PROVE  Pool!Next
<1>1. InOrder /\ InOrder' /\ certs \subseteq Cert
  BY DEF Mapped, InOrder, Tables
<1>2. PICK m \in members, new \in Cert :
        /\ m.device = d /\ new.device = d /\ new.ip = m.ip
        /\ new.until <= clock + MaxSkew + LeaseDuration
        /\ certs' = Latest(certs \cup {new})
  BY <1>1, Signed
<1>3. UNCHANGED <<clock, addresses, members>>
  BY DEF Lease
<1>4. m.ip \in IP /\ BoundIP[d] = m.ip /\ BoundIP' = BoundIP
  BY <1>1, <1>2, <1>3, MemberFacts, BindingNow, BoundMapped
<1>5. new.until \in Nat /\ \A c \in certs : c.until \in Nat
  BY <1>1 DEF Cert
<1>6. ASSUME NEW h \in Device, NEW ip \in IP
      PROVE  LatestExpiry'[h][ip] =
               IF h = d /\ ip = m.ip /\ new.until > LatestExpiry[h][ip]
                 THEN new.until ELSE LatestExpiry[h][ip]
  <2> DEFINE e == LatestExpiry[h][ip]
             later == IF h = d /\ ip = m.ip /\ new.until > e THEN new.until ELSE e
             more == certs \cup {new}
  <2>1. IsLatest(certs, h, ip, e)
    BY ExpiryNow
  <2> HIDE DEF e
  <2>2. IsLatest(more, h, ip, later)
    BY <1>2, <1>5, <2>1 DEF IsLatest, NULL
  <2>3. more \in SUBSET Cert
    BY <1>1
  <2> HIDE DEF more, later
  <2>4. IsLatest(certs', h, ip, later)
    BY <1>2, <2>2, <2>3, LatestOfAlike DEF more
  <2> QED  BY <2>4, ExpiryNext DEF e, later
<1>7. LatestExpiry' = [LatestExpiry EXCEPT ![d][m.ip] =
                         IF new.until > @ THEN new.until ELSE @]
  BY <1>4, <1>6, ExpiryShape
<1>8. new.until \in 0..(clock + MaxSkew + LeaseDuration)
  BY <1>2, <1>5
<1>9. Pool!Lease(d)
  BY <1>3, <1>4, <1>7, <1>8 DEF Pool!Lease, Pool!IP, IP
<1> QED  BY <1>9 DEF Pool!Next, Pool!Holder

-----------------------------------------------------------------------------

\* What a step does to the tables that the pool is read off.
Joining == \E t \in Pool!TxTime, d \in Device, r \in Room : \E room : AddMember(d, r, room, t)
Leaving == \E t \in Pool!TxTime : \E scope : Revoke(scope, t)
Signing == \E d \in Device, r \in Room, skew \in 0..MaxSkew : \E t : Lease(d, r, skew, t)
Reporting == /\ \E d \in Device, r \in Room, mac \in Mac : \E t : Heartbeat(d, r, mac, t)
             /\ UNCHANGED <<addresses, certs>>

\* Every step joins, ends, leases, sweeps, reports a MAC, or leaves these tables alone.
LEMMA StepKinds ==
  ASSUME Next
  PROVE  \/ UNCHANGED clock /\ (Joining \/ Leaving \/ Signing \/ Reporting)
         \/ \E t \in Pool!TxTime : Sweep(t)
         \/ UNCHANGED <<clock, addresses, members, certs>>
         \/ Tick
<1> DEFINE Kinds == \/ UNCHANGED clock /\ (Joining \/ Leaving \/ Signing \/ Reporting)
                    \/ \E t \in Pool!TxTime : Sweep(t)
                    \/ UNCHANGED <<clock, addresses, members, certs>>
                    \/ Tick
<1> SUFFICES Kinds
  OBVIOUS
<1>1. ASSUME NEW t \in Pool!TxTime, NEW d \in Device, PlayerStep(d, t)  PROVE Kinds
  <2>1. ASSUME NEW r \in Room,
               CreateRoom(d, r, t) \/ JoinRoom(d, r, t) \/ OwnerJoin(d, r, t)
        PROVE  Kinds
    BY <2>1 DEF CreateRoom, JoinRoom, OwnerJoin, Joining
  <2>2. ASSUME NEW r \in Room, NEW mac \in Mac, Heartbeat(d, r, mac, t)  PROVE Kinds
    <3>1. UNCHANGED <<clock, addresses, certs>>
      BY <2>2 DEF Heartbeat
    <3> QED  BY <2>2, <3>1 DEF Reporting
  <2>3. ASSUME NEW r \in Room, NEW skew \in 0..MaxSkew, Lease(d, r, skew, t)  PROVE Kinds
    <3>1. UNCHANGED clock
      BY <2>3 DEF Lease
    <3> QED  BY <2>3, <3>1 DEF Signing
  <2>4. ASSUME NEW r \in Room, Leave(d, r, t) \/ Close(d, r, t)  PROVE Kinds
    BY <2>4 DEF Leave, Close, CloseRooms, Leaving
  <2>5. ASSUME NEW r \in Room, Invite(d, r, t) \/ InviteRevoke(d, r, t)  PROVE Kinds
    BY <2>5 DEF Invite, InviteRevoke
  <2>6. ASSUME NEW r \in Room, NEW target \in Device, Kick(d, r, target, t)  PROVE Kinds
    BY <2>6 DEF Kick, Leaving
  <2>7. ASSUME NEW r \in Room, NEW target \in Device, Transfer(d, r, target, t)  PROVE Kinds
    BY <2>7 DEF Transfer
  <2>8. ASSUME Takeover(d, t)  PROVE Kinds
    BY <2>8 DEF Takeover, Leaving
  <2>9. ASSUME NEW target \in Device, RevokeDevice(d, target, t)  PROVE Kinds
    BY <2>9 DEF RevokeDevice, EndConnections, CloseRooms, Leaving
  <2>10. ASSUME LinkGuest(d, t)  PROVE Kinds
    BY <2>10 DEF LinkGuest
  <2> HIDE DEF Kinds
  <2> QED  BY <1>1, <2>1, <2>2, <2>3, <2>4, <2>5, <2>6, <2>7, <2>8, <2>9, <2>10 DEF PlayerStep
<1>2. ASSUME NEW t \in Pool!TxTime, AdminStep(t)  PROVE Kinds
  <2>1. ASSUME NEW r \in Room, AdminClose(r, t)  PROVE Kinds
    BY <2>1 DEF AdminClose, CloseRooms, Leaving
  <2>2. ASSUME NEW r \in Room, NEW d \in Device, AdminKick(r, d, t)  PROVE Kinds
    BY <2>2 DEF AdminKick, Leaving
  <2>3. ASSUME NEW u \in User, DeleteUser(u, t)  PROVE Kinds
    BY <2>3 DEF DeleteUser, EndConnections, CloseRooms, Leaving
  <2>4. ASSUME NEW u \in User, NEW S \in SUBSET DevicesOf(u), AdminRevoke(u, S, t)
        PROVE  Kinds
    BY <2>4 DEF AdminRevoke, EndConnections, CloseRooms, Leaving
  <2> HIDE DEF Kinds
  <2> QED  BY <1>2, <2>1, <2>2, <2>3, <2>4 DEF AdminStep
<1>3. ASSUME NEW u \in User, SetDisabled(u, "active") \/ SetDisabled(u, "disabled")
      PROVE  Kinds
  BY <1>3 DEF SetDisabled
<1>4. ASSUME NEW d \in Device, SetOutdated(d)  PROVE Kinds
  BY <1>4 DEF SetOutdated
<1> QED  BY <1>1, <1>2, <1>3, <1>4, RoomAssumption DEF Next

\* Time goes on and certificates stay as they are, or fewer.
LEMMA OlderCerts ==
  ASSUME Mapped, \A c \in certs' : \E e \in certs : c.until = e.until,
         clock' = clock \/ clock' = clock + 1
  PROVE  WithinHorizon(certs', clock')
<1>1. clock \in Nat /\ \A e \in certs : e.until \in Nat
  BY DEF Mapped, InOrder, Types, Tables, Cert
<1>2. \A e \in certs : e.until <= clock + MaxSkew + LeaseDuration
  BY DEF Mapped, WithinHorizon
<1>3. \A n \in Nat : /\ n <= clock + MaxSkew + LeaseDuration =>
                          n <= (clock + 1) + MaxSkew + LeaseDuration
  BY <1>1, TimeAssumption
<1>4. \A c \in certs' : /\ c.until \in Nat /\ c.until <= clock + MaxSkew + LeaseDuration
                        /\ c.until <= (clock + 1) + MaxSkew + LeaseDuration
  BY <1>1, <1>2, <1>3
<1> QED  BY <1>4 DEF WithinHorizon

\* No certificate outlasts the horizon of the pool.
LEMMA HorizonStep == Mapped /\ [Next]_vars => WithinHorizon(certs', clock')
<1> SUFFICES ASSUME Mapped, [Next]_vars  PROVE WithinHorizon(certs', clock')
  OBVIOUS
<1>1. InOrder /\ certs \subseteq Cert
  BY DEF Mapped, InOrder, Tables
<1>2. CASE UNCHANGED <<clock, certs>>
  BY <1>2, OlderCerts
<1>3. CASE Leaving /\ UNCHANGED clock
  <2>1. PICK scope : certs' = CertsAfter(scope)
    BY <1>3 DEF Leaving, Revoke
  <2> QED  BY <1>1, <1>3, <2>1, UntilsAfter, OlderCerts
<1>4. CASE Joining /\ UNCHANGED clock
  <2>1. PICK scope : certs' = CertsAfter(scope)
    BY <1>4 DEF Joining, AddMember
  <2> QED  BY <1>1, <1>4, <2>1, UntilsAfter, OlderCerts
<1>5. CASE Signing /\ UNCHANGED clock
  <2>1. PICK new \in Cert : /\ new.until <= clock + MaxSkew + LeaseDuration
                            /\ certs' = Latest(certs \cup {new})
    BY <1>1, <1>5, Signed DEF Signing
  <2>2. certs' \subseteq certs \cup {new}
    BY <2>1 DEF Latest
  <2> QED  BY <1>5, <2>1, <2>2 DEF Mapped, WithinHorizon
<1>6. CASE \E t \in Pool!TxTime : Sweep(t)
  <2>1. PICK scope : certs' \subseteq CertsAfter(scope) /\ clock' = clock
    BY <1>6 DEF Sweep
  <2> QED  BY <1>1, <2>1, UntilsAfter, OlderCerts
<1>7. CASE Tick
  BY <1>7, OlderCerts DEF Tick
<1>8. Reporting => UNCHANGED certs
  BY DEF Reporting
<1> QED  BY <1>2, <1>3, <1>4, <1>5, <1>6, <1>7, <1>8, StepKinds DEF vars

\* What the mapping needs holds in every state.
LEMMA AlwaysMapped == Spec => []Mapped
<1>1. Init => WithinHorizon(certs, clock)
  BY DEF Init, WithinHorizon
<1>2. InOrder /\ WithinHorizon(certs, clock) /\ [Next]_vars => WithinHorizon(certs', clock')
  BY HorizonStep DEF Mapped
<1>3. (WithinHorizon(certs, clock))' <=> WithinHorizon(certs', clock')
  BY DEF WithinHorizon
<1>4. Spec => []InOrder
  BY Invariance, Sorted, PTL
<1>5. Mapped <=> InOrder /\ WithinHorizon(certs, clock)
  BY DEF Mapped
<1> HIDE DEF Mapped
<1> QED  BY <1>1, <1>2, <1>3, <1>4, <1>5, PTL DEF Spec

\* A report of a MAC binds nobody anew.
LEMMA ReportIsSilent ==
  ASSUME Mapped, Mapped', Reporting, clock' = clock
  PROVE  UNCHANGED Pool!vars
<1>1. PICK d \in Device, r \in Room, mac \in Mac, m \in members :
        members' = (members \ {m}) \cup {[m EXCEPT !.mac = mac]}
  BY DEF Reporting, Heartbeat, Roster
<1> DEFINE new == [m EXCEPT !.mac = mac]
<1>2. InOrder /\ InOrder' /\ m \in MemberRow /\ new.device = m.device /\ new.ip = m.ip
  BY DEF Mapped, InOrder, Tables, MemberRow
<1>3. members' = (members \ {m}) \cup {new}
  BY <1>1
<1> HIDE DEF new
<1>4. ASSUME NEW h \in Device  PROVE BoundIP'[h] = BoundIP[h]
  <2>1. CASE h = m.device
    <3>1. new \in members' /\ new.device = h
      BY <1>2, <1>3, <2>1
    <3> QED  BY <1>2, <2>1, <3>1, BindingNow, BindingNext
  <2>2. CASE h # m.device
    <3>1. \A x : x.device = h => (x \in members <=> x \in members')
      BY <1>2, <1>3, <2>2
    <3>2. CASE \E x \in members : x.device = h
      BY <1>2, <3>1, <3>2, BindingNow, BindingNext
    <3>3. CASE \A x \in members : x.device # h
      BY <1>2, <3>1, <3>3, BindingNow, BindingNext
    <3> QED  BY <3>2, <3>3
  <2> QED  BY <2>1, <2>2
<1>5. BoundIP' = BoundIP
  BY <1>4, BoundShape
<1>6. LatestExpiry' = LatestExpiry
  BY ExpiryMapped DEF Reporting
<1> QED  BY <1>5, <1>6 DEF Pool!vars, Reporting

\* The pool starts with nothing held and nothing signed.
LEMMA PoolInit == Init => Pool!Init
<1> SUFFICES ASSUME Init  PROVE Pool!Init
  OBVIOUS
<1>1. BoundIP = [d \in Device |-> 0]
  BY DEF Init, BoundIP
<1>2. LatestExpiry = [d \in Device |-> [ip \in IP |-> NULL]]
  <2>1. \A d \in Device, ip \in IP : Times(certs, d, ip) = {}
    BY DEF Init, Times
  <2> QED  BY <2>1, ExpiryMapped DEF ExpiryOf
<1> QED  BY <1>1, <1>2 DEF Init, Pool!Init, Pool!IP, IP, Pool!Holder, Pool!NoIP, Pool!NULL, NULL

\* Every step is a step of the pool, or none.
LEMMA PoolStep == Mapped /\ Mapped' /\ [Next]_vars => [Pool!Next]_Pool!vars
<1> SUFFICES ASSUME Mapped, Mapped', [Next]_vars  PROVE [Pool!Next]_Pool!vars
  OBVIOUS
<1>1. CASE UNCHANGED <<clock, addresses, members, certs>>
  BY <1>1, BoundMapped, ExpiryMapped DEF Pool!vars
<1>2. CASE UNCHANGED clock /\ Joining
  BY <1>2, AddMemberIsAdmit DEF Joining
<1>3. CASE UNCHANGED clock /\ Leaving
  BY <1>3, RevokeIsEnd DEF Leaving
<1>4. CASE Signing
  BY <1>4, LeaseIsLease DEF Signing
<1>5. CASE UNCHANGED clock /\ Reporting
  BY <1>5, ReportIsSilent
<1>6. CASE \E t \in Pool!TxTime : Sweep(t)
  BY <1>6, SweepIsSweep
<1>7. CASE Tick
  <2>1. UNCHANGED <<addresses, members, certs>> /\ clock < MaxClock /\ clock' = clock + 1
    BY <1>7 DEF Tick
  <2>2. Pool!Tick
    BY <2>1, BoundMapped, ExpiryMapped DEF Pool!Tick
  <2> QED  BY <2>2 DEF Pool!Next
<1> QED  BY <1>1, <1>2, <1>3, <1>4, <1>5, <1>6, <1>7, StepKinds DEF vars

\* Rooms, accounts and their ends use the address pool as AddressLease says it is used:
\* every transaction of RoomControl is one of AddressLease's or leaves its tables alone,
\* so whatever is true of the pool (module AddressLease_proofs) is true here.
THEOREM PoolKept == Spec => PoolImplemented
<1> QED  BY AlwaysMapped, PoolInit, PoolStep, PTL DEF Spec, PoolImplemented, Pool!Spec

\* The theorems of AddressLease_proofs, of the pool that the rooms use.
PoolProofs == INSTANCE AddressLease_proofs
                WITH Player <- Device, Node <- {}, bound <- BoundIP, expiry <- LatestExpiry

\* The pool whose theorems are used is the pool implemented.
LEMMA SamePool ==
  /\ PoolProofs!Spec <=> Pool!Spec
  /\ PoolProofs!AddressExclusive <=> Pool!AddressExclusive
<1> USE DEF PoolProofs!Holder, Pool!Holder, PoolProofs!IP, Pool!IP, PoolProofs!NULL, Pool!NULL,
            PoolProofs!NoIP, Pool!NoIP, PoolProofs!Retired, Pool!Retired,
            PoolProofs!NoRow, Pool!NoRow, PoolProofs!HeldBy, Pool!HeldBy
<1>1. PoolProofs!vars = Pool!vars
  BY DEF PoolProofs!vars, Pool!vars
<1>2. PoolProofs!Init <=> Pool!Init
  BY DEF PoolProofs!Init, Pool!Init
<1>3. PoolProofs!Next <=> Pool!Next
  BY Zenon DEF PoolProofs!Next, Pool!Next, PoolProofs!TxTime, Pool!TxTime,
         PoolProofs!Admit, Pool!Admit, PoolProofs!Enroll, Pool!Enroll, PoolProofs!Retire, Pool!Retire,
         PoolProofs!End, Pool!End, PoolProofs!Sweep, Pool!Sweep, PoolProofs!Lease, Pool!Lease,
         PoolProofs!Tick, Pool!Tick, PoolProofs!Members, Pool!Members,
         PoolProofs!Allocated, Pool!Allocated, PoolProofs!Released, Pool!Released,
         PoolProofs!Purged, Pool!Purged, PoolProofs!LastUses, Pool!LastUses
<1>4. PoolProofs!AddressExclusive <=> Pool!AddressExclusive
  BY DEF PoolProofs!AddressExclusive, Pool!AddressExclusive, PoolProofs!Live, Pool!Live
<1>5. [PoolProofs!Next]_PoolProofs!vars <=> [Pool!Next]_Pool!vars
  BY <1>3 DEF PoolProofs!vars, Pool!vars
<1> QED  BY <1>2, <1>4, <1>5, PTL DEF PoolProofs!Spec, Pool!Spec

\* In the deployment's rooms no address is ever named by unexpired certificates of two
\* devices, nor given to a member while another device still has one, whichever way the
\* memberships ended: if the quarantine outlasts the lease, the lead of the server's
\* clock and the wait for the write lock.
THEOREM NoAddressTwice ==
  ASSUME LeaseDuration + MaxSkew + MaxWait <= Quarantine, Nobody # Renamed
  PROVE  Spec => []Pool!AddressExclusive
<1>1. PoolProofs!Spec => []PoolProofs!AddressExclusive
  BY RoomAssumption, TimeAssumption, PoolProofs!Exclusivity DEF PoolProofs!Holder
<1> QED  BY <1>1, SamePool, PoolKept, PTL DEF PoolImplemented
=============================================================================
