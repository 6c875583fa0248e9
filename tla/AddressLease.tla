---------------------------- MODULE AddressLease ----------------------------
(***************************************************************************)
(* The life of a tunnel address in the control plane: the table            *)
(* `addresses`, the memberships and node bindings that use its rows, and   *)
(* the certificates signed for them.                                       *)
(*                                                                         *)
(* A member's device (or a node's) is given an address, leases             *)
(* certificates that name it, and loses it when the membership ends.       *)
(* Nothing recalls a certificate already signed: revocation reaches a peer *)
(* only if its control connection is up, so the only thing that keeps two  *)
(* machines from presenting a valid certificate for the same address is    *)
(* that the row stays in quarantine until the old certificate has expired. *)
(*                                                                         *)
(* Two clocks are involved.  The quarantine is computed from PostgreSQL's  *)
(* now(), which is the time the transaction BEGAN and so is behind by what *)
(* it waited for the write lock (at most MaxWait).  The certificate's      *)
(* expiry is computed from the control process's own clock, which may be   *)
(* ahead of the database's by MaxSkew.                                     *)
(*                                                                         *)
(* Rooms, users and the reasons a membership ends are left out: module     *)
(* RoomControl has them and is checked to implement this specification.    *)
(***************************************************************************)
EXTENDS Integers

CONSTANTS
  Player,         \* devices that join rooms
  Node,           \* devices of relay and lighthouse nodes
  PoolSize,       \* usable addresses of the deployment's network
  LeaseDuration,  \* model.LeaseDuration, 10 minutes
  Quarantine,     \* the 11 minutes of revoke and revokeNode
  Retention,      \* how long Sweep keeps an expired certificate, 1 hour
  MaxSkew,        \* the server's clock is at most this far ahead of the database's
  MaxWait,        \* longest wait for the write lock after BEGIN
  MaxClock,       \* bound on time, for model checking
  Nobody,         \* the holder of a row that does not exist
  Renamed         \* the holder of a row released by revoke: "<holder>:<random>"

Holder == Player \cup Node
IP == 1..PoolSize
NULL == -1        \* an absent release_after
NoIP == 0         \* a device without an address
Retired == -1     \* a node device whose binding was revoked; it never enrolls again

ASSUME TimingAssumption ==
  /\ LeaseDuration \in Nat /\ Quarantine \in Nat /\ Retention \in Nat
  /\ MaxSkew \in Nat /\ MaxWait \in Nat /\ MaxClock \in Nat
  /\ LeaseDuration + MaxSkew + MaxWait <= Quarantine

ASSUME HolderAssumption ==
  /\ PoolSize \in Nat
  /\ Player \cap Node = {}
  /\ Nobody \notin Holder /\ Renamed \notin Holder /\ Nobody # Renamed

VARIABLES
  clock,         \* the database's clock
  addresses,     \* table addresses: for each IP its row, or NoRow
  bound,         \* the IP of a device's active membership or current binding
  expiry         \* of table certificates: the latest expires_at of the rows of a
                 \* device that name an IP, or NULL

vars == <<clock, addresses, bound, expiry>>

Row == [holder: Holder \cup {Nobody, Renamed}, release: Nat \cup {NULL}]
NoRow == [holder |-> Nobody, release |-> NULL]
HeldBy(h) == [holder |-> h, release |-> NULL]

TypeOK ==
  /\ clock \in Nat
  /\ addresses \in [IP -> Row]
  /\ bound \in [Holder -> IP \cup {NoIP, Retired}]
  /\ expiry \in [Holder -> [IP -> Nat \cup {NULL}]]

Init ==
  /\ clock = 0
  /\ addresses = [ip \in IP |-> NoRow]
  /\ bound = [h \in Holder |-> NoIP]
  /\ expiry = [h \in Holder |-> [ip \in IP |-> NULL]]

-----------------------------------------------------------------------------

\* The values now() may have in a transaction that holds the write lock.
TxTime == {t \in 0..clock : clock - t <= MaxWait}

\* revoke: the rows of the active members in S are renamed and quarantined.
ReleasedForALease(S, t) ==
  [ip \in IP |-> IF \E h \in S : bound[h] = ip
                   THEN [holder |-> Renamed, release |-> t + LeaseDuration]
                   ELSE addresses[ip]]
Released(S, t) ==
  [ip \in IP |-> IF \E h \in S : bound[h] = ip
                   THEN [holder |-> Renamed, release |-> t + Quarantine]
                   ELSE addresses[ip]]

\* DELETE FROM addresses WHERE release_after < now()
PurgedNever(table, t) == table
PurgedSoon(table, t) ==
  [ip \in IP |-> IF table[ip].release # NULL /\ table[ip].release <= t
                   THEN NoRow ELSE table[ip]]
Purged(table, t) ==
  [ip \in IP |-> IF table[ip].release # NULL /\ table[ip].release < t
                   THEN NoRow ELSE table[ip]]

\* allocate: the row the device still holds, if any; otherwise expired rows are
\* purged and the lowest unused address is inserted for it.
Allocated(table, h, t, ip, result) ==
  LET mine == {a \in IP : table[a] = HeldBy(h)}
      rows == Purged(table, t)
      unused == {a \in IP : rows[a] = NoRow}
  IN IF mine # {}
       THEN ip \in mine /\ result = table
       ELSE /\ ip \in unused
            /\ \A a \in unused : ip <= a
            /\ result = [rows EXCEPT ![ip] = HeldBy(h)]

\* addMember: the user's stale memberships are revoked first (available), then
\* the device, which must have none left, is given an address.
Admit(h, stale, t) ==
  /\ bound[h] = NoIP \/ h \in stale
  /\ \E ip \in IP :
       /\ Allocated(Released(stale, t), h, t, ip, addresses')
       /\ bound' = [k \in Holder |-> IF k = h THEN ip
                                     ELSE IF k \in stale THEN NoIP ELSE bound[k]]
  /\ UNCHANGED <<clock, expiry>>

\* completeEnrollment: a node device that has never been seen gets an address.
Enroll(n, t) ==
  /\ bound[n] = NoIP
  /\ \E ip \in IP :
       /\ Allocated(addresses, n, t, ip, addresses')
       /\ bound' = [bound EXCEPT ![n] = ip]
  /\ UNCHANGED <<clock, expiry>>

\* issueLease: a certificate for the bound address, until the server's now plus
\* LeaseDuration or an earlier limit (the room's end, the device's grant, the CA).
Lease(h) ==
  /\ bound[h] \in IP
  /\ \E until \in 0..(clock + MaxSkew + LeaseDuration) :
       expiry' = [expiry EXCEPT ![h][bound[h]] = IF until > @ THEN until ELSE @]
  /\ UNCHANGED <<clock, addresses, bound>>

\* revoke: the memberships in S end (leave, kick, close, takeover, logout, ...).
End(S, t) ==
  /\ addresses' = Released(S, t)
  /\ bound' = [h \in Holder |-> IF h \in S THEN NoIP ELSE bound[h]]
  /\ UNCHANGED <<clock, expiry>>

\* The times that a retired node's row must outlast.
LastUses(n, t) == {expiry[n][ip] : ip \in IP} \cup {t + Quarantine}

\* revokeNode (permanent): the row is released at the later of now plus Quarantine
\* and the expiry of the last certificate signed for the device.
Retire(n, t) ==
  /\ bound[n] \in IP
  /\ \E release \in LastUses(n, t) :
       /\ \A e \in LastUses(n, t) : e <= release
       /\ addresses' = [ip \in IP |-> IF addresses[ip].holder = n
                                        THEN [holder |-> Renamed, release |-> release]
                                        ELSE addresses[ip]]
  /\ bound' = [bound EXCEPT ![n] = Retired]
  /\ UNCHANGED <<clock, expiry>>

\* Sweep: memberships cut off by the sweep end (expired rooms, required updates),
\* then expired rows and long expired certificates are deleted.
Sweep(S, t) ==
  /\ addresses' = Purged(Released(S, t), t)
  /\ bound' = [h \in Holder |-> IF h \in S THEN NoIP ELSE bound[h]]
  /\ expiry' = [h \in Holder |-> [ip \in IP |->
                  IF expiry[h][ip] < t - Retention THEN NULL ELSE expiry[h][ip]]]
  /\ UNCHANGED clock

Tick ==
  /\ clock < MaxClock
  /\ clock' = clock + 1
  /\ UNCHANGED <<addresses, bound, expiry>>

\* The sets of players whose memberships one transaction may end.
Members(S) == \A h \in S : bound[h] \in IP

Next ==
  \/ \E t \in TxTime :
       \/ \E h \in Player, S \in SUBSET Player : Members(S) /\ Admit(h, S, t)
       \/ \E n \in Node : Enroll(n, t) \/ Retire(n, t)
       \/ \E S \in SUBSET Player : Members(S) /\ (End(S, t) \/ Sweep(S, t))
  \/ \E h \in Holder : Lease(h)
  \/ Tick

Spec == Init /\ [][Next]_vars

-----------------------------------------------------------------------------

\* Device h has a certificate for ip that a peer may still accept.
Live(h, ip) == clock <= expiry[h][ip]

\* No address is named by unexpired certificates of two devices, revoked ones
\* included, since a peer may not have heard of the revocation; and nobody is bound
\* to an address for which another device still has one.  This is what the
\* 11-minute quarantine of revoke (store.go) is for.
AddressExclusive ==
  \A h, k \in Holder, ip \in IP :
    (Live(h, ip) \/ bound[h] = ip) /\ Live(k, ip) => h = k

\* The rows of `addresses` and the memberships agree: a bound address is held by
\* its device, and a row without release_after is some device's present address.
\* A row that is held but bound to nobody would never be freed.
RowsMatchBindings ==
  /\ \A h \in Holder : bound[h] \in IP => addresses[bound[h]] = HeldBy(h)
  /\ \A ip \in IP : addresses[ip].holder \in Holder => bound[addresses[ip].holder] = ip

\* Every unexpired certificate names an address that its device is still bound to,
\* or one that stays in quarantine at least until the certificate expires.
LiveCertificatesBacked ==
  \A h \in Holder, ip \in IP : Live(h, ip) =>
    \/ bound[h] = ip
    \/ addresses[ip].holder = Renamed /\ expiry[h][ip] <= addresses[ip].release

\* The three shapes of a row.
RowShapes ==
  \A ip \in IP :
    \/ addresses[ip] = NoRow
    \/ addresses[ip].holder = Renamed /\ addresses[ip].release \in Nat
    \/ addresses[ip].holder \in Holder /\ addresses[ip].release = NULL

\* The horizon that no certificate outlives.
Horizon ==
  \A h \in Holder, ip \in IP : expiry[h][ip] <= clock + MaxSkew + LeaseDuration

\* The inductive invariant: AddressExclusive does not follow from its own past, it
\* needs to know what keeps an address away from others while a certificate lives.
Inv ==
  /\ TypeOK
  /\ RowShapes
  /\ Horizon
  /\ RowsMatchBindings
  /\ LiveCertificatesBacked
  /\ AddressExclusive

\* An address leaves quarantine only after its release time: no step deletes a
\* quarantined row, hands it on or moves its release while the database's clock is
\* not past release_after.
QuarantineStep ==
  \A ip \in IP : addresses[ip].holder = Renamed /\ addresses'[ip] # addresses[ip]
                   => addresses[ip].release < clock
QuarantineHolds == [][QuarantineStep]_vars
=============================================================================
