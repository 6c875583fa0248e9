------------------------- MODULE AddressLease_proofs -------------------------
(* Proofs about AddressLease, for every set of devices, every pool size and  *)
(* all durations that satisfy TimingAssumption.                              *)
EXTENDS AddressLease, TLAPS

\* A time a transaction may see is a natural number, and not older than MaxWait.
LEMMA TxTimeFacts ==
  ASSUME TypeOK, NEW t \in TxTime
  PROVE  t \in Nat /\ t <= clock /\ clock <= t + MaxWait
BY TimingAssumption DEF TypeOK, TxTime

\* Initially nothing is held, bound or signed.
LEMMA InitInv == Init => Inv
BY HolderAssumption, TimingAssumption
   DEF Init, Inv, TypeOK, RowShapes, Horizon, RowsMatchBindings, LiveCertificatesBacked,
       AddressExclusive, Live, Row, NoRow, HeldBy, IP, NULL, NoIP, Retired

\* Time passing only lets certificates expire.
LEMMA TickInv == Inv /\ Tick => Inv'
<1> SUFFICES ASSUME Inv, Tick PROVE Inv'
  OBVIOUS
<1> USE DEF Inv, Tick
<1>1. TypeOK'
  BY DEF TypeOK
<1>2. RowShapes'
  BY DEF RowShapes
<1>3. Horizon'
  BY TimingAssumption DEF Horizon, TypeOK, NULL
<1>4. RowsMatchBindings'
  BY DEF RowsMatchBindings
<1>5. \A h \in Holder, ip \in IP : Live(h, ip)' => Live(h, ip)
  BY DEF Live, TypeOK, NULL
<1>6. LiveCertificatesBacked'
  BY <1>5 DEF LiveCertificatesBacked
<1>7. AddressExclusive'
  BY <1>5 DEF AddressExclusive
<1>8. QED
  BY <1>1, <1>2, <1>3, <1>4, <1>6, <1>7

\* A new certificate names the address its device is bound to, so it adds no claim
\* on anyone else's address.
LEMMA LeaseInv == ASSUME Inv, NEW h \in Holder, Lease(h) PROVE Inv'
<1>1. PICK until \in 0..(clock + MaxSkew + LeaseDuration) :
        expiry' = [expiry EXCEPT ![h][bound[h]] = IF until > @ THEN until ELSE @]
  BY DEF Lease
<1>2. /\ bound[h] \in IP
      /\ UNCHANGED <<clock, addresses, bound>>
  BY DEF Lease
<1>3. TypeOK'
  BY <1>1, <1>2, TimingAssumption DEF Inv, TypeOK
<1>4. RowShapes' /\ RowsMatchBindings'
  BY <1>2 DEF Inv, RowShapes, RowsMatchBindings
<1>5. Horizon'
  BY <1>1, <1>2, TimingAssumption DEF Inv, TypeOK, Horizon, NULL
<1>6. \A k \in Holder, ip \in IP :
         ~(k = h /\ ip = bound[h]) => expiry'[k][ip] = expiry[k][ip]
  BY <1>1, <1>2 DEF Inv, TypeOK
<1>7. LiveCertificatesBacked'
  BY <1>2, <1>6 DEF Inv, LiveCertificatesBacked, Live
<1>8. AddressExclusive'
  <2> SUFFICES ASSUME NEW a \in Holder, NEW b \in Holder, NEW ip \in IP,
                      Live(a, ip)' \/ bound[a] = ip, Live(b, ip)', a # b
               PROVE  FALSE
    BY <1>2 DEF AddressExclusive
  <2>1. CASE b = h /\ ip = bound[h]
    <3>1. ~Live(a, ip)
      BY <2>1 DEF Inv, AddressExclusive
    <3>2. bound[a] = ip
      BY <3>1, <2>1, <1>2, <1>6 DEF Live
    <3>3. HeldBy(a) = HeldBy(b)
      BY <3>2, <2>1 DEF Inv, RowsMatchBindings
    <3>4. QED
      BY <3>3 DEF HeldBy
  <2>2. CASE ~(b = h /\ ip = bound[h])
    <3>1. Live(b, ip)
      BY <2>2, <1>2, <1>6 DEF Live
    <3>2. ~Live(a, ip) /\ bound[a] # ip
      BY <3>1 DEF Inv, AddressExclusive
    <3>3. QED
      BY <3>2, <1>2, <1>6 DEF Live
  <2>3. QED
    BY <2>1, <2>2
<1>9. QED
  BY <1>3, <1>4, <1>5, <1>7, <1>8 DEF Inv

-----------------------------------------------------------------------------
(* The transactions rewrite the table and the bindings in several statements.  *)
(* Consistent states the invariant of a table and a binding in between, with   *)
(* the clock and the certificates of the present state.                        *)

Consistent(table, b) ==
  /\ table \in [IP -> Row]
  /\ b \in [Holder -> IP \cup {NoIP, Retired}]
  /\ \A ip \in IP :
       \/ table[ip] = NoRow
       \/ table[ip].holder = Renamed /\ table[ip].release \in Nat
       \/ table[ip].holder \in Holder /\ table[ip].release = NULL
  /\ \A h \in Holder : b[h] \in IP => table[b[h]] = HeldBy(h)
  /\ \A ip \in IP : table[ip].holder \in Holder => b[table[ip].holder] = ip
  /\ \A h \in Holder, ip \in IP : Live(h, ip) =>
       \/ b[h] = ip
       \/ table[ip].holder = Renamed /\ expiry[h][ip] <= table[ip].release
  /\ \A h, k \in Holder, ip \in IP :
       (Live(h, ip) \/ b[h] = ip) /\ Live(k, ip) => h = k

\* Of the invariant, all but the type and the horizon is about rows and bindings.
LEMMA InvConsistent == Inv <=> TypeOK /\ Horizon /\ Consistent(addresses, bound)
BY DEF Inv, TypeOK, Consistent, RowShapes, RowsMatchBindings, LiveCertificatesBacked,
       AddressExclusive

\* If a step leaves time and the certificates alone, it is enough that the new table
\* and bindings are consistent.
LEMMA StepConsistent ==
  ASSUME Inv, UNCHANGED <<clock, expiry>>, Consistent(addresses', bound')
  PROVE  Inv'
BY DEF Inv, TypeOK, Consistent, RowShapes, RowsMatchBindings, LiveCertificatesBacked,
       AddressExclusive, Horizon, Live

Unbound(S) == [h \in Holder |-> IF h \in S THEN NoIP ELSE bound[h]]

\* revoke: the released rows stay until every certificate that names them expired,
\* because the quarantine covers a lease, the skew and the wait.
LEMMA ReleaseConsistent ==
  ASSUME Inv, NEW t \in TxTime, NEW S \in SUBSET Player, Members(S)
  PROVE  Consistent(Released(S, t), Unbound(S))
<1> DEFINE T == Released(S, t)
           b == Unbound(S)
<1>1. t \in Nat /\ t <= clock /\ clock <= t + MaxWait
  BY TxTimeFacts DEF Inv
<1>2. t + Quarantine \in Nat
  BY <1>1, TimingAssumption
<1>3. \A ip \in IP : (\E h \in S : bound[h] = ip)
                       => T[ip] = [holder |-> Renamed, release |-> t + Quarantine]
  BY DEF Released
<1>4. \A ip \in IP : ~(\E h \in S : bound[h] = ip) => T[ip] = addresses[ip]
  BY DEF Released
<1>5. T \in [IP -> Row]
  BY <1>2 DEF Released, Inv, TypeOK, Row
<1>6. b \in [Holder -> IP \cup {NoIP, Retired}]
  BY DEF Unbound, Inv, TypeOK
<1>7. S \subseteq Holder
  BY DEF Holder
<1>8. \A ip \in IP : \/ T[ip] = NoRow
                     \/ T[ip].holder = Renamed /\ T[ip].release \in Nat
                     \/ T[ip].holder \in Holder /\ T[ip].release = NULL
  BY <1>2, <1>3, <1>4 DEF Inv, RowShapes
<1>9. \A h \in Holder : b[h] \in IP => T[b[h]] = HeldBy(h)
  <2> SUFFICES ASSUME NEW h \in Holder, b[h] \in IP PROVE T[b[h]] = HeldBy(h)
    OBVIOUS
  <2>1. h \notin S /\ b[h] = bound[h]
    BY DEF Unbound, NoIP, IP
  <2>2. \A k \in S : bound[k] # bound[h]
    <3> SUFFICES ASSUME NEW k \in S, bound[k] = bound[h] PROVE FALSE
      OBVIOUS
    <3>1. HeldBy(k) = HeldBy(h)
      BY <2>1, <1>7 DEF Inv, RowsMatchBindings
    <3>2. k # h
      BY <2>1
    <3>3. QED
      BY <3>1, <3>2 DEF HeldBy
  <2>3. QED
    BY <2>1, <2>2, <1>4 DEF Inv, RowsMatchBindings
<1>10. \A ip \in IP : T[ip].holder \in Holder => b[T[ip].holder] = ip
  <2> SUFFICES ASSUME NEW ip \in IP, T[ip].holder \in Holder
               PROVE  b[T[ip].holder] = ip
    OBVIOUS
  <2>1. T[ip] = addresses[ip] /\ \A h \in S : bound[h] # ip
    BY <1>3, <1>4, HolderAssumption
  <2>2. bound[T[ip].holder] = ip
    BY <2>1 DEF Inv, RowsMatchBindings
  <2>3. QED
    BY <2>1, <2>2 DEF Unbound
<1>11. \A h \in Holder, ip \in IP : Live(h, ip) =>
         b[h] = ip \/ (T[ip].holder = Renamed /\ expiry[h][ip] <= T[ip].release)
  <2> SUFFICES ASSUME NEW h \in Holder, NEW ip \in IP, Live(h, ip)
               PROVE  b[h] = ip \/ (T[ip].holder = Renamed /\ expiry[h][ip] <= T[ip].release)
    OBVIOUS
  <2>1. CASE \E k \in S : bound[k] = ip
    <3>1. T[ip] = [holder |-> Renamed, release |-> t + Quarantine]
      BY <2>1, <1>3
    <3>2. expiry[h][ip] <= clock + MaxSkew + LeaseDuration
      BY DEF Inv, Horizon
    <3>3. expiry[h][ip] <= t + Quarantine
      BY <3>2, <1>1, TimingAssumption DEF Inv, TypeOK, NULL
    <3>4. QED
      BY <3>1, <3>3
  <2>2. CASE ~ \E k \in S : bound[k] = ip
    BY <2>2, <1>4 DEF Inv, LiveCertificatesBacked, Unbound
  <2>3. QED
    BY <2>1, <2>2
<1>12. \A h, k \in Holder, ip \in IP :
         (Live(h, ip) \/ b[h] = ip) /\ Live(k, ip) => h = k
  BY DEF Unbound, Inv, AddressExclusive, NoIP, IP
<1>13. QED
  BY <1>5, <1>6, <1>8, <1>9, <1>10, <1>11, <1>12 DEF Consistent

\* The purge deletes only rows whose release time has passed, so whose certificates
\* have all expired.
LEMMA PurgeConsistent ==
  ASSUME TypeOK, NEW t \in TxTime, NEW T, NEW b, Consistent(T, b)
  PROVE  Consistent(Purged(T, t), b)
<1> DEFINE P == Purged(T, t)
<1>1. t \in Nat /\ t <= clock
  BY TxTimeFacts
<1>2. \A ip \in IP : P[ip] = T[ip] \/ (P[ip] = NoRow /\ T[ip].release # NULL
                                         /\ T[ip].release < t)
  BY DEF Purged
<1>3. NoRow \in Row
  BY DEF NoRow, Row
<1>4. P \in [IP -> Row]
  BY <1>3 DEF Purged, Consistent
<1>5. NoRow.holder \notin Holder
  BY HolderAssumption DEF NoRow
<1>6. \A h \in Holder : b[h] \in IP => P[b[h]] = HeldBy(h)
  BY <1>2 DEF Consistent, HeldBy
<1>7. \A ip \in IP : P[ip].holder \in Holder => b[P[ip].holder] = ip
  BY <1>2, <1>5 DEF Consistent
<1>8. \A h \in Holder, ip \in IP : Live(h, ip) =>
        b[h] = ip \/ (P[ip].holder = Renamed /\ expiry[h][ip] <= P[ip].release)
  <2> SUFFICES ASSUME NEW h \in Holder, NEW ip \in IP, Live(h, ip), b[h] # ip
               PROVE  P[ip].holder = Renamed /\ expiry[h][ip] <= P[ip].release
    OBVIOUS
  <2>1. T[ip].holder = Renamed /\ expiry[h][ip] <= T[ip].release
    BY DEF Consistent
  <2>2. T[ip].release \in Nat
    BY <2>1, HolderAssumption DEF Consistent, NoRow
  <2>3. ~(T[ip].release < t)
    BY <2>1, <2>2, <1>1 DEF Live, TypeOK, NULL
  <2>4. QED
    BY <2>1, <2>3, <1>2
<1>9. QED
  BY <1>2, <1>4, <1>6, <1>7, <1>8 DEF Consistent

\* allocate gives a device without an address one that no unexpired certificate names.
LEMMA AllocateConsistent ==
  ASSUME TypeOK, NEW t \in TxTime, NEW T, NEW b, Consistent(T, b),
         NEW h \in Holder, b[h] \notin IP,
         NEW ip \in IP, NEW R, Allocated(T, h, t, ip, R)
  PROVE  Consistent(R, [b EXCEPT ![h] = ip])
<1> DEFINE P == Purged(T, t)
           c == [b EXCEPT ![h] = ip]
<1>1. Consistent(P, b)
  BY PurgeConsistent
<1>2. \A a \in IP : T[a] # HeldBy(h)
  BY DEF Consistent, HeldBy
<1>3. P[ip] = NoRow /\ R = [P EXCEPT ![ip] = HeldBy(h)]
  BY <1>2 DEF Allocated
<1>4. HeldBy(h) \in Row
  BY DEF HeldBy, Row
<1>5. \A a \in IP : R[a] = IF a = ip THEN HeldBy(h) ELSE P[a]
  BY <1>1, <1>3 DEF Consistent
<1>6. \A k \in Holder : c[k] = IF k = h THEN ip ELSE b[k]
  BY <1>1 DEF Consistent
<1>7. \A k \in Holder : ~Live(k, ip)
  <2> SUFFICES ASSUME NEW k \in Holder, Live(k, ip) PROVE FALSE
    OBVIOUS
  <2>1. b[k] = ip
    BY <1>1, <1>3, HolderAssumption DEF Consistent, NoRow
  <2>2. QED
    BY <2>1, <1>1, <1>3, HolderAssumption DEF Consistent, NoRow, HeldBy
<1>8. R \in [IP -> Row] /\ c \in [Holder -> IP \cup {NoIP, Retired}]
  BY <1>1, <1>3, <1>4 DEF Consistent
<1>9. \A a \in IP : \/ R[a] = NoRow
                    \/ R[a].holder = Renamed /\ R[a].release \in Nat
                    \/ R[a].holder \in Holder /\ R[a].release = NULL
  BY <1>1, <1>5 DEF Consistent, HeldBy
<1>10. \A k \in Holder : c[k] \in IP => R[c[k]] = HeldBy(k)
  <2> SUFFICES ASSUME NEW k \in Holder, c[k] \in IP PROVE R[c[k]] = HeldBy(k)
    OBVIOUS
  <2>1. CASE k = h
    BY <2>1, <1>5, <1>6
  <2>2. CASE k # h
    <3>1. c[k] = b[k] /\ P[b[k]] = HeldBy(k)
      BY <2>2, <1>1, <1>6 DEF Consistent
    <3>2. b[k] # ip
      BY <3>1, <1>3, HolderAssumption DEF NoRow, HeldBy
    <3>3. QED
      BY <3>1, <3>2, <1>5
  <2>3. QED
    BY <2>1, <2>2
<1>11. \A a \in IP : R[a].holder \in Holder => c[R[a].holder] = a
  BY <1>1, <1>5, <1>6 DEF Consistent, HeldBy
<1>12. \A k \in Holder, a \in IP : Live(k, a) =>
         c[k] = a \/ (R[a].holder = Renamed /\ expiry[k][a] <= R[a].release)
  BY <1>1, <1>5, <1>6, <1>7 DEF Consistent
<1>13. \A k, l \in Holder, a \in IP :
         (Live(k, a) \/ c[k] = a) /\ Live(l, a) => k = l
  BY <1>1, <1>6, <1>7 DEF Consistent
<1>14. QED
  BY <1>8, <1>9, <1>10, <1>11, <1>12, <1>13 DEF Consistent

-----------------------------------------------------------------------------
(* One lemma per transaction.                                                  *)

\* revoke: memberships end and their addresses go into quarantine.
LEMMA EndInv ==
  ASSUME Inv, NEW t \in TxTime, NEW S \in SUBSET Player, Members(S), End(S, t)
  PROVE  Inv'
<1>1. addresses' = Released(S, t) /\ bound' = Unbound(S)
  BY DEF End, Unbound
<1>2. UNCHANGED <<clock, expiry>>
  BY DEF End
<1>3. QED
  BY <1>1, <1>2, ReleaseConsistent, StepConsistent

\* addMember: release the stale memberships, then allocate for a device left unbound.
LEMMA AdmitInv ==
  ASSUME Inv, NEW t \in TxTime, NEW h \in Player, NEW S \in SUBSET Player, Members(S),
         Admit(h, S, t)
  PROVE  Inv'
<1> DEFINE b == Unbound(S)
<1>1. PICK ip \in IP :
        /\ Allocated(Released(S, t), h, t, ip, addresses')
        /\ bound' = [k \in Holder |-> IF k = h THEN ip
                                      ELSE IF k \in S THEN NoIP ELSE bound[k]]
  BY DEF Admit
<1>2. h \in Holder /\ b[h] = NoIP
  BY DEF Admit, Unbound, Holder
<1>3. b[h] \notin IP
  BY <1>2 DEF NoIP, IP
<1>4. Consistent(Released(S, t), b)
  BY ReleaseConsistent
<1>5. bound' = [b EXCEPT ![h] = ip]
  BY <1>1, <1>2 DEF Unbound
<1>6. Consistent(addresses', bound')
  BY <1>1, <1>2, <1>3, <1>4, <1>5, AllocateConsistent DEF Inv
<1>7. UNCHANGED <<clock, expiry>>
  BY DEF Admit
<1>8. QED
  BY <1>6, <1>7, StepConsistent

\* completeEnrollment: a node's device gets an address nobody can still present.
LEMMA EnrollInv ==
  ASSUME Inv, NEW t \in TxTime, NEW n \in Node, Enroll(n, t) PROVE Inv'
<1>1. PICK ip \in IP : /\ Allocated(addresses, n, t, ip, addresses')
                       /\ bound' = [bound EXCEPT ![n] = ip]
  BY DEF Enroll
<1>2. n \in Holder /\ bound[n] \notin IP
  BY DEF Enroll, Holder, NoIP, IP
<1>3. Consistent(addresses', bound')
  BY <1>1, <1>2, InvConsistent, AllocateConsistent DEF Inv
<1>4. UNCHANGED <<clock, expiry>>
  BY DEF Enroll
<1>5. QED
  BY <1>3, <1>4, StepConsistent

\* revokeNode: the release time is at least the expiry of every certificate of the node.
LEMMA RetireInv ==
  ASSUME Inv, NEW t \in TxTime, NEW n \in Node, Retire(n, t) PROVE Inv'
<1>1. /\ bound[n] \in IP
      /\ bound' = [bound EXCEPT ![n] = Retired]
      /\ UNCHANGED <<clock, expiry>>
  BY DEF Retire, LastUses
<1> DEFINE expiries == {expiry[n][ip] : ip \in IP} \cup {t + Quarantine}
<1>2. PICK release \in expiries :
        /\ \A e \in expiries : e <= release
        /\ addresses' = [ip \in IP |-> IF addresses[ip].holder = n
                                         THEN [holder |-> Renamed, release |-> release]
                                         ELSE addresses[ip]]
  BY DEF Retire, LastUses
<1>3. n \in Holder /\ t \in Nat
  BY TxTimeFacts DEF Holder, Inv
<1>4. /\ t + Quarantine <= release
      /\ \A ip \in IP : expiry[n][ip] <= release
  BY <1>2
<1>5. release \in Nat
  BY <1>2, <1>3, <1>4, TimingAssumption DEF Inv, TypeOK, NULL
<1>6. \A ip \in IP : addresses[ip].holder = n <=> ip = bound[n]
  <2>1. addresses[bound[n]] = HeldBy(n)
    BY <1>1, <1>3 DEF Inv, RowsMatchBindings
  <2>2. \A ip \in IP : addresses[ip].holder = n => bound[n] = ip
    BY <1>3 DEF Inv, RowsMatchBindings
  <2>3. HeldBy(n).holder = n
    BY DEF HeldBy
  <2>4. QED
    BY <2>1, <2>2, <2>3
<1>7. /\ addresses'[bound[n]] = [holder |-> Renamed, release |-> release]
      /\ \A ip \in IP : ip # bound[n] => addresses'[ip] = addresses[ip]
  BY <1>1, <1>2, <1>6
<1>8. /\ bound'[n] = Retired
      /\ \A h \in Holder : h # n => bound'[h] = bound[h]
  BY <1>1, <1>3 DEF Inv, TypeOK
<1>9. addresses' \in [IP -> Row] /\ bound' \in [Holder -> IP \cup {NoIP, Retired}]
  BY <1>1, <1>2, <1>5 DEF Inv, TypeOK, Row
<1>10. \A ip \in IP : \/ addresses'[ip] = NoRow
                      \/ addresses'[ip].holder = Renamed /\ addresses'[ip].release \in Nat
                      \/ addresses'[ip].holder \in Holder /\ addresses'[ip].release = NULL
  BY <1>5, <1>7 DEF Inv, RowShapes
<1>11. \A h \in Holder : bound'[h] \in IP => addresses'[bound'[h]] = HeldBy(h)
  <2> SUFFICES ASSUME NEW h \in Holder, bound'[h] \in IP
               PROVE  addresses'[bound'[h]] = HeldBy(h)
    OBVIOUS
  <2>1. h # n /\ bound'[h] = bound[h]
    BY <1>8 DEF Retired, IP
  <2>2. addresses[bound[h]] = HeldBy(h)
    BY <2>1 DEF Inv, RowsMatchBindings
  <2>3. bound[h] # bound[n]
    BY <2>1, <2>2, <1>1, <1>6 DEF HeldBy
  <2>4. QED
    BY <2>1, <2>2, <2>3, <1>7
<1>12. \A ip \in IP : addresses'[ip].holder \in Holder => bound'[addresses'[ip].holder] = ip
  BY <1>1, <1>6, <1>7, <1>8, HolderAssumption DEF Inv, RowsMatchBindings
<1>13. \A h \in Holder, ip \in IP : Live(h, ip) =>
         \/ bound'[h] = ip
         \/ addresses'[ip].holder = Renamed /\ expiry[h][ip] <= addresses'[ip].release
  <2> SUFFICES ASSUME NEW h \in Holder, NEW ip \in IP, Live(h, ip)
               PROVE  \/ bound'[h] = ip
                      \/ /\ addresses'[ip].holder = Renamed
                         /\ expiry[h][ip] <= addresses'[ip].release
    OBVIOUS
  <2>1. CASE ip = bound[n]
    <3>1. h = n
      BY <2>1, <1>3 DEF Inv, AddressExclusive
    <3>2. QED
      BY <2>1, <3>1, <1>4, <1>7
  <2>2. CASE ip # bound[n]
    BY <2>2, <1>7, <1>8 DEF Inv, LiveCertificatesBacked
  <2>3. QED
    BY <2>1, <2>2
<1>14. \A h, k \in Holder, ip \in IP :
         (Live(h, ip) \/ bound'[h] = ip) /\ Live(k, ip) => h = k
  BY <1>8 DEF Inv, AddressExclusive, Retired, IP
<1>15. Consistent(addresses', bound')
  BY <1>9, <1>10, <1>11, <1>12, <1>13, <1>14 DEF Consistent
<1>16. QED
  BY <1>1, <1>15, StepConsistent

\* Sweep: release and purge, then forget certificates that expired long ago.
LEMMA SweepInv ==
  ASSUME Inv, NEW t \in TxTime, NEW S \in SUBSET Player, Members(S), Sweep(S, t)
  PROVE  Inv'
<1>1. /\ addresses' = Purged(Released(S, t), t)
      /\ bound' = Unbound(S)
      /\ expiry' = [h \in Holder |-> [ip \in IP |->
                     IF expiry[h][ip] < t - Retention THEN NULL ELSE expiry[h][ip]]]
      /\ clock' = clock
  BY DEF Sweep, Unbound
<1>2. Consistent(addresses', bound')
  BY <1>1, ReleaseConsistent, PurgeConsistent DEF Inv
<1>3. \A h \in Holder, ip \in IP : expiry'[h][ip] = expiry[h][ip] \/ expiry'[h][ip] = NULL
  BY <1>1
<1>4. \A h \in Holder, ip \in IP : Live(h, ip)' => Live(h, ip) /\ expiry'[h][ip] = expiry[h][ip]
  BY <1>1, <1>3 DEF Live, Inv, TypeOK, NULL
<1>5. TypeOK'
  BY <1>1, <1>2 DEF Inv, TypeOK, Consistent
<1>6. Horizon'
  BY <1>1, <1>3, TimingAssumption DEF Inv, TypeOK, Horizon, NULL
<1>7. RowShapes' /\ RowsMatchBindings'
  BY <1>2 DEF Consistent, RowShapes, RowsMatchBindings
<1>8. LiveCertificatesBacked'
  BY <1>2, <1>4 DEF Consistent, LiveCertificatesBacked
<1>9. AddressExclusive'
  BY <1>2, <1>4 DEF Consistent, AddressExclusive
<1>10. QED
  BY <1>5, <1>6, <1>7, <1>8, <1>9 DEF Inv

-----------------------------------------------------------------------------

\* Every action of the store and the passage of time preserve the invariant.
LEMMA NextInv == Inv /\ [Next]_vars => Inv'
<1> SUFFICES ASSUME Inv, [Next]_vars PROVE Inv'
  OBVIOUS
<1>1. CASE UNCHANGED vars
  BY <1>1 DEF vars, Inv, TypeOK, RowShapes, Horizon, RowsMatchBindings,
              LiveCertificatesBacked, AddressExclusive, Live
<1>2. CASE \E h \in Holder : Lease(h)
  BY <1>2, LeaseInv
<1>3. CASE Tick
  BY <1>3, TickInv
<1>4. ASSUME NEW t \in TxTime, NEW h \in Player, NEW S \in SUBSET Player,
             Members(S), Admit(h, S, t)
      PROVE  Inv'
  BY <1>4, AdmitInv
<1>5. ASSUME NEW t \in TxTime, NEW n \in Node, Enroll(n, t) \/ Retire(n, t)
      PROVE  Inv'
  BY <1>5, EnrollInv, RetireInv
<1>6. ASSUME NEW t \in TxTime, NEW S \in SUBSET Player, Members(S),
             End(S, t) \/ Sweep(S, t)
      PROVE  Inv'
  BY <1>6, EndInv, SweepInv
<1>7. QED
  BY <1>1, <1>2, <1>3, <1>4, <1>5, <1>6 DEF Next

\* The inductive invariant holds in every behaviour.
THEOREM Invariance == Spec => []Inv
<1>1. Init => Inv
  BY InitInv
<1>2. Inv /\ [Next]_vars => Inv'
  BY NextInv
<1>3. QED
  BY <1>1, <1>2, PTL DEF Spec

\* Every variable keeps its type.
THEOREM TypeCorrect == Spec => []TypeOK
<1>1. Inv => TypeOK
  BY DEF Inv
<1>2. QED
  BY <1>1, Invariance, PTL

\* No address is ever named by unexpired certificates of two devices, nor bound to a
\* device while another still has one: the quarantine of store.go's revoke is long
\* enough for every lease, skew and wait with LeaseDuration + MaxSkew + MaxWait <=
\* Quarantine, however memberships, nodes, sweeps and time interleave.
THEOREM Exclusivity == Spec => []AddressExclusive
<1>1. Inv => AddressExclusive
  BY DEF Inv
<1>2. QED
  BY <1>1, Invariance, PTL

\* The address table and the bindings never disagree.
THEOREM RowsAndBindings == Spec => []RowsMatchBindings
<1>1. Inv => RowsMatchBindings
  BY DEF Inv
<1>2. QED
  BY <1>1, Invariance, PTL

\* A table that differs from `addresses` at a quarantined row only if its time is over.
Respects(table) ==
  \A ip \in IP : addresses[ip].holder = Renamed /\ table[ip] # addresses[ip]
                   => addresses[ip].release < clock

\* revoke touches the rows of bound devices, never one already in quarantine.
LEMMA ReleaseRespects ==
  ASSUME Inv, NEW t \in TxTime, NEW S \in SUBSET Player, Members(S)
  PROVE  /\ Respects(Released(S, t))
         /\ \A ip \in IP : addresses[ip].holder = Renamed
                             => Released(S, t)[ip] = addresses[ip]
<1>1. \A h \in S, ip \in IP : bound[h] = ip => addresses[ip].holder # Renamed
  <2> SUFFICES ASSUME NEW h \in S, bound[h] \in IP
               PROVE  addresses[bound[h]].holder # Renamed
    OBVIOUS
  <2>1. h \in Holder
    BY DEF Holder
  <2>2. addresses[bound[h]] = HeldBy(h)
    BY <2>1 DEF Inv, RowsMatchBindings
  <2>3. QED
    BY <2>1, <2>2, HolderAssumption DEF HeldBy
<1>2. \A ip \in IP : addresses[ip].holder = Renamed => Released(S, t)[ip] = addresses[ip]
  BY <1>1 DEF Released
<1>3. QED
  BY <1>2 DEF Respects

\* The purge and allocate of a table take away only rows whose time is over.
LEMMA PurgeRespects ==
  ASSUME Inv, NEW t \in TxTime, NEW T,
         \A ip \in IP : addresses[ip].holder = Renamed => T[ip] = addresses[ip]
  PROVE  Respects(Purged(T, t))
<1>1. t \in Nat /\ t <= clock
  BY TxTimeFacts DEF Inv
<1>2. \A ip \in IP : addresses[ip].holder = Renamed => addresses[ip].release \in Nat
  BY HolderAssumption DEF Inv, RowShapes, NoRow
<1>3. \A ip \in IP : Purged(T, t)[ip] = T[ip] \/ T[ip].release < t
  BY DEF Purged
<1>4. QED
  BY <1>1, <1>2, <1>3 DEF Respects, Inv, TypeOK

\* allocate leaves a quarantined row alone until its release time is past.
LEMMA AllocateRespects ==
  ASSUME Inv, NEW t \in TxTime, NEW h \in Holder, NEW ip \in IP, NEW T \in [IP -> Row],
         NEW R, \A a \in IP : addresses[a].holder = Renamed => T[a] = addresses[a],
         Allocated(T, h, t, ip, R)
  PROVE  Respects(R)
<1>1. Respects(Purged(T, t))
  BY PurgeRespects
<1>2. Respects(T)
  BY DEF Respects
<1>3. CASE R = T
  BY <1>2, <1>3
<1>4. CASE Purged(T, t)[ip] = NoRow /\ R = [Purged(T, t) EXCEPT ![ip] = HeldBy(h)]
  <2>1. \A a \in IP : a # ip => R[a] = Purged(T, t)[a]
    BY <1>4 DEF Purged
  <2>2. addresses[ip].holder = Renamed => Purged(T, t)[ip] # addresses[ip]
    BY <1>4, HolderAssumption DEF NoRow
  <2>3. QED
    BY <1>1, <2>1, <2>2 DEF Respects
<1>5. QED
  BY <1>3, <1>4 DEF Allocated

\* No action ends a quarantine early.
LEMMA StepRespects == Inv /\ Next => QuarantineStep
<1> SUFFICES ASSUME Inv, Next PROVE Respects(addresses')
  BY DEF Respects, QuarantineStep
<1>1. CASE UNCHANGED addresses
  BY <1>1 DEF Respects
<1>2. ASSUME NEW t \in TxTime, NEW h \in Player, NEW S \in SUBSET Player,
             Members(S), Admit(h, S, t)
      PROVE  Respects(addresses')
  <2>1. PICK ip \in IP : Allocated(Released(S, t), h, t, ip, addresses')
    BY <1>2 DEF Admit
  <2>2. Released(S, t) \in [IP -> Row]
    BY <1>2, ReleaseConsistent DEF Consistent
  <2>3. h \in Holder
    BY DEF Holder
  <2>4. QED
    BY <1>2, <2>1, <2>2, <2>3, ReleaseRespects, AllocateRespects
<1>3. ASSUME NEW t \in TxTime, NEW n \in Node, Enroll(n, t)
      PROVE  Respects(addresses')
  <2>1. PICK ip \in IP : Allocated(addresses, n, t, ip, addresses')
    BY <1>3 DEF Enroll
  <2>2. QED
    BY <2>1, AllocateRespects DEF Holder, Inv, TypeOK
<1>4. ASSUME NEW t \in TxTime, NEW n \in Node, Retire(n, t)
      PROVE  Respects(addresses')
  <2>1. \A ip \in IP : addresses[ip].holder # n => addresses'[ip] = addresses[ip]
    BY <1>4 DEF Retire
  <2>2. n # Renamed
    BY HolderAssumption DEF Holder
  <2>3. QED
    BY <2>1, <2>2 DEF Respects
<1>5. ASSUME NEW t \in TxTime, NEW S \in SUBSET Player, Members(S),
             End(S, t) \/ Sweep(S, t)
      PROVE  Respects(addresses')
  <2>1. CASE End(S, t)
    BY <1>5, <2>1, ReleaseRespects DEF End
  <2>2. CASE Sweep(S, t)
    BY <1>5, <2>2, ReleaseRespects, PurgeRespects DEF Sweep
  <2>3. QED
    BY <1>5, <2>1, <2>2
<1>6. QED
  BY <1>1, <1>2, <1>3, <1>4, <1>5 DEF Next, Lease, Tick

\* No step shortens a quarantine.
THEOREM QuarantineRespected == Spec => QuarantineHolds
<1>1. Inv /\ [Next]_vars => [QuarantineStep]_vars
  BY StepRespects
<1>2. QED
  BY <1>1, Invariance, PTL DEF Spec, QuarantineHolds
=============================================================================
