--------------------------- MODULE RelaySelection ---------------------------
(***************************************************************************)
(* The probes of a player and its choice of relays.  Every five seconds    *)
(* the relays of the snapshot are pinged; answers and timeouts become      *)
(* samples that are kept for thirty seconds.  The network step chooses two *)
(* relays by their average and keeps a healthy choice for a minute, and    *)
(* longer unless another one is a fifth faster.  The snapshot may change   *)
(* and the network may be stopped while pings are under way.               *)
(*                                                                         *)
(* Abstracted: time to rounds of five seconds, each of which leaves one    *)
(* sample of a relay at most, so that a relay's samples are a function of  *)
(* the round; the members that are pinged as well; the rate limit of       *)
(* answers, which a round does not reach.                                  *)
(***************************************************************************)
EXTENDS Integers, Sequences, FiniteSets

CONSTANTS
  Relay,       \* numbers, in the order of their addresses
  Latency,     \* round trip times
  Wanted,      \* relays to choose: 2 in the code
  Failures,    \* lost pings in a row that make a relay fail: 3
  Window,      \* rounds a sample is kept: 6
  Hold,        \* rounds a healthy choice is kept: 12
  MaxRounds    \* bound on rounds

Lost == 0
Never == -Hold

VARIABLES
  listed,      \* relays of the snapshot; probe.allowed
  draining,    \* those of them that drain: they are pinged, and not chosen
  round,       \* the time
  pinging,     \* targets of the round under way
  samples,     \* Service.samples: the round trip time, or Lost, of each round measured
  relays,      \* Runtime.relays
  selectedAt,  \* Runtime.relaySelected
  changedAt    \* history: the last time that relays changed
vars == <<listed, draining, round, pinging, samples, relays, selectedAt, changedAt>>

TypeOK ==
  /\ listed \subseteq Relay /\ draining \subseteq listed
  /\ pinging \subseteq Relay
  /\ round \in 0..MaxRounds
  /\ \A r \in Relay : \E T \in SUBSET (1..round) : samples[r] \in [T -> Latency \cup {Lost}]
  /\ DOMAIN samples = Relay
  /\ relays \in Seq(Relay) /\ Len(relays) <= Wanted
  /\ selectedAt \in Int /\ changedAt \in Int

Init ==
  /\ listed = Relay /\ draining = {}
  /\ round = 0 /\ pinging = {} /\ samples = [r \in Relay |-> <<>>]
  /\ relays = <<>> /\ selectedAt = Never /\ changedAt = Never

-----------------------------------------------------------------------------
(* probe.Service *)

\* recentLocked: samples age out.
Recent(r) == {t \in DOMAIN samples[r] : t + Window >= round}

\* Failed: several lost pings in a row, and none answered since.
LostSince(r, T) == {t \in T : \A u \in T : t <= u => samples[r][u] = Lost}
Failed(r) == Cardinality(LostSince(r, Recent(r))) >= Failures
\* Stats: the average of the answered pings, if there are any; the sum counts the units
\* of time that they took.
Answered(r) == {t \in Recent(r) : samples[r][t] # Lost}
Measured(r) == Answered(r) # {}
Total(r) == Cardinality(UNION {{t} \X (1..samples[r][t]) : t \in Answered(r)})
Average(r) == Total(r) \div Cardinality(Answered(r))

\* Service.Update forgets the samples of relays that are gone; a ping under way to one of
\* them leaves none.
List(S, D) ==
  /\ <<S, D>> # <<listed, draining>> /\ listed' = S /\ draining' = D
  /\ samples' = [r \in Relay |-> IF r \in S THEN samples[r] ELSE <<>>]
  /\ UNCHANGED <<round, pinging, relays, selectedAt, changedAt>>
\* The next round, in which nothing is pinged while the network is stopped.
Ping ==
  /\ pinging = {} /\ round < MaxRounds /\ round' = round + 1
  /\ pinging' \in {listed, {}}
  /\ UNCHANGED <<listed, draining, samples, relays, selectedAt, changedAt>>
Answers(result) ==
  /\ pinging # {} /\ pinging' = {}
  /\ samples' = [r \in Relay |-> IF r \in pinging \cap listed
                                 THEN [t \in Recent(r) \cup {round} |->
                                         IF t = round THEN result[r] ELSE samples[r][t]]
                                 ELSE samples[r]]
  /\ UNCHANGED <<listed, draining, round, relays, selectedAt, changedAt>>

\* stopNetworkLocked: the choice and the service are gone, with the pings under way; the
\* step that starts the network again makes a service without samples.
Stop ==
  /\ relays' = <<>>
  /\ samples' = [r \in Relay |-> <<>>] /\ pinging' = {}
  /\ changedAt' = IF relays' # relays THEN round ELSE changedAt
  /\ UNCHANGED <<listed, draining, round, selectedAt>>

-----------------------------------------------------------------------------
(* Runtime.selectRelaysLocked *)

Candidate == {r \in listed \ draining : ~Failed(r)}
Before(r, q) ==
  \/ Measured(r) /\ ~Measured(q)
  \/ Measured(r) /\ Measured(q) /\ Average(r) < Average(q)
  \/ /\ Measured(r) <=> Measured(q)
     /\ Measured(r) => Average(r) = Average(q)
     /\ r < q
Ranked == [i \in 1..Cardinality(Candidate) |->
             CHOOSE r \in Candidate : Cardinality({q \in Candidate : Before(q, r)}) = i - 1]

Healthy == relays # <<>> /\ \A i \in DOMAIN relays : relays[i] \in Candidate
NotHeld == FALSE
Held == round < selectedAt + Hold
\* Not one fifth faster than the first of the present choice.
NoBetter ==
  /\ Measured(relays[1])
  /\ Measured(Ranked[1]) => 5 * Average(Ranked[1]) >= 4 * Average(relays[1])

Select ==
  \/ Healthy /\ Held /\ UNCHANGED vars
  \/ /\ Healthy /\ ~Held /\ NoBetter
     /\ selectedAt' = round
     /\ UNCHANGED <<listed, draining, round, pinging, samples, relays, changedAt>>
  \/ /\ ~(Healthy /\ (Held \/ NoBetter))
     /\ relays' = SubSeq(Ranked, 1, IF Len(Ranked) < Wanted THEN Len(Ranked) ELSE Wanted)
     /\ selectedAt' = round
     /\ changedAt' = IF relays' # relays THEN round ELSE changedAt
     /\ UNCHANGED <<listed, draining, round, pinging, samples>>

Next ==
  \/ \E S \in SUBSET Relay : \E D \in SUBSET S : List(S, D)
  \/ Stop \/ Ping
  \/ \E result \in [pinging -> Latency \cup {Lost}] : Answers(result)
  \/ Select

Spec == Init /\ [][Next]_vars

-----------------------------------------------------------------------------

\* A choice gives way only to the loss of one of its relays, after a minute since it was
\* made, or when the network is stopped; whenever one is made or renewed, no relay in it has
\* failed, left or begun to drain, and none is chosen only when there is none left.
Gone(r) == r \notin listed \ draining
LostLately(r) == Cardinality(LostSince(r, DOMAIN samples[r])) >= Failures
Stopped == relays' = <<>> /\ \A r \in Relay : samples'[r] = <<>>
Chosen(choice) ==
  /\ \A i \in DOMAIN choice : ~Gone(choice[i]) /\ ~Failed(choice[i])
  /\ choice = <<>> => \A r \in listed \ draining : LostLately(r)
SelectionStep ==
  /\ relays' # relays =>
       \/ relays = <<>>
       \/ \E i \in DOMAIN relays : Gone(relays[i]) \/ LostLately(relays[i])
       \/ round - changedAt >= Hold
       \/ Stopped
  /\ (relays' # relays \/ selectedAt' # selectedAt) /\ ~Stopped => Chosen(relays')
SteadyAndHealthy == [][SelectionStep]_vars

(* What it rests on: the choice was changed no later than it was last judged  *)
(* good, and samples are those of relays that are listed.                     *)
Inv ==
  /\ TypeOK
  /\ pinging # {} => round > 0
  /\ \A r \in Relay : r \notin listed => samples[r] = <<>>
  /\ changedAt <= round /\ selectedAt <= round
  /\ relays # <<>> => changedAt <= selectedAt
=============================================================================
