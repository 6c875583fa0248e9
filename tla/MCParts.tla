------------------------------- MODULE MCParts ------------------------------
(***************************************************************************)
(* Five components side by side: a behaviour is one of a single           *)
(* component, chosen at the start, while the others stay in their initial  *)
(* state.  The address pool is that of the EXTENDS; the rest are instances *)
(* of their modules.                                                       *)
(***************************************************************************)
EXTENDS AddressLease, FiniteSets, TLC

CONSTANTS
  Release, Digest, Source, Place, Transfer, MaxImports, MaxEdits, MaxRevision,   \* rollout
  Peer, Port, Sends, Window, QueueLimit, FlowLimit, MaxSeq, MaxUpdates,          \* LAN
  Content, Largest, PartLimit,                                                   \* fragments
  Relay, Latency, Wanted, Failures, RelayWindow, Hold, MaxRounds                 \* relays

ASSUME RolloutAssumption ==
  /\ Release \subseteq Nat \ {0}
  /\ MaxImports \in Nat /\ MaxEdits \in Nat \ {0} /\ MaxRevision \in Nat
  /\ 0 \notin Digest /\ 0 \notin Source
ASSUME LanAssumption ==
  /\ Window \in Nat \ {0} /\ QueueLimit \in Nat /\ FlowLimit \in Nat
  /\ MaxSeq \in Nat /\ MaxUpdates \in Nat
  /\ Sends \subseteq [src: Port, dst: Port, revision: Nat, parts: {1, 2}]
ASSUME FragmentAssumption == Largest \in Nat \ {0} /\ PartLimit \in Nat
ASSUME RelayAssumption ==
  /\ IsFiniteSet(Relay) /\ Relay \subseteq Int /\ Latency \subseteq Nat \ {0}
  /\ Wanted \in Nat \ {0} /\ Failures \in Nat \ {0} /\ RelayWindow \in Nat
  /\ Hold \in Nat /\ MaxRounds \in Nat

Symmetry == Permutations(Player)

\* Two datagrams of the LAN, of which one travels in two parts.
Host == "host"
Console == "console"
MCPort == {Host, Console}
MCSends == {[src |-> Console, dst |-> Host, revision |-> 1, parts |-> 2],
            [src |-> Host, dst |-> Console, revision |-> 1, parts |-> 1]}

VARIABLES
  part,
  repository, releases, sources, replicas, policy, due, transfers, proven,
  generation, revision, ports, members, fresh, own, flows, frames, seen, pending, writing,
    locked, sent, tap, breach,
  parts, total, size, yielded, checked,
  listed, draining, round, pinging, samples, relays, selectedAt, changedAt

rolloutVars == <<repository, releases, sources, replicas, policy, due, transfers, proven>>
lanVars == <<generation, revision, ports, members, fresh, own, flows, frames, seen, pending,
             writing, locked, sent, tap, breach>>
fragmentVars == <<parts, total, size, yielded, checked>>
relayVars == <<listed, draining, round, pinging, samples, relays, selectedAt, changedAt>>

Rollout == INSTANCE UpdateRollout
Lan == INSTANCE LanDevice
Fragment == INSTANCE Fragments
Relays == INSTANCE RelaySelection WITH Window <- RelayWindow

-----------------------------------------------------------------------------

PartsInit ==
  /\ part \in {"addresses", "rollout", "lan", "fragments", "relays"}
  /\ Init /\ Rollout!Init /\ Lan!Init /\ Fragment!Init /\ Relays!Init

InAddresses == part = "addresses" /\ Next
  /\ UNCHANGED <<part, rolloutVars, lanVars, fragmentVars, relayVars>>
InRollout == part = "rollout" /\ Rollout!Next
  /\ UNCHANGED <<part, vars, lanVars, fragmentVars, relayVars>>
InLan == part = "lan" /\ Lan!Next
  /\ UNCHANGED <<part, vars, rolloutVars, fragmentVars, relayVars>>
InFragments == part = "fragments" /\ Fragment!Next
  /\ UNCHANGED <<part, vars, rolloutVars, lanVars, relayVars>>
InRelays == part = "relays" /\ Relays!Next
  /\ UNCHANGED <<part, vars, rolloutVars, lanVars, fragmentVars>>

PartsNext == InAddresses \/ InRollout \/ InLan \/ InFragments \/ InRelays
all == <<part, vars, rolloutVars, lanVars, fragmentVars, relayVars>>
PartsSpec == PartsInit /\ [][PartsNext]_all

\* A copy that counts was verified in full where its source points now, however the source
\* was moved while the package was being read: saveSource, replicateUpdate.
RolloutInv == Rollout!Inv
\* A device that is shut out until it updates is offered a release that can be fetched and
\* lets it in, or its agent is that new already and the rest of the way is its own (a
\* desktop, a report): savePolicy, saveSource, saveRepository, updateRequired, checkUpdate.
RequiredCanUpdate == Rollout!RequiredCanUpdate
\* While the window of its session is kept, a frame reaches the host at most once under one
\* game policy, whatever copies and late chunks arrive: Device.Write.
LanInv == Lan!Inv
\* No frame crosses in either direction against the policy in force at that moment, though
\* it was checked under an earlier one: Device.Read, Device.deliver.
OnlyInForce == Lan!OnlyInForce
\* What was checked of a datagram is what the host assembles from the fragments passed on,
\* whatever overlaps, repetitions and gaps: Device.defragment.
FragmentsInv == Fragment!Inv
\* A healthy choice of relays is kept for its minute while the network runs, one with a
\* relay that failed, drains or is gone is neither made nor renewed: selectRelaysLocked.
SteadyAndHealthy == Relays!SteadyAndHealthy
=============================================================================
