------------------------------- MODULE Engine -------------------------------
(***************************************************************************)
(* The data plane of a player: Apply brings the running Nebula and the LAN *)
(* adapter to a new lease and snapshot, by leaving Nebula alone, reloading *)
(* it or restarting it, while other members' tunnels come and go and a     *)
(* ticker ends what has expired.                                           *)
(*                                                                         *)
(* Abstracted: the rendered configuration to what differs between two of   *)
(* them; keys and addresses of the lease to its room; a restart for a node *)
(* role, which a player does not have.  Nebula itself is external: it      *)
(* accepts a handshake with any certificate of the room that has not       *)
(* expired and is not on the blocklist it runs with.                       *)
(***************************************************************************)
EXTENDS Integers, Sequences, FiniteSets

CONSTANTS
  Peer, Room,
  Life,        \* of a certificate
  MaxIssued,   \* bound on certificates of peers
  MaxChanges,  \* bound on edits of the game, on changes of the nodes and on leases
  MaxClock

Closed == [members |-> {}, game |-> 0]
Stopped == [blocked |-> {}, rules |-> <<>>]
NoLease == [room |-> "", end |-> 0, serial |-> 0]
NoConfig == [lease |-> NoLease, nodes |-> 0, blocked |-> {}, game |-> 0]

VARIABLES
  clock,
  member, issued, revoked, game, nodes,   \* the control plane
  lease, snapshot,                        \* what the agent has got of it
  control,      \* Engine.control: Stopped, or the blocklist and the rules it was started with
  raw,          \* Engine.raw
  applied,      \* Engine.applied: lease and snapshot
  generation,   \* Engine.generation, of which only the parity is kept
  lan,          \* Engine.lan: Closed, or the members and the game of its policy
  tunnels       \* the hosts of Nebula's host map: the certificates they showed
plane == <<member, issued, revoked, game, nodes>>
engine == <<control, raw, applied, generation, lan>>
vars == <<clock, plane, lease, snapshot, engine, tunnels>>

Running == control # Stopped
TypeOK ==
  /\ clock \in 0..MaxClock /\ member \subseteq Peer
  /\ revoked \subseteq DOMAIN issued
  /\ tunnels \subseteq DOMAIN issued
  /\ Running <=> raw # NoConfig
  /\ Running <=> lan # Closed
  /\ ~Running => tunnels = {}

SnapshotOf == [members |-> member, game |-> game, nodes |-> nodes,
               blocked |-> {c \in revoked : issued[c].end > clock}]

Init ==
  /\ clock = 0 /\ member = {} /\ issued = <<>> /\ revoked = {} /\ game = 1 /\ nodes = 1
  /\ lease = NoLease /\ snapshot = SnapshotOf
  /\ control = Stopped /\ raw = NoConfig /\ applied = [lease |-> lease, snapshot |-> snapshot]
  /\ generation = 0
  /\ lan = Closed /\ tunnels = {}

-----------------------------------------------------------------------------
(* What happens around the engine. *)

Tick ==
  /\ clock < MaxClock /\ clock' = clock + 1
  /\ UNCHANGED <<plane, lease, snapshot, engine, tunnels>>

\* A peer joins or renews its certificate; leaves, so that all of them are revoked.
Issue(p) ==
  /\ Len(issued) < MaxIssued
  /\ member' = member \cup {p}
  /\ issued' = Append(issued, [peer |-> p, end |-> clock + Life])
  /\ UNCHANGED <<clock, revoked, game, nodes, lease, snapshot, engine, tunnels>>
Remove(p) ==
  /\ p \in member /\ member' = member \ {p}
  /\ revoked' = revoked \cup {c \in DOMAIN issued : issued[c].peer = p}
  /\ UNCHANGED <<clock, issued, game, nodes, lease, snapshot, engine, tunnels>>
EditGame ==
  /\ game < MaxChanges /\ game' = game + 1
  /\ UNCHANGED <<clock, member, issued, revoked, nodes, lease, snapshot, engine, tunnels>>
ChangeNodes ==
  /\ nodes < MaxChanges /\ nodes' = nodes + 1
  /\ UNCHANGED <<clock, member, issued, revoked, game, lease, snapshot, engine, tunnels>>

\* The network step fetches the snapshot, then renews its lease, perhaps in another room.
Fetch ==
  /\ snapshot' = SnapshotOf
  /\ UNCHANGED <<clock, plane, lease, engine, tunnels>>
Renew(r) ==
  /\ lease.serial < MaxChanges
  /\ lease' = [room |-> r, end |-> clock + Life, serial |-> lease.serial + 1]
  /\ UNCHANGED <<clock, plane, snapshot, engine, tunnels>>

\* Nebula completes a handshake, or a tunnel breaks.
Handshake(c) ==
  /\ Running /\ c \notin tunnels
  /\ issued[c].end > clock /\ c \notin control.blocked
  /\ tunnels' = tunnels \cup {c}
  /\ UNCHANGED <<clock, plane, lease, snapshot, engine>>
Breaks(c) ==
  /\ c \in tunnels /\ tunnels' = tunnels \ {c}
  /\ UNCHANGED <<clock, plane, lease, snapshot, engine>>

-----------------------------------------------------------------------------
(* Engine.Apply, Expire, Stop *)

\* Validate
Valid == lease.end > clock

\* Render: the members are not part of it, the blocklist and the game are.
RenderedUnblocked ==
  [lease |-> lease, nodes |-> snapshot.nodes, blocked |-> {}, game |-> snapshot.game]
Rendered ==
  [lease |-> lease, nodes |-> snapshot.nodes, blocked |-> snapshot.blocked,
   game |-> snapshot.game]
Policy == [members |-> snapshot.members, game |-> snapshot.game]
Config == [lease |-> lease, snapshot |-> snapshot]
\* The rules are those of the section firewall, which names the room, and of nodelane_lan,
\* which names the game; Apply restarts for a change of either.
Nebula == [blocked |-> snapshot.blocked, rules |-> <<lease.room, snapshot.game>>]

\* stop: readers, adapter and rendered configuration.
StopsAll ==
  /\ control' = Stopped /\ raw' = NoConfig /\ lan' = Closed /\ tunnels' = {}
  /\ UNCHANGED <<applied, generation>>

\* The adapter, the preflight by Nebula's own parsers or the reload refuses.
Refused == StopsAll

\* Nothing to load into Nebula: only the adapter gets the new policy.
Same ==
  /\ Valid /\ Running /\ Rendered = raw
  /\ \/ lan' = Policy /\ applied' = Config /\ UNCHANGED <<control, raw, generation, tunnels>>
     \/ Refused
  /\ UNCHANGED <<clock, plane, lease, snapshot>>

\* The rules or the address change: Nebula and the adapter are stopped and started.
RestartsForAddress == applied.lease.room # lease.room
Restarts == applied.lease.room # lease.room \/ raw.game # snapshot.game
Start ==
  /\ Valid /\ Rendered # raw
  /\ Running => Restarts
  /\ \/ /\ control' = Nebula /\ lan' = Policy /\ tunnels' = {}
        /\ raw' = Rendered /\ applied' = Config /\ generation' = 1 - generation
     \/ StopsAll       \* Nebula or the adapter does not start
  /\ UNCHANGED <<clock, plane, lease, snapshot>>

\* Everything else is reloaded; then the tunnels that the snapshot does not cover end.
Invalid(c) ==
  issued[c].peer \notin snapshot.members \/ c \in snapshot.blocked \/ issued[c].end <= clock
Reload ==
  /\ Valid /\ Rendered # raw
  /\ Running /\ ~Restarts
  /\ \/ /\ control' = [control EXCEPT !.blocked = snapshot.blocked,
                                      !.rules = Nebula.rules]
        /\ lan' = Policy /\ tunnels' = {c \in tunnels : ~Invalid(c)}
        /\ raw' = Rendered /\ applied' = Config /\ UNCHANGED generation
     \/ Refused
  /\ UNCHANGED <<clock, plane, lease, snapshot>>

\* Expire, with every tick of 250 ms.
Expire ==
  /\ Running
  /\ \/ applied.lease.end <= clock /\ StopsAll
     \/ /\ applied.lease.end > clock
        /\ \E c \in tunnels : issued[c].end <= clock
        /\ tunnels' = {c \in tunnels : issued[c].end > clock}
        /\ UNCHANGED engine
  /\ UNCHANGED <<clock, plane, lease, snapshot>>

Stop ==
  /\ Running /\ StopsAll /\ UNCHANGED <<clock, plane, lease, snapshot>>

Next ==
  \/ Tick
  \/ \E p \in Peer : Issue(p) \/ Remove(p)
  \/ EditGame \/ ChangeNodes \/ Fetch
  \/ \E r \in Room : Renew(r)
  \/ \E c \in DOMAIN issued : Handshake(c) \/ Breaks(c)
  \/ Same \/ Start \/ Reload \/ Expire \/ Stop

Spec == Init /\ [][Next]_vars

-----------------------------------------------------------------------------

\* Once a snapshot is applied, by whichever way, no tunnel lives or arises whose
\* certificate was revoked when the snapshot was taken: all of its members' tunnels that
\* have not expired belong to members of it or to peers that joined since.
RevokedAreCut ==
  Running => \A c \in tunnels :
    issued[c].end > clock => c \notin applied.snapshot.blocked

\* Adapter and Nebula follow the same snapshot, also when only one had to be changed.
InStep ==
  Running => /\ lan = [members |-> applied.snapshot.members, game |-> applied.snapshot.game]
             /\ control.blocked = applied.snapshot.blocked
             /\ control.rules = <<applied.lease.room, applied.snapshot.game>>

Inv == TypeOK /\ InStep /\ RevokedAreCut

\* Packet readers never see the rules change, neither Nebula's, which the upstream assigns
\* without synchronization during a reload, nor the game's: both only change by a restart.
RulesStep ==
  Running /\ control' # Stopped =>
    control'.rules = control.rules \/ generation' # generation
RulesByRestart == [][RulesStep]_vars

(* What these rest on.  The engine either rests, or Nebula, the configuration *)
(* it was rendered from and the adapter are all those of the lease and the    *)
(* snapshot last applied, however they got there.                             *)
Idle == control = Stopped /\ raw = NoConfig /\ lan = Closed /\ tunnels = {}
Loaded ==
  /\ applied.lease.end \in Nat \ {0} /\ applied.snapshot.game \in Nat \ {0}
  /\ control = [blocked |-> applied.snapshot.blocked,
                rules |-> <<applied.lease.room, applied.snapshot.game>>]
  /\ raw = [lease |-> applied.lease, nodes |-> applied.snapshot.nodes,
            blocked |-> applied.snapshot.blocked, game |-> applied.snapshot.game]
  /\ lan = [members |-> applied.snapshot.members, game |-> applied.snapshot.game]

(* Certificates are numbered as they are issued, and only those issued are    *)
(* revoked or show up in a tunnel.                                            *)
Numbered ==
  /\ clock \in 0..MaxClock /\ member \subseteq Peer
  /\ issued \in Seq([peer: Peer, end: Nat])
  /\ revoked \subseteq DOMAIN issued /\ tunnels \subseteq DOMAIN issued
  /\ generation \in {0, 1}
  /\ game \in Nat \ {0} /\ snapshot.game \in Nat \ {0}
  /\ lease.end \in Nat

Supported == Numbered /\ (Idle \/ Loaded) /\ RevokedAreCut
=============================================================================
