----------------------------- MODULE LanDevice -----------------------------
(***************************************************************************)
(* The Ethernet adapter between a player's TAP and Nebula, as one device   *)
(* sees it: frames of the other members arrive in chunks, which the        *)
(* network may lose, repeat and reorder; they are put together, checked    *)
(* against the replay window and the room's policy, and written to the     *)
(* TAP.  Frames of the host are checked, queued and sent.  The policy is   *)
(* replaced while frames are in all of these places.                       *)
(*                                                                         *)
(* Abstracted: addresses and MACs to members; a frame to its flow, that is *)
(* its direction, peer, source port and destination port; ARP, ND, ICMP    *)
(* and diagnostics, which have fixed rules; 4096 sequence numbers of the   *)
(* replay window to Window, 4096 queued packets to QueueLimit, 8192 flows  *)
(* to FlowLimit; the two quiet minutes after which a session's window is   *)
(* forgotten to an action that may come at any time.                       *)
(***************************************************************************)
EXTENDS Integers, Sequences, FiniteSets

CONSTANTS
  Peer, Port,
  Sends,        \* the frames a peer may send: [src, dst, revision, parts]
  Window,       \* sequence numbers that the replay window remembers
  QueueLimit, FlowLimit,
  MaxSeq,       \* bound on frames a peer sends
  MaxUpdates    \* bound on policies

Flow == [dir: {"in", "out"}, peer: Peer, src: Port, dst: Port]
Reverse(f) == [dir |-> IF f.dir = "in" THEN "out" ELSE "in",
               peer |-> f.peer, src |-> f.dst, dst |-> f.src]
Key == Peer \X (1..MaxSeq)
NoWindow == [seqs |-> {}, highest |-> 0]
NoFrame == <<>>

VARIABLES
  generation,  \* Device.generation
  revision,    \* Device.revision, of the room's game
  ports,       \* ports the game allows
  members,     \* Device.members, without the device itself
  fresh,       \* members heard of within 45 seconds
  own,         \* whether this device itself is active
  flows,       \* Device.flows
  frames,      \* Device.frames: the chunks of each unfinished frame
  seen,        \* Device.seen: the window of each peer's session
  pending,     \* Device.pending: packets to send, with their generation
  writing,     \* the frame Write has accepted, until deliver returns
  locked,      \* writeMu is held by deliver, between its check and tap.Write
  sent,        \* what the peers have sent
  tap,         \* history: how often each frame reached the host since the window of its
               \* session began
  breach       \* history: a frame crossed against the policy in force

policy == <<generation, revision, ports, members, fresh, own>>
inbound == <<frames, seen, writing, locked>>
history == <<tap, breach>>
vars == <<policy, flows, inbound, pending, sent, history>>

TypeOK ==
  /\ generation \in 0..MaxUpdates /\ revision \in 0..MaxUpdates
  /\ ports \subseteq Port /\ members \subseteq Peer /\ fresh \subseteq members
  /\ own \in BOOLEAN /\ locked \in BOOLEAN
  /\ flows \subseteq Flow /\ Cardinality(flows) <= FlowLimit
  /\ frames \in [Key -> SUBSET {1, 2}]
  /\ \A p \in Peer : seen[p].seqs \subseteq 1..MaxSeq /\ Cardinality(seen[p].seqs) <= Window
  /\ Len(pending) <= QueueLimit

Init ==
  /\ generation = 0 /\ revision = 0 /\ ports = {} /\ members = {} /\ fresh = {}
  /\ own = FALSE /\ flows = {}
  /\ frames = [k \in Key |-> {}] /\ seen = [p \in Peer |-> NoWindow]
  /\ pending = <<>> /\ writing = NoFrame /\ locked = FALSE
  /\ sent = [k \in Key |-> NoFrame]
  /\ tap = [k \in Key |-> 0] /\ breach = FALSE

\* A policy covers a flow: its peer is a member and one of its ports is allowed.
InForce(f) == f.peer \in members /\ (f.dst \in ports \/ f.src \in ports)

-----------------------------------------------------------------------------

\* What Update forgets: flows and unfinished frames when the game or the members
\* change, the windows only when the game changes.
FlowsAfter(rev, who) == IF rev = revision /\ who = members THEN flows ELSE {}

\* Update, under writeMu and mu; a new policy of the game has a new revision.
Update(rev, allowed, who) ==
  /\ ~locked /\ generation < MaxUpdates
  /\ rev \in {revision, revision + 1} \ {0}
  /\ rev = revision => allowed = ports
  /\ generation' = generation + 1 /\ revision' = rev /\ ports' = allowed
  /\ members' = who /\ fresh' = who /\ own' = TRUE
  /\ flows' = FlowsAfter(rev, who)
  /\ frames' = IF rev = revision /\ who = members THEN frames
               ELSE [k \in Key |-> {}]
  /\ seen' = IF rev = revision THEN seen ELSE [p \in Peer |-> NoWindow]
  /\ UNCHANGED <<pending, writing, locked, sent, history>>

\* A member's heartbeat is older than 45 seconds; the device's own is, the lease or the
\* room has ended, or an update failed and the engine closes the device.
Lapses(p) ==
  /\ p \in fresh /\ fresh' = fresh \ {p}
  /\ UNCHANGED <<generation, revision, ports, members, own, flows, inbound, pending, sent,
                 history>>
Ends ==
  /\ own /\ own' = FALSE
  /\ UNCHANGED <<generation, revision, ports, members, fresh, flows, inbound, pending, sent,
                 history>>
FlowExpires(f) ==
  /\ f \in flows /\ flows' = flows \ {f}
  /\ UNCHANGED <<policy, inbound, pending, sent, history>>

\* permitted: an allowed port, or the answer to a frame that was permitted; the
\* answer to this one is permitted from now on, if there is room.
Permitted(f) == own /\ f.peer \in fresh /\ (f.dst \in ports \/ f \in flows)
Admitted(f) ==
  IF Cardinality(flows) < FlowLimit THEN flows \cup {Reverse(f)} ELSE flows

-----------------------------------------------------------------------------
(* Outbound: Read and queue. *)

\* A frame of the host: it takes room for two packets, whatever its size.
HostSends(f) ==
  /\ f.dir = "out" /\ Permitted(f)
  /\ flows' = Admitted(f)
  /\ pending' = IF Len(pending) + 2 > QueueLimit THEN pending
                ELSE Append(pending, [flow |-> f, generation |-> generation])
  /\ UNCHANGED <<policy, inbound, sent, history>>

Current(p) == p.generation = generation /\ own /\ p.flow.peer \in fresh

\* Read gives Nebula the first queued packet that is current and drops those before.
ReadNext ==
  /\ pending # <<>> /\ pending' = Tail(pending)
  /\ breach' = (breach \/ (Current(Head(pending)) /\ ~InForce(Head(pending).flow)))
  /\ UNCHANGED <<policy, flows, inbound, sent, tap>>

-----------------------------------------------------------------------------
(* Inbound: Write and deliver. *)

\* A peer sends its next frame, in one chunk or two, under the policy it has.
FlowOf(p, s) == [dir |-> "in", peer |-> p, src |-> s.src, dst |-> s.dst]
PeerSends(p, n, s) ==
  /\ sent[<<p, n>>] = NoFrame /\ \A k \in 1..(n - 1) : sent[<<p, k>>] # NoFrame
  /\ sent' = [sent EXCEPT ![<<p, n>>] = s]
  /\ UNCHANGED <<policy, flows, inbound, pending, history>>

\* The replay check: numbers of the window, and all that are too old for it.
ReplayedIfRemembered(p, n) == n \in seen[p].seqs
Replayed(p, n) == n \in seen[p].seqs \/ n + Window <= seen[p].highest

\* The slot of a number is taken over from the number one window before.
Remembered(p, n) ==
  [seqs |-> {k \in seen[p].seqs : k % Window # n % Window} \cup {n},
   highest |-> IF n > seen[p].highest THEN n ELSE seen[p].highest]

\* A chunk arrives, once more or for the first time.
Receive(p, n, part) ==
  LET k == <<p, n>>
      f == FlowOf(p, sent[k])
      chunks == frames[k] \cup {part}
  IN /\ writing = NoFrame /\ sent[k] # NoFrame /\ part \in 1..sent[k].parts
     /\ own /\ p \in fresh /\ sent[k].revision = revision
     /\ ~Replayed(p, n) /\ part \notin frames[k]
     /\ \/ /\ chunks # 1..sent[k].parts
           /\ frames' = [frames EXCEPT ![k] = chunks] /\ UNCHANGED <<seen, flows, writing>>
        \/ /\ chunks = 1..sent[k].parts
           /\ frames' = [frames EXCEPT ![k] = {}]
           /\ seen' = [seen EXCEPT ![p] = Remembered(p, n)]
           /\ IF Permitted(f)
                THEN flows' = Admitted(f) /\ writing' = [key |-> k, generation |-> generation]
                ELSE UNCHANGED <<flows, writing>>
     /\ UNCHANGED <<policy, pending, locked, sent, history>>

\* The two seconds of an unfinished frame are over.
FrameExpires(k) ==
  /\ frames[k] # {} /\ frames' = [frames EXCEPT ![k] = {}]
  /\ UNCHANGED <<policy, flows, seen, writing, locked, pending, sent, history>>

\* A window is forgotten when its session has been quiet for two minutes.  Write does so
\* as it begins, when nothing else is being written: what is repeated from here on is
\* accepted once more.
WindowExpires(p) ==
  /\ writing = NoFrame /\ seen[p] # NoWindow
  /\ seen' = [seen EXCEPT ![p] = NoWindow]
  /\ tap' = [k \in Key |-> IF k[1] = p THEN 0 ELSE tap[k]]
  /\ UNCHANGED <<policy, flows, frames, writing, locked, pending, sent, breach>>

\* deliver: under writeMu, the generation is compared and the frame written.
AllowedIfActive == own
Allowed == own /\ writing.generation = generation
Deliver ==
  /\ writing # NoFrame /\ ~locked
  /\ IF Allowed THEN locked' = TRUE /\ UNCHANGED writing
                ELSE writing' = NoFrame /\ UNCHANGED locked
  /\ UNCHANGED <<policy, flows, frames, seen, pending, sent, history>>
WriteTap ==
  /\ locked /\ locked' = FALSE /\ writing' = NoFrame
  /\ tap' = [tap EXCEPT ![writing.key] = IF @ < 2 THEN @ + 1 ELSE @]
  /\ breach' = (breach \/ ~InForce(FlowOf(writing.key[1], sent[writing.key])))
  /\ UNCHANGED <<policy, flows, frames, seen, pending, sent>>

Next ==
  \/ \E rev \in 1..MaxUpdates, q \in Port, who \in SUBSET Peer : Update(rev, {q}, who)
  \/ \E p \in Peer : Lapses(p)
  \/ Ends
  \/ \E f \in flows : FlowExpires(f)
  \/ \E f \in Flow : HostSends(f)
  \/ ReadNext
  \/ \E p \in Peer, n \in 1..MaxSeq, s \in Sends : PeerSends(p, n, s)
  \/ \E p \in Peer, n \in 1..MaxSeq, part \in 1..2 : Receive(p, n, part)
  \/ \E k \in Key : FrameExpires(k)
  \/ \E p \in Peer : WindowExpires(p)
  \/ Deliver \/ WriteTap

Spec == Init /\ [][Next]_vars

-----------------------------------------------------------------------------

\* As long as the window of its session is kept, a frame reaches the host at most once
\* under one game policy, in whatever order and however often its chunks arrive, also when
\* the window has moved past it.
OnceEach == \A k \in Key : tap[k] < 2

\* A flow that lets answers through was opened under the policy in force, and nothing
\* crosses the adapter under a policy that is not: what reaches the host or the network
\* was checked before a replacement only if the replacement still covers it.
FlowsJustified == \A f \in flows : InForce(f)
OnlyInForce == FlowsJustified /\ ~breach

Inv == TypeOK /\ OnceEach

(* What these rest on.  Each slot of a window holds one number, none above its *)
(* highest.                                                                   *)
Windows ==
  /\ seen \in [Peer -> [seqs: SUBSET (1..MaxSeq), highest: 0..MaxSeq]]
  /\ \A p \in Peer : \A a, b \in seen[p].seqs :
       a <= seen[p].highest /\ (a % Window = b % Window => a = b)

(* The host's frames wait, and one of a peer is written, under a policy there  *)
(* has been.                                                                  *)
Waiting ==
  /\ pending \in Seq([flow: Flow, generation: 0..MaxUpdates])
  /\ writing \in [key: Key, generation: 0..MaxUpdates] \cup {NoFrame}
  /\ sent \in [Key -> Sends \cup {NoFrame}]
  /\ tap \in [Key -> {0, 1}]
  /\ IsFiniteSet(flows)
  /\ \A i \in 1..Len(pending) : pending[i].generation <= generation
  /\ writing # NoFrame => writing.generation <= generation

(* What was accepted once is refused again as long as its window is kept and  *)
(* its game policy is in force, and after that for its revision.              *)
Accepted(k) == tap[k] = 1 \/ (writing # NoFrame /\ writing.key = k)
Refused ==
  /\ writing # NoFrame => tap[writing.key] = 0
  /\ \A k \in Key : Accepted(k) =>
       /\ sent[k] # NoFrame /\ sent[k].revision <= revision
       /\ sent[k].revision = revision => Replayed(k[1], k[2])

(* What was checked under the policy in force is covered by it, and a frame   *)
(* on its way into the TAP was.                                               *)
CheckedInForce ==
  /\ \A i \in 1..Len(pending) : pending[i].generation = generation => InForce(pending[i].flow)
  /\ locked => writing # NoFrame /\ writing.generation = generation
  /\ writing # NoFrame /\ writing.generation = generation =>
       InForce(FlowOf(writing.key[1], sent[writing.key]))

Guarded == TypeOK /\ Windows /\ Waiting /\ Refused /\ FlowsJustified /\ CheckedInForce /\ ~breach
=============================================================================
