---------------------------- MODULE AgentNetwork ----------------------------
(***************************************************************************)
(* The network of a player's agent: the step loop of Runtime.Run, which    *)
(* keeps a lease and the engine in accordance with the room, against the   *)
(* threads that stop the engine: the 250 ms expiry ticker, the goroutine   *)
(* that watches the room's events, and network-stop, which does not wait   *)
(* for a step in flight.  Commands and network-retry hold r.op, as a step  *)
(* does; every section under netMu is one action.                          *)
(*                                                                         *)
(* Abstracted: the epoch counter, which is only compared, to the set of    *)
(* threads that have loaded it and would now find it changed; the time to  *)
(* the age of a lease (a laptop may sleep at any point); the snapshot to   *)
(* the revision of the roster it shows; a membership to a number, so that  *)
(* a second membership of the same room is another one.  Calls that fail,  *)
(* saves that fail and crashes are bounded by MaxFaults.                   *)
(***************************************************************************)
EXTENDS Integers

CONSTANTS
  Room,
  None,       \* no room
  MaxJoins,   \* bound on memberships
  MaxRoster,  \* bound on changes of the roster
  MaxFaults   \* bound on faults

Membership == 1..MaxJoins
Threads == {"loop", "retry"}

VARIABLES
  member,    \* server: the device's active membership, or 0
  rooms,     \* server: the room of each membership so far
  roster,    \* server: revision of the room's roster
  barred,    \* server: the device was revoked
  identity,  \* Runtime.identity.RoomID, in memory and on disk
  required,  \* requiredLocally(updateStatus().Policy)
  paused,    \* Runtime.paused
  file,      \* network-paused.bin
  engine,    \* whether it runs, the membership of its lease, the roster applied
  lease,     \* Runtime.lease
  shown,     \* Runtime.snapshot.Self.RoomID
  watch,     \* Runtime.watchRoom and its goroutine
  stray,     \* cancelled watches that have yet to act on the end they were told
  wake,      \* Runtime.wake
  loop,      \* the step in flight
  command,   \* a command between its answer and applyActionResult
  retry,     \* network-retry
  stopper,   \* network-stop, which holds pauseMu
  stale,     \* threads that would find networkEpoch changed
  seen,      \* history: the roster of the last snapshot received
  told,      \* history: memberships for whose end the watch stopped the network
  held,      \* history: a stop returned and no retry was begun since
  faults

server == <<member, rooms, roster, barred>>
history == <<seen, told, held>>
net == <<engine, lease, stale>>
switch == <<paused, file, stopper, retry, held>>
watching == <<watch, stray>>
vars == <<server, identity, required, net, shown, switch, watching, wake, loop,
          command, seen, told, faults>>

Off == [on |-> FALSE, of |-> 0, policy |-> 0]
NoLease == [of |-> 0, age |-> "none"]
Idle == [pc |-> "idle", policy |-> 0, lease |-> NoLease]
NoWatch == [room |-> None, state |-> "none"]
RoomOf(n) == IF n = 0 THEN None ELSE rooms[n]

Lease == [of : 0..MaxJoins, age : {"none", "fresh", "due", "expired"}]
Engine == [on : BOOLEAN, of : 0..MaxJoins, policy : 0..MaxRoster]
Pc == {"idle", "account", "heartbeat", "snapshot", "refresh", "renew", "apply"}
Loop == [pc : Pc, policy : 0..MaxRoster, lease : Lease]
Watch == [room : Room, state : {"live", "ending", "dead"}] \cup {NoWatch}
TypeOK ==
  /\ member \in 0..MaxJoins /\ rooms \in [Membership -> Room \cup {None}]
  /\ roster \in 0..MaxRoster /\ barred \in BOOLEAN
  /\ identity \in Room \cup {None} /\ shown \in Room \cup {None}
  /\ required \in BOOLEAN /\ paused \in BOOLEAN /\ file \in BOOLEAN
  /\ engine \in Engine
  /\ lease \in Lease /\ loop \in Loop
  /\ watch \in Watch
  /\ stray \subseteq Room /\ wake \in BOOLEAN
  /\ stale \subseteq Threads /\ told \subseteq Membership /\ seen \in 0..MaxRoster
  /\ stopper \in {"idle", "marked", "saved", "unsaved"}
  /\ retry \in {"idle", "asked"} /\ command \in {"idle", "applying"}
  /\ held \in {"no", "memory", "disk"} /\ faults \in 0..MaxFaults

Init ==
  /\ member = 0 /\ rooms = [n \in Membership |-> None] /\ roster = 0 /\ barred = FALSE
  /\ identity = None /\ required = FALSE /\ paused = FALSE /\ file = FALSE
  /\ engine = Off /\ lease = NoLease /\ shown = None
  /\ watch = NoWatch /\ stray = {} /\ wake = TRUE
  /\ loop = Idle /\ command = "idle" /\ retry = "idle" /\ stopper = "idle"
  /\ stale = {} /\ seen = 0 /\ told = {} /\ held = "no" /\ faults = 0

Fault == faults < MaxFaults /\ faults' = faults + 1
Sound == UNCHANGED faults

\* r.op
OpFree == loop.pc = "idle" /\ command = "idle" /\ retry = "idle"

\* stopNetworkLocked
Stop == engine' = Off /\ lease' = NoLease /\ stale' = Threads
Keep == UNCHANGED net

-----------------------------------------------------------------------------
(* The control plane, and what the agent does not decide. *)

MembershipEnds ==
  /\ member # 0
  /\ member' = 0 /\ barred' \in {barred, TRUE}
  /\ UNCHANGED <<rooms, roster, identity, required, net, shown, switch, watching, wake,
                 loop, command, seen, told, faults>>

RosterChanges ==
  /\ member # 0 /\ roster < MaxRoster
  /\ roster' = roster + 1
  /\ UNCHANGED <<member, rooms, barred, identity, required, net, shown, switch, watching,
                 wake, loop, command, seen, told, faults>>

\* A refreshed policy requires an update, or no longer does.
PolicyChanges ==
  /\ Fault
  /\ required' = ~required
  /\ UNCHANGED <<server, identity, net, shown, switch, watching, wake, loop, command,
                 seen, told>>

\* renewAt passes; or the lease ends.
LeaseAges ==
  /\ \/ lease.age = "fresh" /\ lease' = [lease EXCEPT !.age = "due"] /\ Sound
     \/ lease.age = "due" /\ lease' = [lease EXCEPT !.age = "expired"] /\ Fault
  /\ UNCHANGED <<server, identity, required, engine, stale, shown, switch, watching, wake,
                 loop, command, seen, told>>

\* The machine sleeps while the step holds a lease.
LeaseInHandEnds ==
  /\ loop.pc = "apply" /\ loop.lease.age # "expired"
  /\ Fault
  /\ loop' = [loop EXCEPT !.lease.age = "expired"]
  /\ lease' = IF lease.of # 0 THEN [lease EXCEPT !.age = "expired"] ELSE lease
  /\ UNCHANGED <<server, identity, required, engine, stale, shown, switch, watching, wake,
                 command, seen, told>>

-----------------------------------------------------------------------------
(* Runtime.step. *)

Ends == loop' = Idle
Goes(pc) == loop' = [loop EXCEPT !.pc = pc]
Outside == UNCHANGED <<server, required, switch, command>>

\* A call fails, or its answer is lost: the step ends, the engine stays as it is.
CallFails ==
  /\ loop.pc \in {"account", "heartbeat", "snapshot", "renew"}
  /\ Fault /\ Ends
  /\ Outside /\ UNCHANGED <<identity, net, shown, watching, wake, seen, told>>

Begin ==
  /\ OpFree
  /\ wake' \in {wake, FALSE}
  /\ IF required
       THEN Stop /\ Ends
       ELSE /\ stale' = stale \ {"loop"} /\ Goes("account")
            /\ UNCHANGED <<engine, lease>>
  /\ Outside /\ UNCHANGED <<identity, shown, watching, seen, told, faults>>

\* A cancelled watch may have passed its check of the context already.
Cancelled == stray' = IF watch.state = "ending" THEN stray \cup {watch.room} ELSE stray

\* RefreshAccount; and the watch follows the room.
Account ==
  /\ loop.pc = "account"
  /\ \/ barred /\ Stop /\ Ends /\ shown' = None /\ UNCHANGED watching
     \/ /\ ~barred /\ identity = None
        /\ Stop /\ Ends /\ shown' = None
        /\ Cancelled /\ watch' = NoWatch
     \/ /\ ~barred /\ identity # None
        /\ Keep /\ Goes("heartbeat") /\ UNCHANGED shown
        /\ IF watch.room = identity
             THEN UNCHANGED watching
             ELSE Cancelled /\ watch' = [room |-> identity, state |-> "live"]
  /\ Outside /\ UNCHANGED <<identity, wake, seen, told, faults>>

IsMember == member # 0 /\ RoomOf(member) = identity

\* The network stops before the room is forgotten, which may fail to be saved.
Forget ==
  /\ Stop /\ Ends /\ shown' = identity
  /\ \/ identity' = None /\ Sound
     \/ UNCHANGED identity /\ Fault

Heartbeat ==
  /\ loop.pc = "heartbeat"
  /\ IF IsMember
       THEN Keep /\ Goes("snapshot") /\ UNCHANGED <<identity, shown, faults>>
       ELSE Forget
  /\ Outside /\ UNCHANGED <<watching, wake, seen, told>>

\* The snapshot; a clock that differs from the server's stops the network.
Snapshot ==
  /\ loop.pc = "snapshot"
  /\ IF ~IsMember THEN Forget /\ UNCHANGED seen
     ELSE /\ UNCHANGED identity
          /\ \/ /\ paused /\ Keep /\ Ends /\ shown' = identity
                /\ seen' = roster /\ Sound
             \/ /\ ~paused /\ Keep /\ seen' = roster /\ UNCHANGED shown /\ Sound
                /\ loop' = [loop EXCEPT !.pc = "refresh", !.policy = roster]
             \/ ~paused /\ Stop /\ Ends /\ Fault /\ UNCHANGED <<shown, seen>>
  /\ Outside /\ UNCHANGED <<watching, wake, told>>

\* What both sections under netMu check before they touch the engine.
Halted == paused \/ required \/ "loop" \in stale

NotRefreshed == engine
Refreshed == [engine EXCEPT !.policy = loop.policy]

\* A running engine gets the snapshot before the lease is renewed.
Refresh ==
  /\ loop.pc = "refresh"
  /\ \/ Halted /\ Ends /\ Keep /\ UNCHANGED shown /\ Sound
     \/ /\ ~Halted /\ Sound
        /\ IF engine.on THEN engine' = Refreshed /\ shown' = identity
                        ELSE UNCHANGED <<engine, shown>>
        /\ loop' = [loop EXCEPT !.pc = "renew", !.lease = lease]
        /\ UNCHANGED <<lease, stale>>
     \/ ~Halted /\ engine.on /\ Stop /\ Ends /\ Fault /\ UNCHANGED shown
  /\ Outside /\ UNCHANGED <<identity, watching, wake, seen, told>>

NeedsLeaseIfDue == loop.lease.age = "due"
NeedsLease == loop.lease.age # "fresh"

\* The lease, if it is due.
Renew ==
  /\ loop.pc = "renew"
  /\ IF ~NeedsLease THEN Keep /\ Goes("apply")
     ELSE IF IsMember
       THEN Keep /\ loop' = [loop EXCEPT !.pc = "apply",
                                         !.lease = [of |-> member, age |-> "fresh"]]
     ELSE Stop /\ Ends
  /\ Outside /\ UNCHANGED <<identity, shown, watching, wake, seen, told, faults>>

\* Validate refuses a lease that is over; engine.Apply starts or reloads the engine,
\* or fails with the engine stopped, or as it was; a started engine has a new MAC.
Apply ==
  /\ loop.pc = "apply" /\ Ends
  /\ \/ loop.lease.age \notin {"fresh", "due"} /\ Stop /\ UNCHANGED <<shown, wake, faults>>
     \/ /\ loop.lease.age \in {"fresh", "due"} /\ UNCHANGED stale
        /\ \/ Halted /\ UNCHANGED <<engine, lease, shown, wake, faults>>
           \/ /\ ~Halted
              /\ engine' = [on |-> TRUE, of |-> loop.lease.of, policy |-> loop.policy]
              /\ lease' = loop.lease /\ shown' = identity
              /\ wake' = (wake \/ ~engine.on) /\ Sound
           \/ /\ ~Halted /\ Fault
              /\ engine' \in {engine, Off} /\ UNCHANGED <<lease, shown, wake>>
  /\ Outside /\ UNCHANGED <<identity, watching, seen, told>>

-----------------------------------------------------------------------------
(* The threads that stop the network. *)

\* Every 250 ms, under netMu.
Ticker ==
  /\ required \/ lease.age = "expired"
  /\ <<engine, lease, stale>> # <<Off, NoLease, Threads>>
  /\ Stop
  /\ UNCHANGED <<server, identity, required, shown, switch, watching, wake, loop, command,
                 seen, told, faults>>

\* The event stream ends because the membership has ended.
WatchHears ==
  /\ watch.state = "live" /\ RoomOf(member) # watch.room
  /\ watch' = [watch EXCEPT !.state = "ending"]
  /\ UNCHANGED <<server, identity, required, net, shown, switch, stray, wake, loop, command,
                 seen, told, faults>>

\* It stops the network only if that is the room shown.
WatchStops(room) ==
  /\ \/ watch = [room |-> room, state |-> "ending"] /\ UNCHANGED stray
        /\ watch' = [watch EXCEPT !.state = "dead"]
     \/ room \in stray /\ stray' = stray \ {room} /\ UNCHANGED watch
  /\ IF shown = room
       THEN /\ Stop
            /\ told' = told \cup {n \in Membership : rooms[n] = room /\ n # member}
       ELSE Keep /\ UNCHANGED told
  /\ wake' = TRUE
  /\ UNCHANGED <<server, identity, required, shown, switch, loop, command, seen, faults>>

\* network-stop: paused and the epoch first, then the file, then the engine.
MarkPaused ==
  /\ stopper = "idle"
  /\ stopper' = "marked" /\ paused' = TRUE /\ stale' = Threads
  /\ UNCHANGED <<server, identity, required, engine, lease, shown, file, retry, held,
                 watching, wake, loop, command, seen, told, faults>>
SavePaused ==
  /\ stopper = "marked"
  /\ \/ file' = TRUE /\ stopper' = "saved" /\ Sound
     \/ UNCHANGED file /\ stopper' = "unsaved" /\ Fault
  /\ UNCHANGED <<server, identity, required, net, shown, paused, retry, held, watching, wake,
                 loop, command, seen, told>>
StopPaused ==
  /\ stopper \in {"saved", "unsaved"}
  /\ Stop /\ stopper' = "idle"
  /\ held' = IF stopper = "saved" THEN "disk" ELSE IF file THEN "disk" ELSE "memory"
  /\ UNCHANGED <<server, identity, required, shown, paused, file, retry, watching, wake, loop,
                 command, seen, told, faults>>

\* network-retry, with r.op: the epoch is loaded before the server is asked.
AskRetry ==
  /\ OpFree /\ retry' = "asked"
  /\ stale' = stale \ {"retry"} /\ held' = "no"
  /\ UNCHANGED <<server, identity, required, engine, lease, shown, paused, file, stopper,
                 watching, wake, loop, command, seen, told, faults>>

Resumable == "retry" \notin stale
CommitRetry ==
  /\ retry = "asked" /\ retry' = "idle"
  /\ \/ /\ IsMember /\ stopper = "idle" /\ Resumable
        /\ Stop /\ file' = FALSE /\ paused' = FALSE /\ wake' = TRUE /\ Sound
     \/ /\ ~IsMember \/ (stopper = "idle" /\ ~Resumable)
        /\ Keep /\ UNCHANGED <<file, paused, wake, faults>>
     \/ Fault /\ Keep /\ UNCHANGED <<file, paused, wake>>
  /\ UNCHANGED <<server, identity, required, shown, stopper, held, watching, loop, command,
                 seen, told>>

-----------------------------------------------------------------------------
(* Commands. *)

\* Action: join and leave, up to the answer.
Join(room) ==
  /\ OpFree /\ ~required /\ member = 0 /\ ~barred
  /\ \E n \in Membership :
       /\ rooms[n] = None /\ \A k \in 1..(n - 1) : rooms[k] # None
       /\ member' = n /\ rooms' = [rooms EXCEPT ![n] = room]
  /\ command' = "applying"
  /\ UNCHANGED <<roster, barred, identity, required, net, shown, switch, watching, wake, loop,
                 seen, told, faults>>
Leave ==
  /\ OpFree /\ identity # None /\ IsMember
  /\ member' = 0 /\ command' = "applying"
  /\ UNCHANGED <<rooms, roster, barred, identity, required, net, shown, switch, watching,
                 wake, loop, seen, told, faults>>

\* applyActionResult: GET /v2/me, and the network of another room stops.
ApplyActionResult ==
  /\ command = "applying" /\ command' = "idle"
  /\ \/ Fault /\ Keep /\ UNCHANGED <<identity, shown, wake>>
     \/ /\ IF RoomOf(member) = identity THEN Keep /\ UNCHANGED shown
                                         ELSE Stop /\ shown' = RoomOf(member)
        /\ \/ identity' = RoomOf(member) /\ wake' = TRUE /\ Sound
           \/ /\ RoomOf(member) # identity /\ Fault
              /\ UNCHANGED <<identity, wake>>
  /\ UNCHANGED <<server, required, switch, watching, loop, seen, told>>

Crash ==
  /\ Fault
  /\ Stop
  /\ paused' = file /\ stopper' = "idle" /\ retry' = "idle" /\ command' = "idle"
  /\ held' = IF held = "disk" THEN held ELSE "no"
  /\ shown' = None /\ watch' = NoWatch /\ stray' = {} /\ wake' = TRUE /\ loop' = Idle
  /\ UNCHANGED <<server, identity, required, file, seen, told>>

Step == Begin \/ Account \/ Heartbeat \/ Snapshot \/ Refresh \/ Renew \/ Apply

Next ==
  \/ MembershipEnds \/ RosterChanges \/ PolicyChanges \/ LeaseAges \/ LeaseInHandEnds
  \/ CallFails \/ Step
  \/ Ticker \/ WatchHears \/ \E room \in Room : WatchStops(room) \/ Join(room)
  \/ MarkPaused \/ SavePaused \/ StopPaused \/ AskRetry \/ CommitRetry
  \/ Leave \/ ApplyActionResult \/ Crash

Spec == Init /\ [][Next]_vars

\* The loop runs every five seconds, the ticker every 250 ms, and calls return.
\* Faults are finite; r.op is granted to the loop again and again (an operator may
\* ask for retries for ever).
Fairness ==
  /\ SF_vars(Begin) /\ WF_vars(Account \/ Heartbeat \/ Snapshot \/ Refresh \/ Renew \/ Apply)
  /\ WF_vars(Ticker) /\ WF_vars(SavePaused) /\ WF_vars(StopPaused) /\ WF_vars(CommitRetry)
  /\ WF_vars(ApplyActionResult)
FairSpec == Spec /\ Fairness

-----------------------------------------------------------------------------

\* The step has a lease in hand.
Holding == loop.pc \in {"renew", "apply"}

\* The lease that the expiry ticker looks at is the engine's, so that expiry bounds the
\* time the engine runs without the server; the engine runs for the room of the identity
\* and no other, though commands and saves fail; and before a step renews the lease,
\* which may fail, the engine has the roster of its snapshot.
Consistent ==
  /\ engine.on => lease.of = engine.of
  /\ engine.on /\ command = "idle" => RoomOf(engine.of) = identity
  /\ engine.on /\ Holding => engine.policy = seen
Inv == TypeOK /\ Consistent

\* After network-stop has returned the engine does not run until a retry that was asked
\* for later, whatever step or retry was in flight; and if the pause was saved, also not
\* after a restart.
StopHolds == held # "no" => paused /\ ~engine.on

\* When the watch has stopped the network because the membership ended, no step in flight
\* starts it again with a lease it was given before.
EndedStays == engine.on => engine.of \notin told

-----------------------------------------------------------------------------
(* What these rest on, together inductive.                                  *)

\* r.op has one holder.
OneOperation ==
  /\ loop.pc # "idle" => command = "idle" /\ retry = "idle"
  /\ command # "idle" => retry = "idle"

\* A lease is of a membership, in the room of the identity, and not of one that the
\* watch has seen end.
LeaseOK(l) ==
  /\ l.of = 0 <=> l.age = "none"
  /\ l.of # 0 => rooms[l.of] = identity /\ identity # None
Leases ==
  /\ LeaseOK(lease) /\ lease.of \notin told
  /\ engine.on => lease.of = engine.of /\ engine.of # 0
  /\ Holding => LeaseOK(loop.lease) /\ (loop.lease.of \in told => "loop" \in stale)
  /\ loop.pc = "apply" => loop.lease.of # 0

\* A membership that has ended does not come back.
Memberships ==
  /\ member # 0 => rooms[member] # None
  /\ member \notin told
  /\ \A n \in told : rooms[n] # None

\* What is paused is off, once the stop is through; and a pause is lifted by no retry
\* that was asked for before.
Pauses ==
  /\ stopper # "idle" => paused
  /\ paused /\ stopper = "idle" => ~engine.on
  /\ stopper = "saved" => file
  /\ held # "no" => paused /\ ~engine.on
  /\ held # "no" /\ retry = "asked" => "retry" \in stale
  /\ held = "disk" => file

\* The roster.
Rosters ==
  /\ loop.pc = "refresh" => loop.policy = seen
  /\ Holding => loop.policy = seen /\ (engine.on => engine.policy = seen)

Supported == TypeOK /\ OneOperation /\ Leases /\ Memberships /\ Pauses /\ Rosters

-----------------------------------------------------------------------------

\* While the device stays a member of the room it has joined, is not paused and needs no
\* update, the engine runs again and again, after whatever stopped it.
Connected ==
  /\ member # 0 /\ RoomOf(member) = identity
  /\ ~paused /\ ~required /\ ~barred
Reconnects == <>[]Connected => []<>engine.on
=============================================================================
