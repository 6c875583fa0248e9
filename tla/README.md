# NodeLane Room: models, checks and proofs

This directory holds TLA+ specifications of NodeLane Room, a service that lets a
few players form a *room* and play over a private Nebula overlay. Each module is
translated from the Go source under `src/internal`; `PROJECT.json` maps every
definition to the lines it stands for.

* [The system](#the-system)
* [What is hard about it](#what-is-hard-about-it)
* [Modules](#modules)
* [Runs](#runs)
* [Fairness](#fairness)
* [Proofs](#proofs)
* [Findings](#findings)
* [Not modelled](#not-modelled)
* [Plan](#plan)

## The system

```
 desktop / nlroom-cli ──local API──► agent (nlroom-service) ──HTTPS──► control (nodelane-server) ──► PostgreSQL
                                      │  └ engine (Nebula) + lan device                ▲
                                      └──────── overlay traffic ── nodes (nlroom-node) ┘
```

| Component | State | Operations | What makes it correct |
|---|---|---|---|
| **Rooms** (`control/rooms.go`) | tables `rooms`, `members`, `room_bans`, `invitations`, `events` | create, join, owner's join, heartbeat, leave, kick, transfer, close, invite, sweep | one membership per user, capacity, bans hold, a closed room is over, every change of the roster is announced |
| **Address pool and certificates** (`store.go`, `lease.go`) | `addresses`, `certificates` | allocate, revoke, lease, sweep | no two devices with a usable certificate for one address |
| **Idempotent writes** (`operations.go`, `client/api.go`) | `idempotency` | execute, replay, query, sweep | a write takes effect at most once, and answers are true |
| **Accounts and devices** (`users.go`, `player_self.go`) | `users`, `user_devices`, `sessions` | disable, delete, revoke, take over, log out | an ended account or device keeps no membership, certificate or open room |
| **Authentication** (`auth.go`) | `challenges`, `sessions` | challenge, verify | a challenge is used once; scopes do not mix |
| **OIDC login** (`oidc.go`, `client/account.go`) | `login_transactions`, `oidc_settings` | start, authorize, complete, confirm, claim | one login authorizes one device, of the browser that confirmed it |
| **Nodes** (`nodes.go`) | `nodes`, `node_bindings`, `enrollment_keys`, `node_operations`, `node_configs` | create, issue key, enroll, configure, drain/disable/revoke/replace/restart, sync, lease | a generation has one device; a retired device never acts again; operations finish once |
| **Update rollout** (`updates.go`) | `update_repository`, releases, policies | save, publish, enforce | a policy refers to a published release; a required version is enforced on everyone |
| **Administrator** (`admin_auth.go`, `setup.go`) | `administrator`, `admin_sessions` | set up once, log in, change and reset password | no session outlives the password it was opened with |
| **Event stream** (`player_events_http.go`) | cursor of a connection | replay, reset, snapshot | a consumer never believes it is current when it is not |
| **Telemetry** (`telemetry.go`) | a bounded map in memory | put, prune, snapshot | bounded, and samples are attributed to the right identity |
| **Agent: commands** (`agent/operations.go`) | ledger `operations.bin` | run, reconcile, crash, reload | an unknown outcome stays unknown until it is settled |
| **Agent: network** (`agent/network.go`, `interaction.go`) | engine, lease, pause flag, epoch | step, pause, retry, expiry ticker, event watcher | a paused or ended network is not started again by a step that was under way |
| **Agent: accounts** (`agent/account.go`) | `login.bin`, identity file | login, link, poll, cancel, log out | a switch of identity survives a crash, and a login ends |
| **Agent: node** (`agent/node.go`) | `node-state.json` | enroll, sync, apply, approve a port, restart | a restart is carried out once and acknowledged; a port changes only as approved |
| **Engine** (`engine`) | Nebula control, applied snapshot | apply, stop, expire | Nebula, adapter and snapshot agree; a revoked peer's tunnel is cut |
| **LAN device** (`lan`) | frame policy, flows, queues, replay windows | update, read, write, deliver | no frame passes under a policy that is no longer in force, none twice |
| **Probes and relays** (`probe`, `agent/network.go`) | samples, chosen relays | ping, select | a failed relay is dropped, a healthy choice is not fickle |
| **Updater** (`update`, `agent/updates.go`) | job file, package files | download, prepare, install, roll back | a job ends, after any crash, and installs only what was approved |
| **Windows setup** (`update/*_windows.go`, `platform/platform_windows.go`) | program files, `owner.sid`, `tap.guid`, service, adapters | set up, remove, prepare the adapter | whatever was interrupted can be repaired; only its own adapter is deleted |

The control plane is stateless: replicas share PostgreSQL and every write goes
through `Store.Write`, which takes one advisory lock. The agent is a single
process with several goroutines (step loop, 250 ms expiry ticker, probes,
updates, event watcher, local API handlers) that share state under `op`, `netMu`,
`stateMu` and `commandMu`.

## What is hard about it

*Serialized, but not linear in time.* `Store.Write` begins the transaction and
then waits for the lock; `now()` in PostgreSQL is the time of the begin. A
transaction can therefore judge expiry, quarantine or a deadline by an *earlier*
time than the one committed before it. The modules of the control plane that depend on
time have this: an action is given a `t` between `clock - MaxWait` and `clock`.

*Certificates cannot be recalled.* A revocation reaches a peer only if its
connection is up, so an address may be handed on only when the old certificate
has expired; the certificate's end is computed with another clock than the
quarantine's.

*Many ways out of a room.* Leave, kick, ban, close, takeover, logout, revoked
device, deleted account, required update, expired grant, expired room: each has to
leave six tables in agreement, and the leftovers of one have to be cleaned by the
next.

*Retries.* Clients resend the same bytes; agents do so after a crash; a node repeats
its report until it has heard the answer.

*Threads of the agent.* A step works for seconds without a lock on the network's
state, while a ticker, the watch of the room's events and the user may stop the network;
what the step has fetched must not undo that. A frame is checked under one policy and
written under another.

*Two processes and one file.* The installer of an update outlives the service that
started it and shares a job file and a package cache with it; setup on Windows
replaces files one by one, and no journal is kept.

`PROJECT.json` lists the hazards at their lines with the properties that cover them.

## Modules

| Module | Models | State ↔ code |
|---|---|---|
| `AddressLease` | the life of an address | `addresses` (table), `bound` (IP of the active membership or current binding), `expiry` (latest `expires_at` of the certificates of a device that name an IP) |
| `RoomControl` | rooms, accounts and what ends a membership | one variable per table or column: `rooms`, `members`, `bans`, `invites`, `addresses`, `certs`, `state`, `revoked`, `grant`, `outdated`; `bumped` holds the rooms whose revision the last transaction raised |
| `Idempotency` | writes that are sent again | `receipts` (table), `deadline` (of each request), and the history variables `applied`, `told` |
| `CommandLedger` | the agent's durable commands, from the saved entry to the recorded outcome | `ledger` (`Runtime.commands`), `disk` (`operations.bin`), `run` (where the thread that holds `commandMu` stands), `identity` and `signedOut` (`Runtime.identity`), `receipts`, `applied`, `revoked` (the control plane), `reported` (history: the version reports recorded), `wire` (copies whose answers nobody reads) |
| `NodeLifecycle` | a relay or lighthouse: administrator, control plane and the agents of its machines | `node`, `configs`, `keys`, `bindings`, `ops`, `certs` (tables), `disk` and `mem` (identity and `node-state.json`, `Runtime.nodeState`), `run` (the step under way), `late` (copies of synchronizations) |
| `AgentNetwork` | the step loop of a player's agent against everything that stops its network | `member`, `rooms`, `roster`, `barred` (server), `identity`, `paused`, `file`, `engine`, `lease`, `watch`, and where step, command, retry and stop stand; `stale` stands for the compared `networkEpoch` |
| `OidcLogin` | a login or the link of a guest, across agent, browsers, provider and control plane, with the rooms of the old and the new device | `tx` (`login_transactions`), `identities`, `device`, `file` (`login.bin`, with whether `LeaveID` is set and `LeaveDeadline` past), `disk` (identity file), `selected` (`identity.RoomID`), `member` (`members`), `left` (the receipt under `LeaveID`), `revoked`, `step` |
| `UpdateRollout` | metadata, releases, copies in stores, policy | `repository`, `releases`, `sources`, `replicas`, `policy` (tables), `transfers` (verifications under way); `device_software` is a parameter of `Required`, which is asked for every report a device may have stored |
| `UpdateJob` | an update on a Linux client: loop, desktop, installer unit | `job` (`update-job.bin`), `packages` (cache), `ui` (`updateState`), `step` (`updateStep` under way), `unit` (the installer), `installed` |
| `WindowsSetup` | setup, removal and adapter on Windows | `files`, `registered`, `running`, `owner` (`owner.sid`), `adapters`, `record` (`tap.guid`), `op` (the operation that holds the locks) |
| `LanDevice` | the Ethernet adapter between TAP and Nebula | the fields of `Device`; `writing` and `locked` for the frame between check and write |
| `Fragments` | the fragment table before the port rules | `parts`, `total`, `size` (`fragmentSet`) |
| `RelaySelection` | probes and the choice of relays | `listed` (`Service.allowed`), `draining`, `pinging`, `samples`, `relays`, `selectedAt` |
| `Engine` | bringing Nebula to a lease and snapshot | `control`, `raw`, `applied`, `lan`, `tunnels` (Nebula's host map) |
| `AddressLease_proofs`, `RoomControl_proofs`, `CommandLedger_proofs`, `NodeLifecycle_proofs` | theorems about the four | |
| `MC...` | compositions and instances for TLC | |
| `MCProgress_proofs` | theorems about `Idempotency`, and about `AgentNetwork`, `OidcLogin`, `UpdateJob` and `WindowsSetup` as they stand in `MCProgress` | |
| `MCParts_proofs` | theorems about `UpdateRollout`, `LanDevice`, `Fragments` and `RelaySelection` as they stand in `MCParts` | |
| `MCRooms_proofs` | theorems about `Engine` and the contended seats as they stand in `MCRooms` | |
| `MCLedgers_proofs` | theorems about the second instance of `CommandLedger` in `MCLedgers` | |

*Composition that says something.* Two modules implement another. `RoomControl` is checked to *implement* `AddressLease`. It instantiates
it as `Pool` with players' devices as holders, `bound` computed from the member rows
and `expiry` from the certificates, uses `Pool`'s `Allocated` and `Purged` where the
code calls `allocate` or the same DELETE. The run `room_leases` checks `Pool!Spec` on
a small instance and `PoolKept` proves it for every one, so what is proved of
`AddressLease` holds of the rooms (`NoAddressTwice`). `CommandLedger`, whose control plane is
reduced to one receipt per device and key, instantiates `Idempotency` as `Writes`: a request is
a device, a command and whether it is the version report or the command itself; its key is device
and command; a receipt is the one of the table with the deadline of the command; effects are
`applied` and `reported`. The run `ledger` checks `WritesImplemented` and `ReceiptsAsPromised` proves it:
a request is executed only as `mutateChecked` would, with a deadline in range, without a
receipt, and once.

*Composition for economy.* `MCParts`, `MCRooms`, `MCLedgers` and `MCProgress` hold several
instances side by side in one run. What a component is parameterised by is a CONSTANT of the
composition, given its value in the `.cfg`, where a theorem is about every value of it. The variable `part` chooses at the start which of
them moves; the others stay in their initial states, so the reachable states are the
union of those of the single components, not their product, and a property of a
component is about the behaviours of that component. Nothing is claimed about their interaction.

*Components meet in the modules themselves:* `AgentNetwork`, `NodeLifecycle`, `OidcLogin`
and `CommandLedger` each hold the agent and the part of the control plane that it talks
to, with the calls between them, and `RoomControl` has accounts, rooms, addresses,
certificates and required updates in one state.

One action of `RoomControl` is one transaction, with everything it writes: `available` in every
admission, the bans of a kick, the purge in a sweep. Reads (snapshots, lists) change
nothing and are left out. `Lease` joins the heartbeat's authority check, the member
row and the certificate that `issueLease` inserts. A certificate row is kept without
its key and fingerprint, and of rows that differ only in their end only the latest
is kept: no operation tells them apart otherwise.

`CommandLedger` is about one process with one lock per purpose: `commandMu` lets one
thread work on the ledger, and `r.op` guards the identity. An action is what that
thread does between two releases of `r.op` or two requests; the steps `report`, `post`
and `confirm` are the ones in which it holds `r.op`, and `Switch` (account-poll, which
takes `r.op`) is excluded exactly then. The control plane is reduced from `Idempotency`
to one receipt per device and key, and shown to implement it. Devices are numbered in the order in which the
agent becomes them. `Tick` does not let the first dispatch of a command outlast its
deadline, which is an hour ahead while `runCommand` stops after 35 seconds; a replay
has no such assumption. A request that is repeated inside `CallResult` is a `Send`
before the `Post` or `Report` whose answer is read.

`AgentNetwork` takes every section under `netMu` as one action and every call of a step as
another; `r.op` excludes steps, commands and retries from each other, but not the ticker,
the watch or a stop. The epoch is a counter that is only compared, so the model keeps which
threads would find it changed. `NodeLifecycle` names an operation by the revision it created,
since each creates one, and keeps the port of a configuration and nothing else of it,
because only a port needs approval. In `OidcLogin`, `UpdateJob` and `WindowsSetup` a step is
what happens between two writes to a file or two answers, and a crash or a loss of power may
come between any two. `LanDevice` and `Engine` scale the constants of the code (4096 sequence
numbers, 8192 flows) down to what tells the cases apart.

## Runs

| Run | Instance | What it shows |
|---|---|---|
| `parts` | **addresses**: 2 players (symmetric), 1 node, 2 addresses; lease 1, skew 1, wait 1, quarantine 3, time to 5. **rollout**: 2 releases, 1 source with 2 places, 1 verification at a time, 2 imports, 2 edits, 2 saves. **lan**: 1 peer, 2 ports, 3 sequence numbers, window 2, queue 2, 1 flow, 2 policies. **fragments**: datagrams of 4 units in at most 3 parts of 2 contents. **relays**: 2 relays, latencies 2 and 5, 1 chosen, 2 failures, window 1, hold 2, 3 rounds | exclusive addresses with the quarantine *exactly* as long as `TimingAssumption` demands; verified copies; frames once while the window is kept, and only by the policy in force; datagrams as checked; a choice of relays that is steady and healthy |
| `rooms` | **accounts**: alice with two devices whose grants end at 2 and 1, bob a guest, 1 room, time to 2. **two**: 2 rooms of one seat, 2 users, bob may be disabled. **waits**: 1 address, 1 room that lives 2, wait 1, time to 3, under fairness. **engine**: 1 peer, 2 certificates that live 1, 2 rooms, 2 edits | leftovers of expired grants, takeover, revocation, deletion, finality and announcement; contended seats (owning takes no seat); closing, leaving and returning; Nebula, adapter and snapshot in step |
| `room_leases` | 2 users, 1 room that lives 1, one MAC, quarantine 2, lease 1, wait 1, bob leases | the invariant that is proved, `Pool!Spec`, that only present members have unrevoked certificates, bans and unique MACs |
| `ledger` | **outcomes**: commands enter and manage, 1 device, window 2, client 1 behind, time to 2. **accounts**: commands logout and leave, 2 identities, the first may be revoked, window 1, time to 3 | the invariant that is proved; the requests of the first device are those of `Idempotency`; recorded outcomes are true until the deadline; what a change of account or a revocation in the middle of a command leaves behind |
| `nodes` | 2 machines, 2 keys, 2 ports (symmetric), 3 revisions, 1 fault (a crash, a failing save, a lost answer, or an engine that stops by itself), 1 late copy, orders disable, resume, restart, replace, revoke | recorded outcomes, reports that are never refused, approved ports, finality |
| `progress` | **writes**: 2 requests under one key, one from a client whose clock is behind; window 2, wait 1, time to 2. **ledger**: 1 entering command that may be held back, 2 identities, time to 2. **network**: 1 membership, 1 change of the roster, 1 fault. **login**, **link**: 2 browsers, 2 subjects of whom one has an account, 2 rooms, 1 fault, 2 revisions of the settings. **job**: versions to 2, 1 fault, 1 offer, 1 installation by hand. **setup**: 2 users, 2 versions, 2 adapters, 1 fault | at most once, one meaning per key; the network by lease, snapshot and pause; what has to be so before the identity is switched; the installer by what was approved; repair after any interruption; and what does not stay open, stopped, begun or stuck |
| `idempotency_ahead`, `ledger_report`, `ledger_subject`, `login_link`, `update_downgrade`, `setup_repair` | one request, command, link, job, installation | the findings below |

Why the bounds are enough: time 5 in **addresses** allows lease, release, quarantine, reuse and the
expiry of the second certificate, and two addresses for three holders force a reuse; time 2 in **outcomes** allows a command,
its replay, its deadline here and there, and a second command; time 3 in **accounts** the eviction of the first. Three revisions of a node are
an enrollment's configuration, an edit or order, and another that overtakes it; two keys
let a replacement enroll. In **lan** a third sequence number moves the window past the first, and
a second policy replaces the one under which a frame was checked. One fault per
behaviour is what each property has to survive; `login_link` has two. In **writes** the request of
the client that is behind is due at 1, so that its receipt may be swept at 2 and copies come later. Time is discrete: one unit stands
for whatever the bounds are multiples of (the slack of one minute in **addresses**: lease 10
and quarantine 11 minutes differ by as much as skew and wait together).

`MaxClock`, `MaxRuns`, `MaxJoins`, `MaxRoster`, `MaxFaults`, `MaxOffers`, `MaxManual`,
`MaxImports`, `MaxEdits`, `MaxRevision`, `MaxRounds`, `MaxSeq`, `MaxUpdates`, `MaxIssued`,
`MaxChanges`, `MaxLate`, `MaxAdapters`, `Largest`, `PoolSize`, `Enforced`, `Suspended` and `Leasing` are
bounds of the instances and named so in the modules. Deadlock is not checked where a component
may really come to rest (a behaviour that has used up its bounds, a finished login).

Each property has a mutant in `PROJECT.json`: an operator that changes one definition
as a plausible bug would (a release time without the minute of slack, a purge one
second early, a revocation that forgets the certificates, a capacity check with
`<=`, a cache pruned to its newest package), under which TLC finds the property violated.

## Fairness

In `RoomControl!FairSpec`: the sweep, which `Server.Run` (`setup.go`) calls on a
ticker and whose failure is only logged, so it is tried again; and the passage of
time. No user, agent or administrator is assumed to do anything.

In `CommandLedger!FairSpec`: the thread at work proceeds, since every request has a
timeout (`Send`, an attempt that comes to nothing, is not a step of progress); time
passes; and the desktop asks for an open operation every three seconds
(`use-operations.ts`). The last is strong fairness for each command, because the
request returns at once while another thread holds `commandMu` and that thread
always lets go again.

In `AgentNetwork!Fairness`: the step begins again and again (strong, since it needs
`r.op`, which commands and retries take and give back), a step under way proceeds because
every call has a timeout, the 250 ms ticker runs, and a stop, a retry or an answered
command finishes what it has begun. Failures are bounded by `MaxFaults`.

In `OidcLogin!Fairness`: the agent proceeds, because the desktop polls as long as a login
is in the file, and the attempt expires. Browser and provider are not assumed to
do anything. The deadline of the leave may pass at any time and need not.

In `UpdateJob!Fair`: the loop runs (`runUpdates`, every minute or when woken), the installer
proceeds, two minutes pass, and systemd starts the service again.

`MCRooms` and `MCProgress` restate these for the part that has them, with subscripts that
are empty for the others.

## Proofs

`AddressLease_proofs` proves for any sets of players and nodes, any pool and any
timing that satisfies `TimingAssumption` (lease + skew + wait ≤ quarantine):

* `Invariance`: `Inv` is invariant. `AddressExclusive` alone is not inductive: that a
  fresh address is free of other devices' certificates follows only if every live
  certificate is *backed*, by a binding or by a quarantined row that outlasts it
  (`LiveCertificatesBacked`), and that a release outlasts the certificate needs a bound
  on expiries (`Horizon`). The proof reduces each action to lemmas about the table:
  `ReleaseConsistent` (this is where the timing assumption is used),
  `PurgeConsistent`, `AllocateConsistent`.
* `Exclusivity`, `RowsAndBindings`, `TypeCorrect`: its consequences.
* `QuarantineRespected`: no step takes an address out of quarantine early.

`RoomControl_proofs` proves for any users, devices and rooms, any capacity, pool and
durations (`RoomAssumption` and `TimeAssumption` say hardly more than their types):

* `Invariance`: `RoomInv` is invariant. Its parts need each other. That an address handed
  out is no other member's needs that members' rows are held (`RowsHeld`); that a kick
  leaves no row of the banned user needs that the user has one row at most
  (`IndexesHold`); that the certificates of a closed room are revoked follows from the
  room having no members and from `UnrevokedIsMember`. The proof says so by sorting the
  invariant (`Sorted`) into what is written together: `Tables`, the three tables that
  `revoke` and `addMember` write, with a lemma for what each write makes of tables in
  order (`RevokedTables`, `AddedTables`, `PurgedTables`, `MacTables`); and what each
  member must satisfy (`Welcome`). A transaction then lets members come (`Comes`), go
  (`Goes`) or stay (`Stays`), and each operation is a few lines under one of the three.
* `IndexesNeverRefuse`, `CapacityKept`, `BansKept`, `ClosedMeansEmpty`,
  `OnlyMembersAccepted`, `EndedKeepNothing`: its consequences.
* `FinalAndAnnounced`: no step reopens a room, lifts a ban, a revocation or a deletion,
  or changes a room's members or row without a new revision.
* `PoolKept`: `RoomControl` implements `AddressLease`. Every step joins a room, ends
  memberships, signs a lease, sweeps, or leaves addresses, bindings and the ends of
  certificates alone (`StepKinds`); each kind is a step of the pool. A join
  first ends what is stale of the same user's memberships, then allocates, in one step
  of the pool (`Admit`). That the pool's `expiry` is a maximum over
  certificate rows needs that no row ends later than the bounds of a lease allow
  (`WithinHorizon`, which makes the set finite).
* `NoAddressTwice`: with the pool's `TimingAssumption`, no address of the rooms is bound or
  certified to two devices. It follows from `PoolKept` and `AddressLease_proofs`.

`MCProgress_proofs` proves of `Idempotency`, for any requests, keys and client clocks:

* `WritesInvariant`: the receipt of an outcome is in the table until the deadline
  (`ReceiptsKept`) and is what became of the request it was written for (`ReceiptsTrue`); a
  second execution is prevented by nothing else.
* `AtMostOnceInTime`, `AnswersAreTrue`, `KeysAreUnambiguous`: its consequences. `AnswersAreTrue`
  distinguishes who answers. A request that is sent again is compared with the one the receipt was
  written for (`operations.go:62`), so its answer is true. The question about an operation looks the
  receipt up by subject and key alone (`operations.go:211`), so its answer is proved true only of a
  key that no other request was sent under; `ledger_report` shows what comes of a key with two.

`CommandLedger_proofs` proves for any commands, number of identities, window and lag,
through any interleaving of crashes, failing saves, late copies and changes of account:

* `Invariance`: `LedgerInv` is invariant. `OneOpen` is not inductive: that recording an
  outcome opens no second command needs to know that the command of the first dispatch
  *is* the open one, in memory and in the file (`OnTheOpenCommand`). `AtMostOnce` needs
  that an effect has its receipt until the deadline (`ReceiptKept`). The proof sorts
  the invariant by what the actions write (`LedgerOK` of memory and file, `ServerOK`,
  `WireOK`, `RunOK`), so that each action is a lemma about the part it changes
  (`EntryReplaced`, `Saved`, `HandleOnce`, `ThreadMoves`).
* `OnlyOneOpen`, `NothingTwice`, `SecretsGone`, `SavedBeforeSent`: its consequences.
* `ReceiptsAsPromised`: the ledger and its control plane implement `Idempotency`. Issuing a command is
  sending every request under its key (`IssueIsSend`); a request that is executed is one
  that `Idempotency` executes at that moment (`HandleIsExecute`), because its deadline was
  fixed by a clock that is not ahead (`FixedBefore`), and because what took effect, and
  what was reported, has its receipt until the deadline (`ReceiptKept`, `ReportKept`).
  With the client's clock ahead it would be false (`idempotency_ahead`); `LedgerAssumption`
  has it behind.
* `LogoutStaysDone`: a logout that the file calls done left its device signed out, through
  crashes, failing saves, replays and changes of account.
* `OutcomesAreTrue`: `OutcomesTrue`, under the hypotheses that the findings below show to be
  needed and no others: one identity, nothing revoked, no command held back by a
  required update, no logout.

`NodeLifecycle_proofs` proves for any machines, keys, ports and orders and any number of
revisions, faults and late copies (`NodeAssumption` gives their types):

* `NodeInvariant`: the invariant is `Bound /\ Told`. `Bound` says who is who: a node's state,
  its bindings, keys and certificates agree, and so do a machine's memory, its disk and the
  binding that the control plane has for it. `Told` says what the agents know, and is there
  for three reasons: a crash puts the disk in the place of memory, so *both* must name a
  revision as it was configured and only tasks that were carried out if they are said to
  be; a copy of a synchronization may arrive at any time, so that must hold of it too; and a
  restart is not repeated because it is still remembered, or can no longer be ordered. A step moves the control
  plane, one machine or both; `Evolves` is what the control plane may do without
  disturbing what anybody was told, and `AgentMoves`, `CarryMoves`, `BothMove` and
  `AdministratorMoves` reduce each action to it.
* `NodeStanding`, `NodeOutcomes`, `NodeReports`: its consequences `NodeInv`, `OutcomesTrue` and
  `ReportsAccepted`.
* `NodePorts`, `NodeEnds`: a port changes only as approved; what has ended stays ended.

`MCProgress_proofs` proves the safety of four components for every value of their
constants. Each has an inductive invariant `Supported` in its own module:

* `NetworkKept` (`AgentNetwork`): every lease, the engine's and the one in a step's hands, is
  of a membership that the watch has not seen end (`Leases`, `Memberships`); what is paused
  is off, and a retry under way is outdated by a later pause (`Pauses`); a step that may
  still fail has given the engine the roster it fetched (`Rosters`). The last one corrected
  the model's property: `Consistent` used to compare the engine's roster with the snapshot
  whenever no step runs, which a required update that is set and withdrawn between a refresh
  and the next tick violates; it now says so of the step that has a lease in hand.
* `LoginKept` (`OidcLogin`), for logins and links: `Attempt` ties each step of the agent to the
  phase of the transaction that it has seen and to the device, which stays when a change of the
  settings takes the phase back. What is kept about rooms is what the code establishes: the identity
  is saved only when the leave of the room that the agent *remembers* is recorded under the login's
  operation, or the old device is revoked. That the old device is then in no room is not so (below).
* `JobKept` (`UpdateJob`): `Pending` is what is still to come of a release that was asked for:
  the package of the running service stays in the cache between the download and the
  recheck, and a stuck job that becomes ready again is still approved.
* `SetupKept` (`WindowsSetup`): `Placed`, `Owned`, `Newest` and `Recorded` say what each place of
  an operation has already done, so that wherever it stops, the version in `BUILD.txt` and
  the account in `owner.sid` admit a repair. This is for whole writes of `owner.sid`, as
  everywhere in `MCProgress`; without them it is false (`setup_repair`).
* `IdentitiesStay`, `SetupIsCareful`: the action properties, from the same invariants.
* `AlwaysSupported` joins them: a step of the composition is a step of one component and
  leaves the variables of the others alone (`OneComponent`).

`MCParts_proofs` proves the safety of four components for every value of their
constants: any releases, sources and places, any number of saves; any peers, ports and
contents, any size of queues, flows and replay windows, any loss and order of frames; any
size of a datagram; any relays, latencies and rounds. Here too the inductive invariant is in the component's module:

* `CopiesVerified` (`UpdateRollout`, `Supported`): a verification under way that still names the
  revision of its source has read where the source points now (`Reading`), so a save in between
  is always noticed when the copy is recorded. `ShutOutCanReturn` needs besides that the
  release of the policy stays installable through every save of release, source and metadata
  (`Installable`). It is about every report a device may have stored, none included, and
  says when an offer is made and what lets the device in where none is (below).
* `FramesOnce` (`LanDevice`, `Guarded`), for as long as the session's window is kept: a number that has been accepted is in its slot of the window or
  behind the window, and a slot is taken over only by a number that is a whole window
  further on (`NextInSlot`, `WindowHolds`), by which time the old one is behind. This is the
  arithmetic that no instance shows for 4096 slots.
* `PolicyInForce`: whatever waits in a queue, for the adapter or between its check and its
  writing under the generation in force is allowed by the policy in force
  (`Waiting`, `CheckedInForce`). What waits under an older generation may be against the
  policy, and is dropped.
* `CheckedAssembled` (`Fragments`, `Assembling`): parts do not overlap, lie within the total once it is known
  (`EndKnown`), and their lengths add up to `size`, so a set that is full in number leaves no gap.
* `ChoiceKept` (`RelaySelection`, `Inv`): samples are those of listed relays. The ranking is a strict
  order whatever the averages are, so each place in it has a candidate (`Places`,
  `RankedCandidates`), and a relay that failed by its recent samples failed by all of them
  (`FailedLately`): that is why a list that is emptied leaves no healthy relay out.

`MCRooms_proofs` proves for any peers and rooms, any life of certificates and any number of
edits and leases, and for any users, devices, rooms and times:

* `EngineAgrees`, `RulesOnlyByRestart` (`Engine`, `Supported`): the engine is `Idle`, or Nebula, the
  rendered configuration and the adapter are *all* those of the lease and snapshot last
  applied (`Loaded`). `Apply` decides what to do by comparing what it would render with what it
  rendered; `InStep` alone does not say that these agree, and without it an unchanged configuration
  could leave a revoked peer's tunnel (`SameKeeps`), and a reload could change the rules
  under the packet readers (`EngineRules`).
* `LastSeatOnce`: two rooms of one seat. It is an instance of `RoomControl_proofs`, once the two rooms of
  `MCRooms` are shown to be those of the proof (`SameRooms`).

`MCLedgers_proofs` proves `AccountsKeptApart`, that is `AccountsInv`, in the same way: the ledger of two
identities is an instance of `CommandLedger_proofs` (`SameLedger`), whose two invariants it keeps.

Every safety property of a passing run is stated by a theorem. Only model-checked is
all liveness (`RoomsClose`, `MembersLeave`, `AddressesFree`, `PendingEnds`, `Reconnects`, `LoginEnds`,
`InterruptedEnds`), since the prover handles neither fairness nor ENABLED.

## Findings

* **A client with a clock slightly ahead cannot write** (`idempotency_ahead`). The
  client's deadline is its own time plus one hour and the server's limit is its own
  time plus one hour, so a lead larger than the time a request takes to arrive makes
  every write fail, although differences up to 30 seconds are tolerated elsewhere
  (`docs/architecture.md:93`).

* **A version report uses up the key of a command** (`ledger_report`). Before a room
  is entered `Action` reports the software version under the context of the command
  (`agent/player.go:79`), so the report's receipt is stored under the command's key: the
  command is answered as a conflict, and reconciliation takes the report's receipt for
  the command's and records it as succeeded. `docs/architecture.md:79`: a receipt proves
  the commit.
* **A command executes as another identity** (`ledger_subject`). The device of an entry is
  noted before `r.op` is taken for the dispatch (`agent/operations.go:134`, `:153`), and
  account-poll may switch identities in between. `docs/architecture.md:77`: the subject
  is fixed.

* **The link of a guest that expires never ends** (`login_link`). After five minutes the claim
  fails, but the guest's own key still authenticates (`agent/account.go:130`), so the branch
  that clears an expired login is not reached and every poll returns at `:145`. Until the user cancels,
  logins and links are answered `local_busy`. `model/codes.go:47`: "login timed out, please start again".
* **A prepared update replaces a newer package** (`update_downgrade`). `Apply` compares the target
  with the version that was installed when the job was prepared (`update/install.go:124`); a
  job that is still ready is installed by the boot timer with `--allow-downgrades`, also over a
  package that was installed by hand since. `docs/updates.md:7`: only higher targets.
* **An interrupted setup that cannot be repaired** (`setup_repair`). `platform.Install` rewrites
  `owner.sid` with a call that truncates it first (`platform/platform_windows.go:167`). Stopped
  there, neither setup nor removal goes past the empty file. `update/setup_windows.go:204`: "A partial installation
  must remain repairable". The run sets `TornWrites`; in `progress`, where writes are whole, the same property holds.

What the models show without a run of their own, mostly because no document promises
otherwise:

* A device whose agent is as new as the policy's release, but whose last report names an
  older desktop, or which never reported, is shut out of rooms (`control/updates.go:287-290`, `:303`) and offered
  nothing, because the check compares the agent's version alone (`control/update_snapshot.go:132-139`). It comes
  back when the desktop has been opened anew, or a report arrives (`docs/updates.md:90` has the case
  of the missing report). `RequiredCanUpdate` says which case has which way back.
* A session's replay window is dropped after two quiet minutes (`lan/device.go:371-375`); a
  chunk of an old frame that is repeated after that is delivered again. `OnceEach` counts from the window on.
* The key and deadline of a login's leave are fixed once (`agent/account.go:159-162`). When an hour has passed, or the
  clock was set back, every poll is answered `operation_expired` and returns at `:168`; when the leave is
  recorded but its answer is lost and another room is joined before the next poll, the operation names
  another room and is answered as a conflict. In both cases the login stays until the user cancels or
  the room ends; `LoginEnds` excepts exactly these (`LeaveStuck`).
* The old device may be a member at the switch of identity: it joined the same room again between a
  leave whose answer was lost and the next poll, which is answered by the old receipt, or the answer of
  a join was lost and the agent does not remember the room. The membership then ends by expiry, kick or revocation.
* A change of the provider's settings ends every attempt that is not claimed, a ready one included (`control/oidc.go:38`);
  the agent then clears a login whose device is authorized already. And the poll after a crash between
  saving the identity and clearing the file claims again, and leaves the room that the *new* identity has joined meanwhile.

* `mutateChecked` compares the deadline with the transaction's `now()`, the time before the wait for the lock, so a
  request may be executed after its deadline (`OnceInTime` is therefore about effects
  before it); and `reconcileCommand` takes `operation_expired` in answer to a replay for
  a refusal, though an earlier attempt of that replay may have been executed
  (`OutcomesTrue` therefore speaks of the time until the deadline).
* The loop probes the installer's lock and then saves the job as ready (`agent/updates.go:76`); an
  installer that starts in between has its job changed under it. `CanRollBack` is therefore
  stated for an undisturbed job. update-cancel-install (`:339`) resets a job that has just finished to ready.
* If both the answer of a claim and the reauthentication are lost until the attempt expires, the
  agent clears the login though its device is authorized (`agent/account.go:126-142`): the next login registers another.
* During the first step after a start the snapshot is empty, so a terminal event of the
  watch does not stop the network (`agent/network.go:97`); the step's own calls do.
* A service that starts by itself on boot may run a mixed package after a crash in the middle of
  a copy; the next setup repairs it. An adapter that was created before its GUID is
  recorded (`update/tap_windows.go:272`) is reused by name and never removed.
* A paused release, not yet verified anywhere, whose target has left the metadata, blocks further imports
  (`control/updates.go:55-77`).

`OutcomesTrue` states what the code does keep: for one device in good standing and an
agent that is not held back by a required update, an outcome recorded before the
deadline is what became of the command, or its key was used up by a report.

## Not modelled

* Cryptography: signatures verify what was signed. Nebula is external to `Engine`: it accepts a
  handshake with any certificate of the room that has neither expired nor is on its blocklist.
* HTTP routing and decoding, static sites, GeoIP, package formats, the OpenAPI generator:
  conversions and files without a state that interacts.
* The game catalogue's editing and import, and telemetry: changed under one lock, by
  one writer, and nothing else decides by them.
* Player sessions and their scopes; the administrator's account and sessions; the connection
  of the event stream. Each has state worth modelling and is in the plan below.
* The parts of Windows setup that concern access lists, handles pinned against replacement,
  firewall rules and hardware identifiers: what an operating system allows, not what the code decides.
* The node host (`nlroom-node update`), a command run by hand, and the user interfaces.

The reasons per component are in `PROJECT.json` under `components`.

## Plan

Built: control plane (`AddressLease`, `RoomControl`, `Idempotency`, `NodeLifecycle`,
`OidcLogin`, `UpdateRollout`), agent (`CommandLedger`, `AgentNetwork`, and its sides of
the former), data plane (`Engine`, `LanDevice`, `Fragments`, `RelaySelection`), updates
(`UpdateJob`, `WindowsSetup`). What would come next, in this order:

1. What is between agent and data plane: that `AgentNetwork` starts, reloads and stops `Engine` only as the
   latter assumes.
2. Liveness of `NodeLifecycle`: that a configuration reaches a machine in good standing and
   that a revoked machine stops.
3. `EventStream` over the revisions that `RoomControl` raises; `AdminSession`; sessions of players.
4. The node host's update beside `UpdateJob`.
