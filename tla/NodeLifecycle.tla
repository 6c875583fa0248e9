--------------------------- MODULE NodeLifecycle ---------------------------
(***************************************************************************)
(* A relay or lighthouse node: its row in the control plane (`nodes`,      *)
(* `node_bindings`, `enrollment_keys`, `node_operations`, `node_configs`)  *)
(* and the agents on the machines that serve it, one per generation.       *)
(*                                                                         *)
(* The administrator creates the node, issues a key, edits the             *)
(* configuration and orders operations; every change raises the node's     *)
(* revision.  A machine enrolls once, then synchronizes every few seconds: *)
(* it reports the configuration it has applied and the results of          *)
(* operations, and is answered with the present row and the operations     *)
(* still open.  The agent checkpoints an operation on disk before it acts, *)
(* so that a crash neither repeats nor forgets a restart.                  *)
(*                                                                         *)
(* An operation is named by the revision it created, since each creates    *)
(* one.  Abstracted: names, regions and roles of a configuration (only the *)
(* port counts, because a new port needs the machine's operator), sessions *)
(* (a call logs in first, and authenticate checks the binding each time),  *)
(* the address of a binding (module AddressLease), and the clock: a key,   *)
(* an operation or a lease may end at any time.  Faults (calls that fail,  *)
(* saves that fail, crashes, keys, operations and leases that expire) are  *)
(* bounded by MaxFaults.                                                   *)
(***************************************************************************)
EXTENDS Integers, FiniteSets

CONSTANTS
  Machine,      \* state directories of node agents, with the identity made in each
  Key,          \* enrollment keys that may be issued
  Port,         \* UDP ports of configurations
  Orders,       \* operations the administrator gives in this instance
  MaxRevision,  \* bound on the node's revision, for model checking
  MaxFaults,    \* bound on faults, for model checking
  MaxLate,      \* bound on abandoned sync requests still under way
  Nobody

Rev == 1..MaxRevision
Generation == 1..MaxRevision
NoPort == 0
Task == {"none", "running", "succeeded", "failed"}
Open == {"pending", "running"}

ASSUME NodeAssumption ==
  /\ MaxRevision \in Nat \ {0} /\ MaxFaults \in Nat
  /\ Nobody \notin Machine /\ NoPort \notin Port

VARIABLES
  node,      \* row of nodes: state, generation, revision and report
  configs,   \* node_configs: the port of each revision, or NoPort
  keys,      \* enrollment_keys
  bindings,  \* node_bindings of each machine: generation (0: none), revoked
  ops,       \* node_operations, by revision
  certs,     \* machines with a certificate that is not revoked
  disk,      \* identity file and node-state.json of each machine
  mem,       \* Runtime.identity and Runtime.nodeState
  run,       \* where the step of each agent stands
  late,      \* sync requests whose sender no longer waits
  faults,    \* the faults so far
  done       \* history: how often an operation was carried out

server == <<node, configs, keys, bindings, ops, certs>>
agent == <<disk, mem, run, done>>
vars == <<server, agent, late, faults>>

NoOp == [action |-> "none", generation |-> 0, state |-> "none", expired |-> FALSE]
Fresh == [id |-> FALSE, generation |-> 0, applied |-> 0, config |-> NoPort,
          listen |-> NoPort, approved |-> 0, desired |-> 0, tasks |-> [o \in Rev |-> "none"]]
NoAnswer == [kind |-> "none"]
Idle == [pc |-> "idle", answer |-> NoAnswer,
         selected |-> 0, changed |-> FALSE, engine |-> FALSE, key |-> Nobody]

Saved == [id: BOOLEAN, generation: 0..MaxRevision, applied: 0..MaxRevision,
          config: Port \cup {NoPort}, listen: Port \cup {NoPort},
          approved: 0..MaxRevision, desired: 0..MaxRevision, tasks: [Rev -> Task]]
Request == [machine: Machine, generation: Generation, applied: 0..MaxRevision,
            config: Port \cup {NoPort}, tasks: [Rev -> Task]]

TypeOK ==
  /\ node \in [state: {"none", "pending", "active", "draining", "disabled", "revoked"},
               generation: Generation, revision: 0..MaxRevision,
               report: 0..MaxRevision]
  /\ configs \in [Rev -> Port \cup {NoPort}]
  /\ keys \in [Key -> [generation: 0..MaxRevision, revision: 0..MaxRevision,
                       usable: BOOLEAN, used: Machine \cup {Nobody}]]
  /\ bindings \in [Machine -> [generation: 0..MaxRevision, revoked: BOOLEAN]]
  /\ \A o \in Rev : ops[o].state \in Open \cup
       {"none", "succeeded", "failed", "expired", "superseded"}
  /\ certs \subseteq Machine
  /\ disk \in [Machine -> Saved] /\ mem \in [Machine -> Saved]
  /\ \A m \in Machine :
       run[m].pc \in {"idle", "proving", "registered", "sync", "take", "lease", "apply"}
  /\ late \subseteq Request
  /\ done \in [Rev -> 0..2] /\ faults \in 0..MaxFaults

Init ==
  /\ node = [state |-> "none", generation |-> 1, revision |-> 0, report |-> 0]
  /\ configs = [r \in Rev |-> NoPort]
  /\ keys = [k \in Key |-> [generation |-> 0, revision |-> 0, usable |-> FALSE,
                            used |-> Nobody]]
  /\ bindings = [m \in Machine |-> [generation |-> 0, revoked |-> FALSE]]
  /\ ops = [o \in Rev |-> NoOp]
  /\ certs = {}
  /\ disk = [m \in Machine |-> Fresh]
  /\ mem = disk
  /\ run = [m \in Machine |-> Idle]
  /\ late = {}
  /\ done = [o \in Rev |-> 0]
  /\ faults = 0

-----------------------------------------------------------------------------
(* The administrator. *)

Fault == faults < MaxFaults /\ faults' = faults + 1
Sound == UNCHANGED faults

\* The device of the node's binding that is not revoked.
Current(m) == bindings[m].generation # 0 /\ ~bindings[m].revoked
Served == \E m \in Machine : Current(m)

\* UPDATE enrollment_keys SET revoked=true WHERE consumed_by IS NULL
KeysRevoked == [k \in Key |-> IF keys[k].used = Nobody
                                THEN [keys[k] EXCEPT !.usable = FALSE] ELSE keys[k]]

\* createNode
Create(p) ==
  /\ node.state = "none"
  /\ node' = [node EXCEPT !.state = "pending", !.revision = 1]
  /\ configs' = [configs EXCEPT ![1] = p]
  /\ UNCHANGED <<keys, bindings, ops, certs, agent, late, faults>>

\* issueEnrollmentKey: earlier keys that were not used are revoked.
IssueKey(k) ==
  /\ node.state = "pending"
  /\ keys[k].generation = 0
  /\ keys' = [KeysRevoked EXCEPT ![k] =
                [generation |-> node.generation, revision |-> node.revision,
                 usable |-> TRUE, used |-> Nobody]]
  /\ UNCHANGED <<node, configs, bindings, ops, certs, agent, late, faults>>

KeyExpires(k) ==
  /\ keys[k].usable
  /\ Fault
  /\ keys' = [keys EXCEPT ![k].usable = FALSE]
  /\ UNCHANGED <<node, configs, bindings, ops, certs, agent, late>>

\* updateNode; the revision the administrator expects is the present one.
Configure(p) ==
  /\ node.state \notin {"none", "revoked"} /\ node.revision < MaxRevision
  /\ node' = [node EXCEPT !.revision = @ + 1]
  /\ configs' = [configs EXCEPT ![node.revision + 1] = p]
  /\ keys' = KeysRevoked
  /\ UNCHANGED <<bindings, ops, certs, agent, late, faults>>

\* The state an operation leads to, where nodeAction allows it.
Target(action) ==
  CASE action = "drain" -> "draining"
    [] action = "resume" -> "active"
    [] action = "disable" -> "disabled"
    [] action = "revoke" -> "revoked"
    [] action = "replace" -> "pending"
    [] OTHER -> node.state
Allowed(action) ==
  CASE action = "drain" -> node.state = "active"
    [] action = "resume" -> node.state \in {"disabled", "draining"}
    [] action = "disable" -> Served
    [] action = "restart" -> Served /\ node.state # "disabled"
    [] OTHER -> TRUE
Immediate == {"revoke", "replace", "revoke-key"}
Permanent == {"revoke", "replace"}

\* revokeNode: the certificates of the current device, and for good its binding.
CertsOfDisabled(action) ==
  IF action = "disable" THEN {m \in certs : bindings[m].revoked} ELSE certs
CertsRevoked(action) ==
  IF action \in {"disable"} \cup Permanent
    THEN {m \in certs : ~Current(m)} ELSE certs
BindingsRevoked(action) ==
  [m \in Machine |-> IF action \in Permanent /\ Current(m)
                       THEN [bindings[m] EXCEPT !.revoked = TRUE] ELSE bindings[m]]

\* nodeAction
Order(action) ==
  LET rev == node.revision + 1
      generation == IF action = "replace" THEN node.generation + 1 ELSE node.generation
  IN /\ node.state \notin {"none", "revoked"} /\ node.revision < MaxRevision
     /\ Allowed(action)
     /\ node' = [state |-> Target(action), generation |-> generation, revision |-> rev,
                 report |-> IF action = "replace" THEN 0 ELSE node.report]
     /\ configs' = [configs EXCEPT ![rev] = configs[node.revision]]
     /\ keys' = IF action = "restart" THEN keys ELSE KeysRevoked
     /\ certs' = CertsRevoked(action)
     /\ bindings' = BindingsRevoked(action)
     /\ ops' = [ops EXCEPT ![rev] =
                  [action |-> action, generation |-> generation, expired |-> FALSE,
                   state |-> IF action \in Immediate THEN "succeeded" ELSE "pending"]]
     /\ UNCHANGED <<agent, late, faults>>

\* The 24 hours of an operation are over, for the server and for the agents.
OperationExpires(o) ==
  /\ ops[o].state \in Open /\ ~ops[o].expired
  /\ ops' = [ops EXCEPT ![o].expired = TRUE]
  /\ Fault
  /\ UNCHANGED <<node, configs, keys, bindings, certs, agent, late>>

-----------------------------------------------------------------------------
(* What the agent's steps have in common. *)

Memory(m, s) == mem' = [mem EXCEPT ![m] = s]

\* saveNodeState: the file is replaced, or stays as it was.
Written(m, s) == disk' = [disk EXCEPT ![m] = s]
NotWritten == UNCHANGED disk

\* The error path of Run: running operations become failed, which is saved or not.
Failed(s) == [s EXCEPT !.tasks =
                [o \in Rev |-> IF s.tasks[o] = "running" THEN "failed" ELSE s.tasks[o]]]
Abort(m, s, stop) ==
  /\ Memory(m, Failed(s))
  /\ \/ Failed(s) # s /\ Written(m, Failed(s))
     \/ NotWritten
  /\ run' = [run EXCEPT ![m] = [Idle EXCEPT !.engine = run[m].engine /\ ~stop]]

\* nodeForDevice and the check of authenticate.
Authorized(m) ==
  /\ Current(m) /\ bindings[m].generation = node.generation
  /\ node.state # "revoked"

-----------------------------------------------------------------------------
(* Enrollment: EnrollNode, with r.op held. *)

Registered(m) == mem[m].generation # 0

\* The new identity is saved before anything is asked of the server.
MakeIdentity(m) ==
  /\ run[m].pc = "idle" /\ ~mem[m].id
  /\ Memory(m, [mem[m] EXCEPT !.id = TRUE])
  /\ disk' = [disk EXCEPT ![m].id = TRUE]
  /\ UNCHANGED <<server, run, done, late, faults>>

\* A key that challenge and completeEnrollment accept.
Usable(k) ==
  /\ keys[k].usable /\ keys[k].used = Nobody
  /\ keys[k].generation = node.generation /\ keys[k].revision = node.revision
  /\ node.state = "pending"

\* Authenticate finds no binding, and the key passes the challenge.
Challenge(m, k) ==
  /\ run[m].pc = "idle" /\ mem[m].id /\ ~Registered(m)
  /\ bindings[m].generation = 0
  /\ Usable(k)
  /\ run' = [run EXCEPT ![m].pc = "proving", ![m].key = k]
  /\ UNCHANGED <<server, disk, mem, done, late, faults>>

\* verify, completeEnrollment; the answer may be lost, and then EnrollNode fails.
Complete(m) ==
  /\ run[m].pc = "proving" /\ Usable(run[m].key)
  /\ keys' = [keys EXCEPT ![run[m].key].used = m]
  /\ bindings' = [bindings EXCEPT ![m] =
                    [generation |-> keys[run[m].key].generation, revoked |-> FALSE]]
  /\ node' = [node EXCEPT !.state = "active"]
  /\ \/ run' = [run EXCEPT ![m].pc = "registered", ![m].key = Nobody] /\ Sound
     \/ run' = [run EXCEPT ![m].pc = "idle", ![m].key = Nobody] /\ Fault
  /\ UNCHANGED <<configs, ops, certs, disk, mem, done, late>>

Refused(m) ==
  /\ run[m].pc = "proving"
  /\ IF Usable(run[m].key) THEN Fault ELSE Sound
  /\ run' = [run EXCEPT ![m].pc = "idle", ![m].key = Nobody]
  /\ UNCHANGED <<server, disk, mem, done, late>>

\* Authenticate recovers a registration that was committed earlier.
Recover(m) ==
  /\ run[m].pc = "idle" /\ mem[m].id /\ Authorized(m)
  /\ run' = [run EXCEPT ![m].pc = "registered"]
  /\ UNCHANGED <<server, disk, mem, done, late, faults>>

-----------------------------------------------------------------------------
(* Synchronization: SyncNode and prepareNode. *)

\* The report and the results, without those of expired operations.
RequestOf(m) ==
  [machine |-> m, generation |-> mem[m].generation,
   applied |-> mem[m].applied, config |-> mem[m].config,
   tasks |-> [o \in Rev |-> IF ops[o].expired THEN "none" ELSE mem[m].tasks[o]]]

\* The applied configuration must be one of the node's revisions, word for word.
ReportValid(q) ==
  /\ q.applied <= node.revision
  /\ IF q.applied > 0 THEN q.config = configs[q.applied] ELSE q.config = NoPort

\* Whether the UPDATE of a result finds its row.
ResultTakenAgain(q, o) == q.tasks[o] # "none" /\ ops[o].generation = node.generation
ResultTaken(q, o) ==
  /\ q.tasks[o] # "none"
  /\ ops[o].generation = node.generation /\ ops[o].state \in Open /\ ~ops[o].expired
  /\ q.tasks[o] = "succeeded" => o <= q.applied

\* The three UPDATEs of SyncNode: results, expiry, and what the report supersedes.
Settled(q, o) ==
  LET op == IF ResultTaken(q, o) THEN [ops[o] EXCEPT !.state = q.tasks[o]] ELSE ops[o]
  IN IF op.state \in Open /\ (op.expired \/ op.generation # node.generation)
       THEN [op EXCEPT !.state = "expired"]
     ELSE IF op.state = "pending" /\ o < q.applied /\ op.action # "restart"
       THEN [op EXCEPT !.state = "superseded"]
     ELSE op

\* SyncNode commits.
Commit(q) ==
  /\ Authorized(q.machine) /\ q.generation = node.generation
  /\ ReportValid(q)
  /\ ops' = [o \in Rev |-> Settled(q, o)]
  /\ node' = [node EXCEPT !.report = q.applied]
  /\ UNCHANGED <<configs, keys, bindings, certs>>

\* The row and the open operations, as the transaction leaves them.
AnswerTo(q) ==
  [kind |-> "node", state |-> node.state, revision |-> node.revision,
   open |-> {o \in Rev : /\ ops'[o].state \in Open /\ ~ops'[o].expired
                         /\ ops'[o].generation = node.generation}]

\* A request and its answer, on its way to the agent.
Sync(m) ==
  LET q == RequestOf(m) IN
  /\ run[m].pc = "idle" /\ Registered(m)
  /\ Commit(q)
  /\ run' = [run EXCEPT ![m].pc = "sync", ![m].answer = AnswerTo(q)]
  /\ UNCHANGED <<disk, mem, done, late, faults>>

\* The call is answered with an error.
SyncRefused(m) ==
  /\ run[m].pc = "idle" /\ Registered(m)
  /\ ~Authorized(m) \/ ~ReportValid(RequestOf(m))
  /\ run[m].engine \/ Failed(mem[m]) # mem[m]
  /\ Abort(m, mem[m], ~Authorized(m))
  /\ UNCHANGED <<server, done, late, faults>>

\* The call fails before it is answered: the request is lost, or arrives later.
\* One that CallResult sends again after it was executed is such a request too.
SyncLost(m) ==
  /\ run[m].pc = "idle" /\ Registered(m)
  /\ Fault
  /\ Abort(m, mem[m], FALSE)
  /\ Cardinality(late) < MaxLate
  /\ late' \in {late, late \cup {RequestOf(m)}}
  /\ UNCHANGED <<server, done>>

\* The call is executed, its answer is lost.
AnswerLost(m) ==
  /\ run[m].pc = "sync"
  /\ Fault
  /\ Abort(m, mem[m], FALSE)
  /\ UNCHANGED <<server, done, late>>

HandleLate(q) ==
  /\ q \in late
  /\ late' = late \ {q}
  /\ Commit(q)
  /\ UNCHANGED <<agent, faults>>

\* Terminal results that were sent are settled; expired operations are forgotten.
Acknowledged(m) ==
  [o \in Rev |-> IF mem[m].tasks[o] \in {"succeeded", "failed"} \/ ops[o].expired
                   THEN "none" ELSE mem[m].tasks[o]]

\* A port other than the one listened on, or approved, waits for the operator.
NeedsListening(s, rev) == s.listen # configs[rev]
NeedsApproval(s, rev) ==
  \/ s.listen # configs[rev]
  \/ s.applied # 0 /\ s.config # configs[rev] /\ s.approved # rev

\* prepareNode, up to the operations: the answer becomes the desired state, and the
\* old configuration stays selected while a new port is not approved.
Received(m) ==
  LET a == run[m].answer IN
  [mem[m] EXCEPT !.tasks = Acknowledged(m), !.desired = a.revision,
                 !.listen = IF @ = NoPort THEN configs[a.revision] ELSE @]
Receive(m) ==
  LET rev == run[m].answer.revision
      s == Received(m)
  IN /\ run[m].pc = "sync"
     /\ \/ /\ NeedsApproval(s, rev) /\ s.applied = 0
           /\ run' = [run EXCEPT ![m].pc = "idle", ![m].answer = NoAnswer]
           /\ Memory(m, Failed(s))
           /\ \/ Written(m, Failed(s)) /\ Sound
              \/ NotWritten /\ Fault
        \/ /\ ~(NeedsApproval(s, rev) /\ s.applied = 0)
           /\ run' = [run EXCEPT ![m].pc = "take", ![m].changed = s # mem[m],
                        ![m].selected = IF NeedsApproval(s, rev) THEN s.applied ELSE rev]
           /\ Memory(m, s) /\ NotWritten /\ Sound
     /\ UNCHANGED <<server, done, late>>

\* Operations of the answer that the agent has not seen.
ToTake(m) ==
  {o \in run[m].answer.open : mem[m].tasks[o] = "none" /\ ~ops[o].expired}

\* The checkpoint of an operation is saved before the engine is stopped for it; a
\* crash in between restarts the engine all the same.
Take(m, o) ==
  LET s == [mem[m] EXCEPT !.tasks[o] = "running"]
      restart == ops[o].action = "restart"
  IN /\ run[m].pc = "take" /\ o \in ToTake(m) /\ \A p \in ToTake(m) : o <= p
     /\ \/ /\ Memory(m, s) /\ Written(m, s) /\ Sound
           /\ run' = [run EXCEPT ![m].engine = @ /\ ~restart]
           /\ done' = [done EXCEPT ![o] = IF restart /\ @ < 2 THEN @ + 1 ELSE @]
        \/ /\ Memory(m, s) /\ Written(m, s) /\ Fault
           /\ restart
           /\ run' = [run EXCEPT ![m] = Idle]
           /\ done' = [done EXCEPT ![o] = IF @ < 2 THEN @ + 1 ELSE @]
        \/ /\ Abort(m, s, FALSE) /\ Fault
           /\ UNCHANGED done
     /\ UNCHANGED <<server, late>>

\* What nodeApplied must not do: forget which revision was selected.
AppliedAll(m) ==
  [mem[m] EXCEPT !.applied = run[m].selected,
                 !.config = configs[run[m].selected],
                 !.tasks = [o \in Rev |->
                   IF mem[m].tasks[o] = "running" THEN "succeeded" ELSE mem[m].tasks[o]]]
AppliedDesired(m) ==
  [mem[m] EXCEPT !.applied = mem[m].desired,
                 !.config = configs[run[m].selected]]

\* nodeApplied: the selected configuration is the applied one, and the operations
\* up to its revision have succeeded.
Applied(m) ==
  [mem[m] EXCEPT !.applied = run[m].selected,
                 !.config = configs[run[m].selected],
                 !.tasks = [o \in Rev |->
                   IF mem[m].tasks[o] = "running" /\ o <= run[m].selected
                     THEN "succeeded" ELSE mem[m].tasks[o]]]

\* The rest of prepareNode: what changed is saved.
Prepared(m) ==
  /\ run[m].pc = "take" /\ ToTake(m) = {}
  /\ \/ /\ IF run[m].changed THEN Written(m, mem[m]) ELSE NotWritten
        /\ run' = [run EXCEPT ![m].pc = "lease", ![m].changed = FALSE]
        /\ UNCHANGED mem /\ Sound
     \/ run[m].changed /\ Abort(m, mem[m], FALSE) /\ Fault
  /\ UNCHANGED <<server, done, late>>

\* What nodeApplied carries out, for the history.
Carried(m) ==
  [o \in Rev |-> IF /\ mem[m].tasks[o] = "running" /\ o <= run[m].selected
                    /\ ops[o].action # "restart"
                   THEN 1 ELSE done[o]]

\* A disabled node stops its engine and has then applied what it was told.
Disabled(m) ==
  /\ run[m].pc = "lease" /\ run[m].answer.state = "disabled"
  /\ \/ /\ Memory(m, Applied(m)) /\ Written(m, Applied(m)) /\ Sound
        /\ run' = [run EXCEPT ![m].pc = "idle", ![m].answer = NoAnswer,
                              ![m].engine = FALSE]
     \/ Abort(m, Applied(m), TRUE) /\ Fault
  /\ done' = Carried(m)
  /\ UNCHANGED <<server, late>>

\* nodeLease and issueLease, for the selected revision.
LeaseGranted(m) ==
  Authorized(m) /\ node.state \in {"active", "draining"}
Leasing(m) == run[m].pc = "lease" /\ run[m].answer.state # "disabled"
NodeLease(m) ==
  /\ Leasing(m) /\ LeaseGranted(m)
  /\ certs' = certs \cup {m}
  /\ run' = [run EXCEPT ![m].pc = "apply", ![m].answer = NoAnswer]
  /\ UNCHANGED <<node, configs, keys, bindings, ops, disk, mem, done, late, faults>>

\* A lease that is still good is not renewed.
LeaseKept(m) ==
  /\ Leasing(m) /\ run[m].engine
  /\ run' = [run EXCEPT ![m].pc = "apply", ![m].answer = NoAnswer]
  /\ UNCHANGED <<server, disk, mem, done, late, faults>>

LeaseFails(m) ==
  /\ Leasing(m)
  /\ \/ ~LeaseGranted(m) /\ Abort(m, mem[m], TRUE) /\ Sound
     \/ Abort(m, mem[m], FALSE) /\ Fault
  /\ UNCHANGED <<server, done, late>>

\* engine.Apply, nodeApplied.
Apply(m) ==
  /\ run[m].pc = "apply"
  /\ Memory(m, Applied(m))
  /\ IF Applied(m) # mem[m] THEN Written(m, Applied(m)) ELSE NotWritten
  /\ run' = [run EXCEPT ![m].pc = "idle", ![m].engine = TRUE]
  /\ done' = Carried(m)
  /\ UNCHANGED <<server, late, faults>>

\* The engine does not start, or the file is not saved.
ApplyFails(m) ==
  /\ run[m].pc = "apply"
  /\ Fault
  /\ \/ Abort(m, mem[m], FALSE) /\ UNCHANGED done
     \/ /\ Memory(m, Applied(m)) /\ NotWritten
        /\ run' = [run EXCEPT ![m].pc = "idle", ![m].engine = TRUE]
        /\ done' = Carried(m)
  /\ UNCHANGED <<server, late>>

-----------------------------------------------------------------------------
(* The end of enrollment, which synchronizes once. *)

\* The first report: nothing applied, engine stopped, no results.
FirstReport(m) ==
  [machine |-> m, generation |-> bindings[m].generation, applied |-> 0, config |-> NoPort,
   tasks |-> [o \in Rev |-> "none"]]

\* The binding is saved, the first report is sent, and its answer is the desired state.
Register(m) ==
  /\ run[m].pc = "registered"
  /\ LET s == [mem[m] EXCEPT !.generation = bindings[m].generation]
         d == [s EXCEPT !.desired = node.revision]
         bound == Written(m, [disk[m] EXCEPT !.generation = s.generation])
     IN \/ Fault /\ UNCHANGED <<mem, disk, server>>
        \/ /\ Memory(m, s) /\ bound
           /\ UNCHANGED server
           /\ IF Authorized(m) THEN Fault ELSE Sound
        \/ /\ Commit(FirstReport(m))
           /\ \/ Memory(m, s) /\ bound /\ Fault
              \/ Memory(m, d) /\ Written(m, d) /\ Sound
              \/ Memory(m, d) /\ bound /\ Fault
  /\ run' = [run EXCEPT ![m].pc = "idle"]
  /\ UNCHANGED <<certs, done, late>>

-----------------------------------------------------------------------------
(* What else happens on a machine. *)

\* ApplyNodeConfig: the machine's operator accepts the port of the desired revision.
Approve(m) ==
  /\ run[m].pc = "idle" /\ mem[m].desired # 0
  /\ LET s == [mem[m] EXCEPT !.approved = mem[m].desired,
                             !.listen = configs[mem[m].desired]]
     IN /\ s # mem[m] /\ Memory(m, s)
        /\ \/ Written(m, s) /\ Sound
           \/ NotWritten /\ Fault
  /\ UNCHANGED <<server, run, done, late>>

\* The expiry ticker finds the lease over, or the operator restarts the network.
EngineStops(m) ==
  /\ run[m].engine
  /\ run' = [run EXCEPT ![m].engine = FALSE]
  /\ Fault
  /\ UNCHANGED <<server, disk, mem, done, late>>

Crash(m) ==
  /\ run[m] # Idle \/ mem[m] # disk[m]
  /\ Fault
  /\ mem' = [mem EXCEPT ![m] = disk[m]]
  /\ run' = [run EXCEPT ![m] = Idle]
  /\ UNCHANGED <<server, disk, done, late>>

Administrator ==
  \/ \E p \in Port : Create(p) \/ Configure(p)
  \/ \E k \in Key : IssueKey(k) \/ KeyExpires(k)
  \/ \E action \in Orders : Order(action)
  \/ \E o \in Rev : OperationExpires(o)

Agent(m) ==
  \/ MakeIdentity(m) \/ Complete(m) \/ Refused(m) \/ Recover(m) \/ Register(m)
  \/ \E k \in Key : Challenge(m, k)
  \/ Sync(m) \/ SyncRefused(m) \/ SyncLost(m) \/ AnswerLost(m) \/ Receive(m)
  \/ \E o \in Rev : Take(m, o)
  \/ Disabled(m) \/ Prepared(m) \/ NodeLease(m) \/ LeaseKept(m) \/ LeaseFails(m)
  \/ Apply(m) \/ ApplyFails(m)
  \/ Approve(m) \/ EngineStops(m) \/ Crash(m)

Next ==
  \/ Administrator
  \/ \E m \in Machine : Agent(m)
  \/ \E q \in late : HandleLate(q)

Spec == Init /\ [][Next]_vars

-----------------------------------------------------------------------------

\* The node's state and its bindings tell the same story, through every order of
\* enrolling, replacing, disabling and resuming: at most one device is current, it
\* is of the present generation, a node that serves has one and a pending or revoked
\* node none; and only the device of a node in service has a certificate that is
\* not revoked, though leases, reports and orders cross.
Standing ==
  /\ \A m, n \in Machine : Current(m) /\ Current(n) => m = n
  /\ \A m \in Machine : Current(m) => bindings[m].generation = node.generation
  /\ Served <=> node.state \in {"active", "draining", "disabled"}
  /\ \A m \in certs : Current(m) /\ node.state \in {"active", "draining"}

\* A key enrolls one device, for the generation it was issued for, and the private
\* key of a device that the server has bound is on that machine's disk: otherwise a
\* crash in the middle of EnrollNode would lose the generation.
Enrolled ==
  /\ \A k \in Key : keys[k].used # Nobody =>
       bindings[keys[k].used].generation = keys[k].generation
  /\ \A m, n \in Machine : bindings[m].generation # 0 /\ m # n =>
       bindings[m].generation # bindings[n].generation
  /\ \A m \in Machine : bindings[m].generation # 0 =>
       /\ disk[m].id
       /\ disk[m].generation \in {0, bindings[m].generation}

NodeInv == TypeOK /\ Standing /\ Enrolled

\* An operation recorded as succeeded was carried out: the engine was stopped for a
\* restart, the configuration of a drain, resume or disable was applied.  And a
\* restart is not carried out twice, whatever is lost, late or crashes: the
\* checkpoint of prepareNode and its deletion after the acknowledgement see to that.
OutcomesTrue ==
  \A o \in Rev :
    /\ ops[o].state = "succeeded" /\ ops[o].action \notin Immediate => done[o] > 0
    /\ done[o] < 2

\* The report of a machine in good standing is never refused: the applied revision
\* and configuration that survive on its disk are always those of one revision of
\* the node (SyncNode answers node_applied_config_invalid otherwise, for ever).
ReportsAccepted ==
  /\ \A m \in Machine : Registered(m) /\ Authorized(m) => ReportValid(RequestOf(m))
  /\ \A q \in late : Authorized(q.machine) => ReportValid(q)

\* The port a machine uses changes only to one that its operator approved at that
\* very revision, also when edits, approvals, crashes and failed saves interleave;
\* or a crash takes it back to what its disk says.
PortStep ==
  \A m \in Machine :
    mem[m].applied # 0 /\ mem'[m].config # mem[m].config =>
      mem'[m].approved = mem'[m].applied \/ mem'[m] = disk[m]
PortApproved == [][PortStep]_vars

\* What has ended stays ended: a terminal operation is not reopened by a late copy,
\* a revoked binding is not restored, a revoked node does not come back.
EndsStep ==
  /\ \A o \in Rev : ops[o].state \notin Open \cup {"none"} => ops'[o].state = ops[o].state
  /\ \A m \in Machine : bindings[m].revoked => bindings'[m] = bindings[m]
  /\ node.state = "revoked" => node'.state = "revoked"
EndsAreFinal == [][EndsStep]_vars
=============================================================================
