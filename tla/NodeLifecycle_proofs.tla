------------------------ MODULE NodeLifecycle_proofs ------------------------
(***************************************************************************)
(* Proofs about module NodeLifecycle, for every set of machines, keys,     *)
(* ports and orders and every bound on revisions, faults and late calls.   *)
(*                                                                         *)
(* The invariant has two halves.  Bound says who is who: the rows of the   *)
(* control plane agree with each other, and each machine's memory and disk *)
(* with the binding that the control plane has for it.  Told says what the *)
(* agents know: every saved state (in memory and on disk, since a crash    *)
(* exchanges them) names a revision as it was configured and tasks of its  *)
(* own generation that were carried out if they say so; a restart that was *)
(* carried out is still remembered or can no longer be ordered; and in the *)
(* middle of a step the answer, the selected revision and the state in     *)
(* memory fit together.                                                    *)
(*                                                                         *)
(* A step moves the control plane, one machine, or both.  What a step of   *)
(* the control plane may do without disturbing an agent is Evolves; that   *)
(* the other machines know what they knew is MoveTold and ServerTold.  The *)
(* lemmas AgentMoves, CarryMoves, BothMove and AdministratorMoves sum this *)
(* up, and each action is one application of one of them.                  *)
(***************************************************************************)
EXTENDS NodeLifecycle, TLAPS

-----------------------------------------------------------------------------
(* The invariant.                                                          *)

State == {"none", "pending", "active", "draining", "disabled", "revoked"}
OpState == Open \cup {"none", "succeeded", "failed", "expired", "superseded"}
Op == [action : Orders \cup {"none"}, generation : 0..MaxRevision, state : OpState,
       expired : BOOLEAN]
KeyRow == [generation : 0..MaxRevision, revision : 0..MaxRevision, usable : BOOLEAN,
           used : Machine \cup {Nobody}]
Binding == [generation : 0..MaxRevision, revoked : BOOLEAN]
Answer == [kind : {"node"}, state : State, revision : Rev, open : SUBSET Rev]
Pc == {"idle", "proving", "registered", "sync", "take", "lease", "apply"}
Thread == [pc : Pc, answer : Answer \cup {NoAnswer}, selected : 0..MaxRevision,
           changed : BOOLEAN, engine : BOOLEAN, key : Key \cup {Nobody}]

\* A thread has the answer and the key that it works with.
ThreadTyped(t) ==
  /\ t.pc \in {"sync", "take", "lease"} => t.answer \in Answer
  /\ t.pc = "proving" => t.key \in Key

\* The types, of the whole records.
Typed ==
  /\ node \in [state : State, generation : Generation, revision : 0..MaxRevision,
               report : 0..MaxRevision]
  /\ configs \in [Rev -> Port \cup {NoPort}]
  /\ keys \in [Key -> KeyRow] /\ bindings \in [Machine -> Binding] /\ ops \in [Rev -> Op]
  /\ certs \subseteq Machine
  /\ disk \in [Machine -> Saved] /\ mem \in [Machine -> Saved]
  /\ run \in [Machine -> Thread]
  /\ \A m \in Machine : ThreadTyped(run[m])
  /\ late \subseteq Request
  /\ done \in [Rev -> 0..2] /\ faults \in 0..MaxFaults

\* The node's row keeps pace with its bindings, keys and operations.
RowOK ==
  /\ IF node.state = "none" THEN node.revision = 0 /\ node.generation = 1
     ELSE node.generation <= node.revision
  /\ \A m \in Machine :
       /\ bindings[m].generation <= node.generation
       /\ node.state \in {"none", "pending"} => bindings[m].generation # node.generation
       /\ bindings[m].revoked => bindings[m].generation # 0
  /\ \A k \in Key : keys[k].used # Nobody => keys[k].generation # 0
  /\ \A o \in Rev : /\ ops[o].generation <= node.generation
                    /\ o > node.revision => ops[o] = NoOp

\* Memory and disk agree on who the machine is, and the server's binding is that.
IdentityOK(m) ==
  /\ mem[m].id = disk[m].id /\ mem[m].generation = disk[m].generation
  /\ mem[m].generation \in {0, bindings[m].generation}
  /\ run[m].pc = "proving" => mem[m].id /\ bindings[m].generation = 0
  /\ run[m].pc = "registered" => bindings[m].generation # 0

Bound == Typed /\ Standing /\ Enrolled /\ RowOK /\ \A m \in Machine : IdentityOK(m)

\* An operation that no agent will be told of any more.
Closed(o) == ops[o].state \notin Open \/ ops[o].expired \/ ops[o].generation # node.generation

\* A saved state: a revision as it was applied, tasks of this generation that were
\* carried out if they say so, and no restart forgotten while it may come again.
StateOK(s) ==
  /\ s.applied <= node.revision /\ s.desired <= node.revision
  /\ s.config = IF s.applied > 0 THEN configs[s.applied] ELSE NoPort
  /\ \A o \in Rev : s.tasks[o] # "none" =>
       /\ s.generation # 0 /\ ops[o].generation = s.generation
       /\ s.tasks[o] = "succeeded" => o <= s.applied /\ done[o] > 0
       /\ s.tasks[o] = "running" /\ ops[o].action = "restart" => done[o] > 0
  /\ \A o \in Rev :
       /\ ops[o].action = "restart" /\ done[o] > 0
       /\ ops[o].generation = s.generation /\ s.tasks[o] = "none"
       => Closed(o)

\* The same of a request under way.
RequestOK(q) ==
  /\ q.applied <= node.revision
  /\ q.config = IF q.applied > 0 THEN configs[q.applied] ELSE NoPort
  /\ \A o \in Rev : q.tasks[o] = "succeeded" => done[o] > 0

\* What an agent with state s knows in the middle of a step t.
ThreadOK(s, t) ==
  /\ t.pc \in {"sync", "take", "lease", "apply"} => s.generation # 0
  /\ t.pc \in {"sync", "take", "lease"} => t.answer.revision <= node.revision
  /\ t.pc = "sync" =>
       /\ s.applied <= t.answer.revision
       /\ \A o \in Rev : s.tasks[o] \in {"succeeded", "failed"} =>
            Closed(o) /\ o \notin t.answer.open
  /\ t.pc \in {"sync", "take"} => \A o \in t.answer.open :
       /\ ops[o].generation = s.generation
       /\ ops[o].action = "restart" /\ s.tasks[o] = "none" /\ ~ops[o].expired => done[o] = 0
  /\ t.pc \in {"take", "lease", "apply"} =>
       /\ t.selected \in 1..node.revision /\ s.applied <= t.selected
       /\ t.selected = s.applied \/ ~NeedsApproval(s, t.selected)

\* What was carried out was so by a machine that has the operation's generation, and
\* what is recorded as succeeded was carried out.
Owned(o) ==
  \E m \in Machine : mem[m].generation # 0 /\ ops[o].generation = mem[m].generation
HistoryOK ==
  \A o \in Rev :
    /\ done[o] < 2
    /\ done[o] > 0 => Owned(o)
    /\ ops[o].state = "succeeded" /\ ops[o].action \notin Immediate => done[o] > 0

Told ==
  /\ \A m \in Machine : StateOK(mem[m]) /\ StateOK(disk[m])
                       /\ ThreadOK(mem[m], run[m])
  /\ \A q \in late : RequestOK(q)
  /\ HistoryOK

-----------------------------------------------------------------------------
(* Saved states.                                                           *)

\* The fields of a saved state.
LEMMA SavedFields ==
  ASSUME NEW s \in Saved
  PROVE  /\ s.id \in BOOLEAN /\ s.generation \in 0..MaxRevision /\ s.applied \in 0..MaxRevision
         /\ s.config \in Port \cup {NoPort} /\ s.listen \in Port \cup {NoPort}
         /\ s.approved \in 0..MaxRevision /\ s.desired \in 0..MaxRevision
         /\ s.tasks \in [Rev -> Task]
BY DEF Saved

\* The error path turns running operations into failed ones and leaves the rest.
LEMMA FailedIs ==
  ASSUME NEW s \in Saved
  PROVE  /\ Failed(s) \in Saved
         /\ Failed(s).id = s.id /\ Failed(s).generation = s.generation
         /\ Failed(s).applied = s.applied /\ Failed(s).config = s.config
         /\ Failed(s).listen = s.listen /\ Failed(s).approved = s.approved
         /\ Failed(s).desired = s.desired
         /\ \A o \in Rev : Failed(s).tasks[o] =
              IF s.tasks[o] = "running" THEN "failed" ELSE s.tasks[o]
<1>1. [o \in Rev |-> IF s.tasks[o] = "running" THEN "failed" ELSE s.tasks[o]] \in [Rev -> Task]
  BY SavedFields DEF Task
<1> QED  BY <1>1, SavedFields DEF Failed, Saved

\* A state that is in order stays so on the error path.
LEMMA FailedOK ==
  ASSUME NEW s \in Saved, StateOK(s)
  PROVE  StateOK(Failed(s))
<1> DEFINE f == Failed(s)
<1>1. /\ f.applied = s.applied /\ f.desired = s.desired /\ f.config = s.config
      /\ f.generation = s.generation
      /\ \A o \in Rev : f.tasks[o] = IF s.tasks[o] = "running" THEN "failed" ELSE s.tasks[o]
  BY FailedIs
<1> HIDE DEF f
<1>2. StateOK(f)
  BY <1>1 DEF StateOK
<1> QED  BY <1>2 DEF f

\* Two machines that have a generation do not have the same.
LEMMA OneMachine ==
  ASSUME Bound, NEW m \in Machine, NEW n \in Machine, mem[m].generation # 0,
         mem[m].generation = mem[n].generation
  PROVE  m = n
BY DEF Bound, IdentityOK, Enrolled

-----------------------------------------------------------------------------
(* What a step may do without disturbing what the agents know.             *)

\* The row, the configurations and the operations only move on.
Evolves ==
  /\ node'.revision \in Nat /\ node'.revision >= node.revision
  /\ \A r \in 1..node.revision : configs'[r] = configs[r]
  /\ \A o \in Rev : ops[o].generation # 0 =>
       /\ ops'[o].generation = ops[o].generation /\ ops'[o].action = ops[o].action
       /\ ops[o].expired => ops'[o].expired
       /\ Closed(o) => Closed(o)'

\* What has been carried out stays so, and what is carried out for the first time is by
\* a machine of the operation's generation, if by one at all.
Lasts == \A o \in Rev : /\ done'[o] \in 0..1
                        /\ done[o] > 0 => done'[o] > 0
                        /\ done'[o] > 0 => ops[o].generation # 0
Untouched(g) == \A o \in Rev : g # 0 /\ ops[o].generation = g => done'[o] = done[o]

\* A saved state stays in order.
LEMMA StateStays ==
  ASSUME Bound, Evolves, Lasts, NEW s \in Saved, Untouched(s.generation), StateOK(s)
  PROVE  StateOK(s)'
<1>1. /\ s.applied \in 0..MaxRevision /\ s.desired \in 0..MaxRevision
      /\ node.revision \in 0..MaxRevision
      /\ s.applied <= node.revision /\ s.desired <= node.revision
  BY SavedFields DEF Bound, Typed, StateOK
<1>2. s.applied <= node'.revision /\ s.desired <= node'.revision
  BY <1>1, NodeAssumption DEF Evolves
<1>3. s.config = IF s.applied > 0 THEN configs'[s.applied] ELSE NoPort
  BY <1>1, NodeAssumption DEF Evolves, StateOK
<1>4. \A o \in Rev : s.tasks[o] # "none" =>
        /\ s.generation # 0 /\ ops'[o].generation = s.generation
        /\ s.tasks[o] = "succeeded" => o <= s.applied /\ done'[o] > 0
        /\ s.tasks[o] = "running" /\ ops'[o].action = "restart" => done'[o] > 0
  BY DEF StateOK, Evolves, Lasts
<1>5. ASSUME NEW o \in Rev, ops'[o].action = "restart", done'[o] > 0,
             ops'[o].generation = s.generation, s.tasks[o] = "none"
      PROVE  Closed(o)'
  <2>1. ops[o].generation # 0 /\ ops[o].action = "restart" /\ ops[o].generation = s.generation
    BY <1>5 DEF Lasts, Evolves
  <2>2. done[o] > 0
    BY <1>5, <2>1 DEF Untouched
  <2> QED  BY <1>5, <2>1, <2>2 DEF StateOK, Evolves
<1> QED  BY <1>2, <1>3, <1>4, <1>5 DEF StateOK

\* So does what an agent knows in the middle of a step.
LEMMA ThreadStays ==
  ASSUME Bound, Evolves, Lasts, NEW s \in Saved, Untouched(s.generation), StateOK(s),
         NEW t \in Thread, ThreadTyped(t), ThreadOK(s, t)
  PROVE  ThreadOK(s, t)'
<1>1. CASE t.pc \notin {"sync", "take", "lease", "apply"}
  BY <1>1 DEF ThreadOK
<1>2. CASE t.pc \in {"sync", "take", "lease", "apply"}
  <2>1. s.generation # 0 /\ node.revision \in 0..MaxRevision
    BY <1>2 DEF ThreadOK, Bound, Typed
  <2>2. t.pc \in {"sync", "take", "lease"} =>
          /\ t.answer.revision \in Rev /\ t.answer.open \subseteq Rev
          /\ t.answer.revision <= node'.revision
    BY <2>1, NodeAssumption DEF ThreadOK, ThreadTyped, Answer, Rev, Evolves
  <2>3. t.pc = "sync" => \A o \in Rev : s.tasks[o] \in {"succeeded", "failed"} => Closed(o)'
    BY <2>1 DEF ThreadOK, StateOK, Evolves
  <2>4. t.pc \in {"sync", "take"} => \A o \in t.answer.open :
          /\ ops'[o].generation = s.generation
          /\ ops'[o].action = "restart" /\ s.tasks[o] = "none" /\ ~ops'[o].expired => done'[o] = 0
    BY <2>1, <2>2 DEF ThreadOK, Evolves, Untouched
  <2>5. t.pc \in {"take", "lease", "apply"} =>
          /\ t.selected \in 1..node'.revision
          /\ configs'[t.selected] = configs[t.selected]
    BY <2>1, NodeAssumption DEF ThreadOK, Evolves
  <2> QED  BY <2>1, <2>2, <2>3, <2>4, <2>5 DEF ThreadOK, NeedsApproval
<1> QED  BY <1>1, <1>2

\* And a request on its way.
LEMMA RequestStays ==
  ASSUME Bound, Evolves, Lasts, NEW q \in Request, RequestOK(q)
  PROVE  RequestOK(q)'
<1>1. /\ q.applied \in 0..MaxRevision /\ node.revision \in 0..MaxRevision
      /\ q.applied <= node.revision
  BY DEF Bound, Typed, RequestOK, Request
<1>2. q.applied <= node'.revision
  BY <1>1, NodeAssumption DEF Evolves
<1>3. q.config = IF q.applied > 0 THEN configs'[q.applied] ELSE NoPort
  BY <1>1, NodeAssumption DEF Evolves, RequestOK
<1>4. \A o \in Rev : q.tasks[o] = "succeeded" => done'[o] > 0
  BY DEF Lasts, RequestOK
<1> QED  BY <1>2, <1>3, <1>4 DEF RequestOK

\* What is recorded as succeeded was carried out.
Honest == \A o \in Rev :
  ops[o].state = "succeeded" /\ ops[o].action \notin Immediate => done[o] > 0

\* One machine moves to the states s and d and the step t.
Moves(m, s, d, t) ==
  /\ mem' = [mem EXCEPT ![m] = s] /\ disk' = [disk EXCEPT ![m] = d]
  /\ run' = [run EXCEPT ![m] = t]

\* The others know what they knew.
LEMMA MoveTold ==
  ASSUME Bound, Told, Evolves, Lasts, Honest', NEW m \in Machine,
         \A o \in Rev : done'[o] = done[o] \/
           (mem[m].generation # 0 /\ ops[o].generation = mem[m].generation),
         NEW s \in Saved, NEW d \in Saved, NEW t \in Thread, Moves(m, s, d, t),
         mem[m].generation # 0 => s.generation = mem[m].generation,
         StateOK(s)', StateOK(d)', ThreadOK(s, t)',
         \A q \in late' : q \in late \/ RequestOK(q)'
  PROVE  Told'
<1>1. /\ mem \in [Machine -> Saved] /\ disk \in [Machine -> Saved] /\ run \in [Machine -> Thread]
      /\ late \subseteq Request
  BY DEF Bound, Typed
<1>2. /\ mem'[m] = s /\ disk'[m] = d /\ run'[m] = t
      /\ \A n \in Machine : n # m => mem'[n] = mem[n] /\ disk'[n] = disk[n] /\ run'[n] = run[n]
  BY <1>1 DEF Moves
<1>3. ASSUME NEW n \in Machine
      PROVE  StateOK(mem[n])' /\ StateOK(disk[n])' /\ ThreadOK(mem[n], run[n])'
  <2>1. CASE n = m
    BY <2>1, <1>2 DEF StateOK, ThreadOK
  <2>2. CASE n # m
    <3> DEFINE sn == mem[n]  dn == disk[n]  tn == run[n]
    <3>1. sn' = sn /\ dn' = dn /\ tn' = tn
      BY <2>2, <1>2
    <3>2. PICK x \in Saved, y \in Saved, z \in Thread : x = mem[n] /\ y = disk[n] /\ z = run[n]
      BY <1>1
    <3>3. Untouched(x.generation) /\ y.generation = x.generation
      BY <2>2, <3>2, OneMachine DEF Untouched, Bound, IdentityOK
    <3>4. StateOK(x)' /\ StateOK(y)' /\ ThreadOK(x, z)'
      <4>1. StateOK(x) /\ StateOK(y) /\ ThreadOK(x, z) /\ ThreadTyped(z)
        BY <3>2 DEF Told, Bound, Typed
      <4> QED  BY <4>1, <3>3, StateStays, ThreadStays
    <3> QED  BY <3>1, <3>2, <3>4 DEF StateOK, ThreadOK
  <2> QED  BY <2>1, <2>2
<1>4. ASSUME NEW q \in late'
      PROVE  RequestOK(q)'
  <2>1. CASE q \in late
    <3>1. q \in Request /\ RequestOK(q)
      BY <2>1, <1>1 DEF Told
    <3> QED  BY <3>1, RequestStays
  <2> QED  BY <2>1
<1>5. ASSUME NEW o \in Rev
      PROVE  done'[o] < 2 /\ (done'[o] > 0 => Owned(o)')
  <2>1. done'[o] < 2
    BY DEF Lasts
  <2>2. ASSUME done'[o] > 0
        PROVE  \E n \in Machine : mem'[n].generation # 0 /\ ops'[o].generation = mem'[n].generation
    <3>1. ops[o].generation # 0 /\ ops'[o].generation = ops[o].generation
      BY <2>2 DEF Lasts, Evolves
    <3>2. PICK n \in Machine : mem[n].generation # 0 /\ ops[o].generation = mem[n].generation
      BY <2>2, <3>1 DEF Told, HistoryOK, Owned
    <3>3. mem'[n].generation = mem[n].generation
      BY <3>2, <1>2
    <3> QED  BY <3>1, <3>2, <3>3
  <2> QED  BY <2>1, <2>2 DEF Owned
<1> QED  BY <1>3, <1>4, <1>5 DEF Told, HistoryOK, Honest

\* The control plane moves on and no agent does.
LEMMA ServerTold ==
  ASSUME Bound, Told, Evolves, Honest', UNCHANGED <<mem, disk, run, done>>, late' \subseteq late
  PROVE  Told'
<1>1. /\ mem \in [Machine -> Saved] /\ disk \in [Machine -> Saved] /\ run \in [Machine -> Thread]
      /\ late \subseteq Request /\ done \in [Rev -> 0..2]
  BY DEF Bound, Typed
<1>2. Lasts /\ \A g : Untouched(g)
  <2>1. ASSUME NEW o \in Rev  PROVE done[o] \in 0..1 /\ (done[o] > 0 => ops[o].generation # 0)
    BY <1>1 DEF Told, HistoryOK, Owned
  <2> QED  BY <2>1 DEF Lasts, Untouched
<1>3. ASSUME NEW n \in Machine
      PROVE  StateOK(mem[n])' /\ StateOK(disk[n])' /\ ThreadOK(mem[n], run[n])'
  <2>1. PICK x \in Saved, y \in Saved, z \in Thread : x = mem[n] /\ y = disk[n] /\ z = run[n]
    BY <1>1
  <2>2. StateOK(x) /\ StateOK(y) /\ ThreadOK(x, z) /\ ThreadTyped(z)
    BY <2>1 DEF Told, Bound, Typed
  <2>3. StateOK(x)' /\ StateOK(y)' /\ ThreadOK(x, z)'
    BY <1>2, <2>2, StateStays, ThreadStays
  <2>4. x = mem'[n] /\ y = disk'[n] /\ z = run'[n]
    BY <2>1
  <2> QED  BY <2>3, <2>4 DEF StateOK, ThreadOK
<1>4. ASSUME NEW q \in late'
      PROVE  RequestOK(q)'
  <2>1. q \in Request /\ RequestOK(q)
    BY <1>1 DEF Told
  <2> QED  BY <2>1, <1>2, RequestStays
<1>5. ASSUME NEW o \in Rev
      PROVE  done'[o] < 2 /\ (done'[o] > 0 => Owned(o)')
  <2>1. done[o] < 2
    BY DEF Told, HistoryOK
  <2>2. done[o] > 0 => Owned(o)'
    BY <1>2 DEF Told, HistoryOK, Owned, Evolves, Lasts
  <2> QED  BY <2>1, <2>2
<1> QED  BY <1>3, <1>4, <1>5 DEF Told, HistoryOK, Honest

\* What Bound says of the control plane.
ServerBound ==
  /\ node \in [state : State, generation : Generation, revision : 0..MaxRevision,
               report : 0..MaxRevision]
  /\ configs \in [Rev -> Port \cup {NoPort}]
  /\ keys \in [Key -> KeyRow] /\ bindings \in [Machine -> Binding] /\ ops \in [Rev -> Op]
  /\ certs \subseteq Machine
  /\ Standing /\ RowOK
  /\ \A k \in Key : keys[k].used # Nobody =>
       bindings[keys[k].used].generation = keys[k].generation
  /\ \A m, n \in Machine : bindings[m].generation # 0 /\ m # n =>
       bindings[m].generation # bindings[n].generation

\* The control plane stays as it is.
LEMMA ServerIs ==
  ASSUME Bound, UNCHANGED server
  PROVE  ServerBound /\ ServerBound'
<1>1. ServerBound
  BY DEF Bound, Typed, Enrolled, ServerBound
<1>2. UNCHANGED <<node, configs, keys, bindings, ops, certs>>
  BY DEF server
<1> QED  BY <1>1, <1>2 DEF ServerBound, Standing, RowOK, Served, Current

\* No agent moves, and every machine has the generation that it had.
LEMMA ServerStep ==
  ASSUME Bound, ServerBound', UNCHANGED <<disk, mem, run, done>>, late' \subseteq late,
         faults' \in 0..MaxFaults,
         \A n \in Machine : bindings'[n].generation = bindings[n].generation
  PROVE  Bound'
<1>1. Typed'
  BY DEF Bound, Typed, ServerBound, ThreadTyped
<1>2. \A n \in Machine : IdentityOK(n)'
  BY DEF Bound, IdentityOK
<1>3. Enrolled'
  BY DEF Bound, Enrolled, ServerBound
<1> QED  BY <1>1, <1>2, <1>3 DEF Bound, ServerBound

\* One machine moves, and who it is agrees with the control plane.
LEMMA MoveBound ==
  ASSUME Bound, ServerBound',
         NEW m \in Machine, NEW s \in Saved, NEW d \in Saved, NEW t \in Thread,
         Moves(m, s, d, t), ThreadTyped(t),
         \A n \in Machine : n # m => bindings'[n].generation = bindings[n].generation,
         late' \subseteq Request, done' \in [Rev -> 0..2], faults' \in 0..MaxFaults,
         s.id = d.id, s.generation = d.generation, s.generation \in {0, bindings'[m].generation},
         bindings'[m].generation # 0 => d.id,
         t.pc = "proving" => s.id /\ bindings'[m].generation = 0,
         t.pc = "registered" => bindings'[m].generation # 0
  PROVE  Bound'
<1>1. /\ mem \in [Machine -> Saved] /\ disk \in [Machine -> Saved] /\ run \in [Machine -> Thread]
  BY DEF Bound, Typed
<1>2. /\ mem'[m] = s /\ disk'[m] = d /\ run'[m] = t
      /\ \A n \in Machine : n # m => mem'[n] = mem[n] /\ disk'[n] = disk[n] /\ run'[n] = run[n]
  BY <1>1 DEF Moves
<1>3. Typed'
  <2>1. mem' \in [Machine -> Saved] /\ disk' \in [Machine -> Saved] /\ run' \in [Machine -> Thread]
    BY <1>1 DEF Moves
  <2>2. \A n \in Machine : ThreadTyped(run'[n])
    BY <1>2 DEF Bound, Typed
  <2> QED  BY <2>1, <2>2 DEF ServerBound, Typed, ThreadTyped
<1>4. \A n \in Machine : IdentityOK(n)'
  BY <1>2 DEF Bound, IdentityOK
<1>5. Enrolled'
  BY <1>2 DEF Bound, Enrolled, ServerBound
<1> QED  BY <1>3, <1>4, <1>5 DEF Bound, ServerBound

\* What does not depend on what changes.
LEMMA SameOK ==
  ASSUME UNCHANGED <<node, configs, ops, done>>, NEW s, NEW t, NEW q
  PROVE  /\ StateOK(s)' <=> StateOK(s)
         /\ ThreadOK(s, t)' <=> ThreadOK(s, t)
         /\ RequestOK(q)' <=> RequestOK(q)
BY DEF StateOK, ThreadOK, RequestOK, Closed, NeedsApproval

\* A request of the present state.
LEMMA RequestFits ==
  ASSUME Bound, Told, NEW m \in Machine, Registered(m)
  PROVE  RequestOf(m) \in Request /\ RequestOK(RequestOf(m))
<1> DEFINE ts == [o \in Rev |-> IF ops[o].expired THEN "none" ELSE mem[m].tasks[o]]
<1>1. mem[m] \in Saved
  BY DEF Bound, Typed
<1>2. ts \in [Rev -> Task]
  BY <1>1, SavedFields DEF Task
<1>3. \A o \in Rev : ts[o] = "succeeded" => done[o] > 0
  BY DEF Told, StateOK
<1> HIDE DEF ts
<1>4. RequestOf(m) = [machine |-> m, generation |-> mem[m].generation, applied |-> mem[m].applied,
                      config |-> mem[m].config, tasks |-> ts]
  BY DEF RequestOf, ts
<1> DEFINE q == RequestOf(m)
<1>5. q \in Request /\ q.applied = mem[m].applied /\ q.config = mem[m].config /\ q.tasks = ts
  <2>1. mem[m].generation \in Generation
    BY <1>1, SavedFields, NodeAssumption DEF Registered, Generation
  <2> QED  BY <1>1, <1>2, <1>4, <2>1, SavedFields DEF Request
<1> HIDE DEF q
<1>6. RequestOK(q)
  BY <1>3, <1>5 DEF Told, StateOK, RequestOK
<1> QED  BY <1>5, <1>6 DEF q

\* What the two invariants say of one machine.
LEMMA Fits ==
  ASSUME Bound, Told, NEW m \in Machine
  PROVE  /\ mem[m] \in Saved /\ disk[m] \in Saved /\ run[m] \in Thread /\ ThreadTyped(run[m])
         /\ StateOK(mem[m]) /\ StateOK(disk[m]) /\ ThreadOK(mem[m], run[m])
         /\ IdentityOK(m) /\ faults \in 0..MaxFaults
         /\ bindings[m].generation # 0 => disk[m].id
BY DEF Bound, Told, Typed, Enrolled

\* An agent works on with the identity that it has, and nothing is carried out.
LEMMA AgentMoves ==
  ASSUME Bound, Told, NEW m \in Machine, NEW s \in Saved, NEW d \in Saved, NEW t \in Thread,
         Moves(m, s, d, t), UNCHANGED <<server, done>>, ThreadTyped(t),
         late' = late \/ (Registered(m) /\ late' = late \cup {RequestOf(m)}), faults' \in 0..MaxFaults,
         s.id = d.id, s.generation = d.generation,
         s.generation \in {mem[m].generation, bindings[m].generation},
         bindings[m].generation # 0 => d.id,
         t.pc = "proving" => s.id /\ bindings[m].generation = 0,
         t.pc = "registered" => bindings[m].generation # 0,
         StateOK(s), StateOK(d), ThreadOK(s, t)
  PROVE  Bound' /\ Told'
<1>1. UNCHANGED <<node, configs, keys, bindings, ops, certs, done>>
  BY DEF server
<1>2. mem[m].generation # 0 => s.generation = mem[m].generation
  BY Fits DEF IdentityOK
<1>3. s.generation \in {0, bindings[m].generation}
  BY Fits DEF IdentityOK
<1>4. late' \subseteq Request
  BY RequestFits DEF Bound, Typed
<1>5. Bound'
  <2>1. done' \in [Rev -> 0..2]
    BY <1>1 DEF Bound, Typed
  <2>2. ServerBound'
    BY ServerIs
  <2> QED  BY <1>1, <1>3, <1>4, <2>1, <2>2, MoveBound
<1>6. Evolves /\ Honest'
  BY <1>1 DEF Evolves, Honest, Told, HistoryOK, Closed, Bound, Typed
<1>7. Lasts
  <2>1. ASSUME NEW o \in Rev  PROVE done[o] \in 0..1 /\ (done[o] > 0 => ops[o].generation # 0)
    BY DEF Told, HistoryOK, Owned, Bound, Typed
  <2> QED  BY <1>1, <2>1 DEF Lasts
<1>8. StateOK(s)' /\ StateOK(d)' /\ ThreadOK(s, t)'
  BY <1>1, SameOK
<1>9. \A q \in late' : q \in late \/ RequestOK(q)'
  BY <1>1, RequestFits, SameOK
<1>10. Told'
  BY <1>1, <1>2, <1>6, <1>7, <1>8, <1>9, MoveTold
<1> QED  BY <1>5, <1>10

-----------------------------------------------------------------------------
(* The steps of an agent that leave the control plane as it is.            *)

\* A thread between two steps knows nothing that could be wrong.
LEMMA Resting ==
  ASSUME NEW t \in Thread, t.pc \in {"idle", "proving", "registered"},
         t.pc = "proving" => t.key \in Key, NEW s
  PROVE  ThreadTyped(t) /\ ThreadOK(s, t)
BY DEF ThreadTyped, ThreadOK

\* A thread that has nothing to do.
LEMMA IdleThread ==
  ASSUME NEW e \in BOOLEAN
  PROVE  [Idle EXCEPT !.engine = e] \in Thread /\ [Idle EXCEPT !.engine = e].pc = "idle"
         /\ Idle \in Thread /\ Idle.pc = "idle"
<1>1. 0 \in 0..MaxRevision
  BY NodeAssumption
<1> QED  BY <1>1 DEF Idle, Thread, Pc

\* The fields of a thread.
LEMMA ThreadFields ==
  ASSUME NEW t \in Thread
  PROVE  /\ t.pc \in Pc /\ t.answer \in Answer \cup {NoAnswer} /\ t.selected \in 0..MaxRevision
         /\ t.changed \in BOOLEAN /\ t.engine \in BOOLEAN /\ t.key \in Key \cup {Nobody}
BY DEF Thread

\* A bounded fault, or none.
LEMMA Faults ==
  ASSUME Bound, Fault \/ Sound
  PROVE  faults' \in 0..MaxFaults
BY NodeAssumption DEF Bound, Typed, Fault, Sound

\* The error path, with the state s in memory.
LEMMA AbortMoves ==
  ASSUME Bound, Told, NEW m \in Machine, NEW s \in Saved, NEW stop \in BOOLEAN, Abort(m, s, stop),
         StateOK(Failed(s)), s.id = mem[m].id, s.generation = mem[m].generation,
         UNCHANGED <<server, done>>, Fault \/ Sound,
         late' = late \/ (Registered(m) /\ late' = late \cup {RequestOf(m)})
  PROVE  Bound' /\ Told'
<1> DEFINE f == Failed(s)  t == [Idle EXCEPT !.engine = run[m].engine /\ ~stop]
<1>1. f \in Saved /\ f.id = mem[m].id /\ f.generation = mem[m].generation /\ StateOK(f)
  BY FailedIs
<1>2. t \in Thread /\ t.pc = "idle"
  BY Fits, ThreadFields, IdleThread
<1>3. PICK d \in {f, disk[m]} : Moves(m, f, d, t)
  BY DEF Abort, Memory, Written, NotWritten, Moves, Bound, Typed
<1>4. d \in Saved /\ d.id = f.id /\ d.generation = f.generation /\ StateOK(d)
  BY <1>1, Fits DEF IdentityOK
<1>5. ThreadTyped(t) /\ ThreadOK(f, t)
  BY <1>2, Resting
<1>6. bindings[m].generation # 0 => d.id
  BY <1>1, <1>4, Fits DEF IdentityOK
<1> HIDE DEF f, t
<1> QED  BY <1>1, <1>2, <1>3, <1>4, <1>5, <1>6, AgentMoves, Faults

\* Only the thread moves on.
LEMMA ThreadMoves ==
  ASSUME Bound, Told, NEW m \in Machine, NEW t \in Thread, ThreadTyped(t), ThreadOK(mem[m], t),
         run' = [run EXCEPT ![m] = t], UNCHANGED <<server, mem, disk, done, late>>,
         Fault \/ Sound,
         t.pc = "proving" => mem[m].id /\ bindings[m].generation = 0,
         t.pc = "registered" => bindings[m].generation # 0
  PROVE  Bound' /\ Told'
<1>1. Moves(m, mem[m], disk[m], t)
  BY DEF Moves, Bound, Typed
<1>2. /\ mem[m] \in Saved /\ disk[m] \in Saved /\ StateOK(mem[m]) /\ StateOK(disk[m])
      /\ mem[m].id = disk[m].id /\ mem[m].generation = disk[m].generation
      /\ bindings[m].generation # 0 => disk[m].id
  BY Fits DEF IdentityOK
<1> QED  BY <1>1, <1>2, AgentMoves, Faults

\* The identity is made and saved before it is used.
LEMMA MakeIdentityStep == ASSUME Bound, Told, NEW m \in Machine, MakeIdentity(m)  PROVE Bound' /\ Told'
<1> DEFINE s == [mem[m] EXCEPT !.id = TRUE]  d == [disk[m] EXCEPT !.id = TRUE]
<1>1. mem[m] \in Saved /\ disk[m] \in Saved /\ run[m] \in Thread
  BY Fits
<1>2. /\ s \in Saved /\ d \in Saved /\ s.id /\ d.id
      /\ s.generation = mem[m].generation /\ d.generation = disk[m].generation
  BY <1>1 DEF Saved
<1>3. StateOK(s) /\ StateOK(d)
  BY <1>1, Fits DEF Saved, StateOK
<1>4. Moves(m, s, d, run[m])
  BY DEF MakeIdentity, Memory, Moves, Bound, Typed
<1>5. run[m].pc = "idle" /\ UNCHANGED <<server, done, late, faults>>
  BY DEF MakeIdentity
<1>6. ThreadOK(s, run[m]) /\ ThreadTyped(run[m])
  BY <1>1, <1>5, Resting
<1>7. s.generation = d.generation /\ s.id = d.id
  BY <1>2, Fits DEF IdentityOK
<1> HIDE DEF s, d
<1> QED  BY <1>1, <1>2, <1>3, <1>4, <1>5, <1>6, <1>7, AgentMoves, Faults DEF Sound

\* The parts of enrollment before and after the control plane commits.
LEMMA EnrollingStep ==
  ASSUME Bound, Told, NEW m \in Machine, (\E k \in Key : Challenge(m, k)) \/ Refused(m) \/ Recover(m)
  PROVE  Bound' /\ Told'
<1>1. run[m] \in Thread
  BY Fits
<1>2. ASSUME NEW k \in Key, Challenge(m, k)
      PROVE  Bound' /\ Told'
  <2> DEFINE t == [run[m] EXCEPT !.pc = "proving", !.key = k]
  <2>1. t \in Thread /\ t.pc = "proving" /\ t.key = k
    BY <1>1 DEF Thread, Pc
  <2>2. run' = [run EXCEPT ![m] = t]
    BY <1>2 DEF Challenge, Bound, Typed
  <2>3. mem[m].id /\ bindings[m].generation = 0 /\ UNCHANGED <<server, mem, disk, done, late, faults>>
    BY <1>2 DEF Challenge
  <2> HIDE DEF t
  <2> QED  BY <2>1, <2>2, <2>3, Resting, ThreadMoves DEF Sound
<1>3. CASE Refused(m)
  <2> DEFINE t == [run[m] EXCEPT !.pc = "idle", !.key = Nobody]
  <2>1. t \in Thread /\ t.pc = "idle"
    BY <1>1 DEF Thread, Pc
  <2>2. run' = [run EXCEPT ![m] = t]
    BY <1>3 DEF Refused, Bound, Typed
  <2>3. UNCHANGED <<server, mem, disk, done, late>> /\ (Fault \/ Sound)
    BY <1>3 DEF Refused
  <2> HIDE DEF t
  <2> QED  BY <2>1, <2>2, <2>3, Resting, ThreadMoves
<1>4. CASE Recover(m)
  <2> DEFINE t == [run[m] EXCEPT !.pc = "registered"]
  <2>1. t \in Thread /\ t.pc = "registered"
    BY <1>1 DEF Thread, Pc
  <2>2. run' = [run EXCEPT ![m] = t]
    BY <1>4 DEF Recover, Bound, Typed
  <2>3. UNCHANGED <<server, mem, disk, done, late, faults>> /\ bindings[m].generation # 0
    BY <1>4 DEF Recover, Authorized, Current
  <2> HIDE DEF t
  <2> QED  BY <2>1, <2>2, <2>3, Resting, ThreadMoves DEF Sound
<1> QED  BY <1>2, <1>3, <1>4

\* A call fails.
LEMMA FailingStep ==
  ASSUME Bound, Told, NEW m \in Machine,
         SyncRefused(m) \/ SyncLost(m) \/ AnswerLost(m) \/ LeaseFails(m)
         \/ (Prepared(m) /\ run[m].changed /\ Abort(m, mem[m], FALSE) /\ Fault)
         \/ (ApplyFails(m) /\ Abort(m, mem[m], FALSE) /\ UNCHANGED done)
  PROVE  Bound' /\ Told'
<1>1. mem[m] \in Saved /\ StateOK(mem[m]) /\ StateOK(Failed(mem[m]))
  BY Fits, FailedOK
<1>2. \E stop \in BOOLEAN : Abort(m, mem[m], stop)
  <2>1. SyncRefused(m) => \E stop \in BOOLEAN : Abort(m, mem[m], stop)
    BY Zenon DEF SyncRefused
  <2> QED  BY <2>1 DEF SyncLost, AnswerLost, LeaseFails
<1>3. UNCHANGED <<server, done>> /\ (Fault \/ Sound)
  BY DEF SyncRefused, SyncLost, AnswerLost, LeaseFails, Prepared, ApplyFails, Sound
<1>4. late' = late \/ (Registered(m) /\ late' = late \cup {RequestOf(m)})
  BY DEF SyncRefused, SyncLost, AnswerLost, LeaseFails, Prepared, ApplyFails
<1> QED  BY <1>1, <1>2, <1>3, <1>4, AbortMoves

\* A step goes on with the lease of before, an engine stops.
LEMMA GoingOnStep ==
  ASSUME Bound, Told, NEW m \in Machine, LeaseKept(m) \/ EngineStops(m)
  PROVE  Bound' /\ Told'
<1>1. run[m] \in Thread /\ ThreadTyped(run[m]) /\ ThreadOK(mem[m], run[m]) /\ IdentityOK(m)
  BY Fits
<1>2. CASE LeaseKept(m)
  <2> DEFINE t == [run[m] EXCEPT !.pc = "apply", !.answer = NoAnswer]
  <2>1. t \in Thread /\ t.pc = "apply" /\ t.selected = run[m].selected
    BY <1>1 DEF Thread, Pc
  <2>2. run' = [run EXCEPT ![m] = t] /\ run[m].pc = "lease"
    BY <1>2 DEF LeaseKept, Leasing, Bound, Typed
  <2>3. UNCHANGED <<server, mem, disk, done, late, faults>>
    BY <1>2 DEF LeaseKept
  <2>4. ThreadTyped(t) /\ ThreadOK(mem[m], t)
    BY <1>1, <2>1, <2>2 DEF ThreadTyped, ThreadOK
  <2> HIDE DEF t
  <2> QED  BY <2>1, <2>2, <2>3, <2>4, ThreadMoves DEF Sound
<1>3. CASE EngineStops(m)
  <2> DEFINE t == [run[m] EXCEPT !.engine = FALSE]
  <2>1. /\ t \in Thread /\ t.pc = run[m].pc /\ t.selected = run[m].selected
        /\ t.answer = run[m].answer /\ t.key = run[m].key
    BY <1>1 DEF Thread
  <2>2. run' = [run EXCEPT ![m] = t]
    BY <1>3 DEF EngineStops, Bound, Typed
  <2>3. UNCHANGED <<server, mem, disk, done, late>> /\ Fault
    BY <1>3 DEF EngineStops
  <2>4. ThreadTyped(t) /\ ThreadOK(mem[m], t)
    BY <1>1, <2>1 DEF ThreadTyped, ThreadOK
  <2> HIDE DEF t
  <2> QED  BY <1>1, <2>1, <2>2, <2>3, <2>4, ThreadMoves DEF IdentityOK
<1> QED  BY <1>2, <1>3

\* The process dies and comes back with what is on disk.
LEMMA CrashStep == ASSUME Bound, Told, NEW m \in Machine, Crash(m)  PROVE Bound' /\ Told'
<1>1. Moves(m, disk[m], disk[m], Idle)
  BY DEF Crash, Moves, Bound, Typed
<1>2. Idle \in Thread /\ Idle.pc = "idle"
  BY IdleThread
<1>3. ThreadTyped(Idle) /\ ThreadOK(disk[m], Idle)
  BY <1>2, Resting
<1>4. UNCHANGED <<server, done, late>> /\ Fault
  BY DEF Crash
<1>5. /\ disk[m] \in Saved /\ StateOK(disk[m]) /\ disk[m].generation = mem[m].generation
      /\ bindings[m].generation # 0 => disk[m].id
  BY Fits DEF IdentityOK
<1> QED  BY <1>1, <1>2, <1>3, <1>4, <1>5, AgentMoves, Faults

\* The port that the operator accepts is that of a revision.
LEMMA ApproveStep == ASSUME Bound, Told, NEW m \in Machine, Approve(m)  PROVE Bound' /\ Told'
<1> DEFINE s == [mem[m] EXCEPT !.approved = mem[m].desired, !.listen = configs[mem[m].desired]]
<1>1. mem[m] \in Saved /\ run[m] \in Thread /\ run[m].pc = "idle" /\ mem[m].desired # 0
  BY Fits DEF Approve
<1>2. mem[m].desired \in Rev
  BY <1>1, SavedFields, NodeAssumption DEF Rev
<1>3. configs[mem[m].desired] \in Port \cup {NoPort}
  BY <1>2 DEF Bound, Typed
<1>4. /\ s \in Saved /\ s.id = mem[m].id /\ s.generation = mem[m].generation
      /\ s.applied = mem[m].applied /\ s.desired = mem[m].desired
      /\ s.config = mem[m].config /\ s.tasks = mem[m].tasks
  BY <1>1, <1>3 DEF Saved
<1> HIDE DEF s
<1>5. StateOK(s)
  <2>1. StateOK(mem[m])
    BY Fits
  <2> QED  BY <1>4, <2>1 DEF StateOK
<1>6. PICK d \in {s, disk[m]} : Moves(m, s, d, run[m])
  BY DEF Approve, Memory, Written, NotWritten, Moves, Bound, Typed, s
<1>7. d \in Saved /\ StateOK(d) /\ d.id = s.id /\ d.generation = s.generation
  BY <1>4, <1>5, Fits DEF IdentityOK
<1>8. UNCHANGED <<server, done, late>> /\ (Fault \/ Sound)
  BY DEF Approve
<1>9. ThreadOK(s, run[m]) /\ ThreadTyped(run[m])
  BY <1>1, Resting
<1>10. bindings[m].generation # 0 => d.id
  BY <1>4, <1>7, Fits DEF IdentityOK
<1> QED  BY <1>1, <1>4, <1>5, <1>6, <1>7, <1>8, <1>9, <1>10, AgentMoves, Faults

\* What changed is saved before the lease is asked for.
LEMMA PreparedStep == ASSUME Bound, Told, NEW m \in Machine, Prepared(m)  PROVE Bound' /\ Told'
<1>1. CASE run[m].changed /\ Abort(m, mem[m], FALSE) /\ Fault
  BY <1>1, FailingStep
<1>2. CASE /\ IF run[m].changed THEN Written(m, mem[m]) ELSE NotWritten
           /\ run' = [run EXCEPT ![m].pc = "lease", ![m].changed = FALSE]
           /\ UNCHANGED mem /\ Sound
  <2> DEFINE t == [run[m] EXCEPT !.pc = "lease", !.changed = FALSE]
  <2>1. run[m] \in Thread /\ run[m].pc = "take"
    BY Fits DEF Prepared
  <2>2. t \in Thread /\ t.pc = "lease" /\ t.selected = run[m].selected /\ t.answer = run[m].answer
    BY <2>1 DEF Thread, Pc
  <2>3. run' = [run EXCEPT ![m] = t]
    BY <1>2 DEF Bound, Typed
  <2> HIDE DEF t
  <2>4. PICK d \in {mem[m], disk[m]} : Moves(m, mem[m], d, t)
    BY <1>2, <2>3 DEF Written, NotWritten, Moves, Bound, Typed
  <2>5. /\ mem[m] \in Saved /\ StateOK(mem[m]) /\ d \in Saved /\ StateOK(d)
        /\ d.id = mem[m].id /\ d.generation = mem[m].generation
        /\ bindings[m].generation # 0 => d.id
    BY Fits DEF IdentityOK
  <2>6. ThreadTyped(t) /\ ThreadOK(mem[m], t)
    BY <2>1, <2>2, Fits DEF ThreadTyped, ThreadOK
  <2>7. UNCHANGED <<server, done, late>>
    BY DEF Prepared
  <2> QED  BY <1>2, <2>2, <2>4, <2>5, <2>6, <2>7, AgentMoves, Faults
<1> QED  BY <1>1, <1>2 DEF Prepared

\* The binding is that of the operations that the machine may have carried out.
LEMMA Rebound ==
  ASSUME Bound, Told, NEW m \in Machine, NEW x \in Saved, StateOK(x),
         x.generation = mem[m].generation, bindings[m].generation # 0
  PROVE  /\ [x EXCEPT !.generation = bindings[m].generation] \in Saved
         /\ StateOK([x EXCEPT !.generation = bindings[m].generation])
<1> DEFINE s == [x EXCEPT !.generation = bindings[m].generation]
<1>1. /\ s \in Saved /\ s.generation = bindings[m].generation /\ s.applied = x.applied
      /\ s.desired = x.desired /\ s.config = x.config /\ s.tasks = x.tasks
  BY DEF Bound, Typed, Binding, Saved
<1>2. mem[m].generation \in {0, bindings[m].generation}
  BY Fits DEF IdentityOK
<1>3. CASE mem[m].generation = 0
  <2>1. ASSUME NEW o \in Rev, done[o] > 0
        PROVE  ops[o].generation # bindings[m].generation
    <3>1. PICK n \in Machine : mem[n].generation # 0 /\ ops[o].generation = mem[n].generation
      BY <2>1 DEF Told, HistoryOK, Owned
    <3>2. n # m /\ mem[n].generation = bindings[n].generation
      BY <1>3, <3>1 DEF Bound, IdentityOK
    <3> QED  BY <3>1, <3>2 DEF Bound, Enrolled
  <2> HIDE DEF s
  <2>2. StateOK(s)
    BY <1>1, <1>3, <2>1 DEF StateOK
  <2> QED  BY <1>1, <2>2 DEF s
<1>4. CASE mem[m].generation = bindings[m].generation
  <2> HIDE DEF s
  <2>1. StateOK(s)
    BY <1>1, <1>4 DEF StateOK
  <2> QED  BY <1>1, <2>1 DEF s
<1> QED  BY <1>2, <1>3, <1>4

-----------------------------------------------------------------------------
(* The steps that carry operations out.                                    *)

\* What one machine carries out is of its generation, and is done once.
Carries(m) == \A o \in Rev :
  done'[o] = done[o] \/ (done'[o] = 1 /\ ops[o].generation = mem[m].generation)

\* An agent works on with the identity that it has, and carries something out.
LEMMA CarryMoves ==
  ASSUME Bound, Told, NEW m \in Machine, NEW s \in Saved, NEW d \in Saved, NEW t \in Thread,
         Moves(m, s, d, t), UNCHANGED <<server, late>>, faults' \in 0..MaxFaults, ThreadTyped(t),
         mem[m].generation # 0, done' \in [Rev -> 0..2], Carries(m),
         s.id = mem[m].id, d.id = mem[m].id,
         s.generation = mem[m].generation, d.generation = mem[m].generation,
         t.pc \notin {"proving", "registered"},
         StateOK(s)', StateOK(d)', ThreadOK(s, t)'
  PROVE  Bound' /\ Told'
<1>1. UNCHANGED <<node, configs, keys, bindings, ops, certs>>
  BY DEF server
<1>2. mem[m].generation = bindings[m].generation /\ (bindings[m].generation # 0 => d.id)
  BY Fits DEF IdentityOK
<1>3. late' \subseteq Request
  BY DEF Bound, Typed
<1>4. Bound'
  <2>1. ServerBound'
    BY ServerIs
  <2> QED  BY <1>1, <1>2, <1>3, <2>1, MoveBound
<1>5. Evolves
  BY <1>1 DEF Evolves, Closed, Bound, Typed
<1>6. Lasts
  <2>1. ASSUME NEW o \in Rev
        PROVE  /\ done'[o] \in 0..1 /\ (done[o] > 0 => done'[o] > 0)
               /\ done'[o] > 0 => ops[o].generation # 0
    <3>1. done[o] \in 0..1 /\ (done[o] > 0 => ops[o].generation # 0)
      BY DEF Told, HistoryOK, Owned, Bound, Typed
    <3> QED  BY <3>1 DEF Carries
  <2> QED  BY <2>1 DEF Lasts
<1>7. Honest'
  BY <1>1, <1>6 DEF Honest, Told, HistoryOK, Lasts
<1>8. \A o \in Rev : done'[o] = done[o] \/
        (mem[m].generation # 0 /\ ops[o].generation = mem[m].generation)
  BY DEF Carries
<1>9. Told'
  BY <1>5, <1>6, <1>7, <1>8, MoveTold
<1> QED  BY <1>4, <1>9

\* An operation has been taken.
Taken(m, o) == [mem[m] EXCEPT !.tasks[o] = "running"]

\* The state in which an operation has been taken.
LEMMA TakenState ==
  ASSUME Bound, Told, NEW m \in Machine, NEW o \in Rev, run[m].pc = "take", o \in ToTake(m),
         NEW s, s = Taken(m, o)
  PROVE  /\ s \in Saved /\ s.id = mem[m].id /\ s.generation = mem[m].generation
         /\ s.applied = mem[m].applied /\ s.desired = mem[m].desired /\ s.config = mem[m].config
         /\ s.listen = mem[m].listen /\ s.approved = mem[m].approved
         /\ \A p \in Rev : s.tasks[p] = IF p = o THEN "running" ELSE mem[m].tasks[p]
         /\ mem[m].generation # 0 /\ ops[o].generation = mem[m].generation
         /\ ops[o].action = "restart" => done[o] = 0
<1>1. mem[m] \in Saved /\ ThreadOK(mem[m], run[m])
  BY Fits
<1>2. mem[m].tasks \in [Rev -> Task]
  BY <1>1, SavedFields
<1>3. [mem[m].tasks EXCEPT ![o] = "running"] \in [Rev -> Task]
  BY <1>2 DEF Task
<1>4. /\ s \in Saved /\ s.id = mem[m].id /\ s.generation = mem[m].generation
      /\ s.applied = mem[m].applied /\ s.desired = mem[m].desired /\ s.config = mem[m].config
      /\ s.listen = mem[m].listen /\ s.approved = mem[m].approved
      /\ s.tasks = [mem[m].tasks EXCEPT ![o] = "running"]
  BY <1>1, <1>3 DEF Saved, Taken
<1>5. \A p \in Rev : s.tasks[p] = IF p = o THEN "running" ELSE mem[m].tasks[p]
  BY <1>2, <1>4
<1>6. /\ mem[m].generation # 0 /\ ops[o].generation = mem[m].generation
      /\ ops[o].action = "restart" => done[o] = 0
  BY <1>1 DEF ThreadOK, ToTake
<1> QED  BY <1>4, <1>5, <1>6

\* The checkpoint of an operation is saved, and then it is carried out.
LEMMA TakeStep ==
  ASSUME Bound, Told, NEW m \in Machine, NEW o \in Rev, Take(m, o)
  PROVE  Bound' /\ Told'
<1> DEFINE r == ops[o].action = "restart"
<1>1. PICK s : s = Taken(m, o)
  OBVIOUS
<1>2. run[m].pc = "take" /\ o \in ToTake(m) /\ UNCHANGED <<server, late>>
  BY DEF Take
<1>3. /\ s \in Saved /\ s.id = mem[m].id /\ s.generation = mem[m].generation
      /\ s.applied = mem[m].applied /\ s.desired = mem[m].desired /\ s.config = mem[m].config
      /\ s.listen = mem[m].listen /\ s.approved = mem[m].approved
      /\ \A p \in Rev : s.tasks[p] = IF p = o THEN "running" ELSE mem[m].tasks[p]
      /\ mem[m].generation # 0 /\ ops[o].generation = mem[m].generation
      /\ r => done[o] = 0
  BY <1>1, <1>2, TakenState
<1>4. /\ mem[m] \in Saved /\ run[m] \in Thread /\ ThreadTyped(run[m]) /\ StateOK(mem[m])
      /\ ThreadOK(mem[m], run[m]) /\ IdentityOK(m)
  BY Fits
<1>5. UNCHANGED <<node, configs, ops>>
  BY <1>2 DEF server
<1>6. ASSUME Memory(m, s), Written(m, s), Fault \/ Sound, NEW t \in Thread,
             run' = [run EXCEPT ![m] = t], ThreadTyped(t), t.pc \notin {"proving", "registered"},
             done' = [done EXCEPT ![o] = IF r THEN 1 ELSE @],
             t.pc = "idle" \/ (t.pc = "take" /\ t.answer = run[m].answer /\ t.selected = run[m].selected)
      PROVE  Bound' /\ Told'
  <2>1. done \in [Rev -> 0..2] /\ \A p \in Rev : done'[p] = IF p = o /\ r THEN 1 ELSE done[p]
    BY <1>6 DEF Bound, Typed
  <2>2. done' \in [Rev -> 0..2] /\ Carries(m)
    BY <1>3, <1>6, <2>1 DEF Carries
  <2>3. StateOK(s)'
    <3>1. s.applied <= node'.revision /\ s.desired <= node'.revision
          /\ s.config = IF s.applied > 0 THEN configs'[s.applied] ELSE NoPort
      BY <1>3, <1>4, <1>5 DEF StateOK
    <3>2. \A p \in Rev : s.tasks[p] # "none" =>
           /\ s.generation # 0 /\ ops'[p].generation = s.generation
           /\ s.tasks[p] = "succeeded" => p <= s.applied /\ done'[p] > 0
           /\ s.tasks[p] = "running" /\ ops'[p].action = "restart" => done'[p] > 0
      BY <1>3, <1>4, <1>5, <2>1 DEF StateOK
    <3>3. \A p \in Rev :
           /\ ops'[p].action = "restart" /\ done'[p] > 0
           /\ ops'[p].generation = s.generation /\ s.tasks[p] = "none"
           => Closed(p)'
      BY <1>3, <1>4, <1>5, <2>1 DEF StateOK, Closed
    <3> QED  BY <3>1, <3>2, <3>3 DEF StateOK
  <2>4. ThreadOK(s, t)'
    <3>1. CASE t.pc = "idle"
      BY <3>1 DEF ThreadOK
    <3>2. CASE t.pc = "take" /\ t.answer = run[m].answer /\ t.selected = run[m].selected
      <4>1. /\ s.generation # 0 /\ t.answer.revision <= node'.revision
            /\ t.selected \in 1..node'.revision /\ s.applied <= t.selected
        BY <1>2, <1>3, <1>4, <1>5, <3>2 DEF ThreadOK
      <4>2. t.selected = s.applied \/ ~NeedsApproval(s, t.selected)'
        BY <1>2, <1>3, <1>4, <1>5, <3>2 DEF ThreadOK, NeedsApproval
      <4>3. t.answer.open \subseteq Rev
        BY <1>2, <1>4, <3>2 DEF ThreadTyped, Answer
      <4>4. \A p \in t.answer.open :
              /\ ops'[p].generation = s.generation
              /\ ops'[p].action = "restart" /\ s.tasks[p] = "none" /\ ~ops'[p].expired
                   => done'[p] = 0
        BY <1>2, <1>3, <1>4, <1>5, <2>1, <3>2, <4>3 DEF ThreadOK
      <4> QED  BY <3>2, <4>1, <4>2, <4>4 DEF ThreadOK
    <3> QED  BY <1>6, <3>1, <3>2
  <2>5. Moves(m, s, s, t) /\ faults' \in 0..MaxFaults
    BY <1>6, Faults DEF Moves, Memory, Written
  <2> QED  BY <1>2, <1>3, <1>6, <2>2, <2>3, <2>4, <2>5, CarryMoves
<1>7. CASE /\ Memory(m, s) /\ Written(m, s) /\ Sound
           /\ run' = [run EXCEPT ![m].engine = @ /\ ~r]
           /\ done' = [done EXCEPT ![o] = IF r /\ @ < 2 THEN @ + 1 ELSE @]
  <2> DEFINE t == [run[m] EXCEPT !.engine = @ /\ ~r]
  <2>1. /\ t \in Thread /\ t.pc = "take" /\ t.selected = run[m].selected
        /\ t.answer = run[m].answer /\ t.key = run[m].key
    BY <1>2, <1>4 DEF Thread
  <2>2. run' = [run EXCEPT ![m] = t]
    BY <1>7 DEF Bound, Typed
  <2>4. done' = [done EXCEPT ![o] = IF r THEN 1 ELSE @]
    <3>1. CASE r
      BY <1>3, <1>7, <3>1 DEF Bound, Typed
    <3>2. CASE ~r
      BY <1>7, <3>2
    <3> QED  BY <3>1, <3>2
  <2>3. ThreadTyped(t)
    BY <1>2, <1>4, <2>1 DEF ThreadTyped
  <2> HIDE DEF t
  <2> QED  BY <1>6, <1>7, <2>1, <2>2, <2>3, <2>4
<1>8. CASE /\ Memory(m, s) /\ Written(m, s) /\ Fault
           /\ r
           /\ run' = [run EXCEPT ![m] = Idle]
           /\ done' = [done EXCEPT ![o] = IF @ < 2 THEN @ + 1 ELSE @]
  <2>1. done' = [done EXCEPT ![o] = IF r THEN 1 ELSE @]
    BY <1>3, <1>8 DEF Bound, Typed
  <2>2. Idle \in Thread /\ Idle.pc = "idle" /\ ThreadTyped(Idle)
    BY IdleThread, Resting
  <2> QED  BY <1>6, <1>8, <2>1, <2>2
<1>9. CASE Abort(m, s, FALSE) /\ Fault /\ UNCHANGED done
  <2>1. StateOK(Failed(s))
    <3> DEFINE f == Failed(s)
    <3>1. /\ f.applied = s.applied /\ f.desired = s.desired /\ f.config = s.config
          /\ f.generation = s.generation
          /\ \A p \in Rev : f.tasks[p] = IF s.tasks[p] = "running" THEN "failed" ELSE s.tasks[p]
      BY <1>3, FailedIs
    <3> HIDE DEF f
    <3>2. StateOK(f)
      BY <1>3, <1>4, <3>1 DEF StateOK
    <3> QED  BY <3>2 DEF f
  <2> QED  BY <1>2, <1>3, <1>9, <2>1, AbortMoves
<1> QED  BY <1>1, <1>7, <1>8, <1>9 DEF Take, Taken

\* The state in which the selected configuration is applied.
LEMMA AppliedIs ==
  ASSUME Bound, Told, NEW m \in Machine, run[m].pc \in {"lease", "apply"}
  PROVE  /\ Applied(m) \in Saved /\ Applied(m).id = mem[m].id
         /\ Applied(m).generation = mem[m].generation /\ Applied(m).desired = mem[m].desired
         /\ Applied(m).applied = run[m].selected /\ Applied(m).config = configs[run[m].selected]
         /\ Applied(m).listen = mem[m].listen /\ Applied(m).approved = mem[m].approved
         /\ \A o \in Rev : Applied(m).tasks[o] =
              IF mem[m].tasks[o] = "running" /\ o <= run[m].selected
                THEN "succeeded" ELSE mem[m].tasks[o]
         /\ run[m].selected \in 1..node.revision /\ mem[m].applied <= run[m].selected
         /\ mem[m].generation # 0
<1> DEFINE ts == [o \in Rev |-> IF mem[m].tasks[o] = "running" /\ o <= run[m].selected
                                 THEN "succeeded" ELSE mem[m].tasks[o]]
<1>1. mem[m] \in Saved /\ ThreadOK(mem[m], run[m]) /\ node.revision \in 0..MaxRevision
  BY Fits DEF Bound, Typed
<1>2. ts \in [Rev -> Task]
  BY <1>1, SavedFields DEF Task
<1>3. /\ run[m].selected \in 1..node.revision /\ mem[m].applied <= run[m].selected
      /\ mem[m].generation # 0
  BY <1>1 DEF ThreadOK
<1>4. run[m].selected \in Rev /\ run[m].selected \in 0..MaxRevision
  BY <1>1, <1>3, NodeAssumption DEF Rev
<1>5. configs[run[m].selected] \in Port \cup {NoPort}
  BY <1>4 DEF Bound, Typed
<1>6. Applied(m) = [mem[m] EXCEPT !.applied = run[m].selected,
                      !.config = configs[run[m].selected], !.tasks = ts]
  BY DEF Applied, ts
<1>7. \A o \in Rev : ts[o] = IF mem[m].tasks[o] = "running" /\ o <= run[m].selected
                              THEN "succeeded" ELSE mem[m].tasks[o]
  OBVIOUS
<1> HIDE DEF ts
<1> QED  BY <1>1, <1>2, <1>3, <1>4, <1>5, <1>6, <1>7 DEF Saved

\* Carrying operations out by applying a configuration.
LEMMA AppliedOK ==
  ASSUME Bound, Told, NEW m \in Machine, run[m].pc \in {"lease", "apply"},
         done' = Carried(m), UNCHANGED server
  PROVE  /\ done' \in [Rev -> 0..2] /\ Carries(m)
         /\ \A s \in Saved : s = Applied(m) => StateOK(s)' /\ StateOK(Failed(s))'
         /\ \A s \in Saved : s = disk[m] => StateOK(s)'
<1>1. /\ mem[m] \in Saved /\ StateOK(mem[m]) /\ StateOK(disk[m]) /\ done \in [Rev -> 0..2]
      /\ disk[m].generation = mem[m].generation
  BY Fits DEF Bound, Typed, IdentityOK
<1>2. UNCHANGED <<node, configs, ops>> /\ node.revision \in 0..MaxRevision
  BY DEF server, Bound, Typed
<1>3. \A o \in Rev : done'[o] = IF /\ mem[m].tasks[o] = "running" /\ o <= run[m].selected
                                   /\ ops[o].action # "restart"
                                  THEN 1 ELSE done[o]
  BY DEF Carried
<1>4. done' \in [Rev -> 0..2]
  BY <1>1 DEF Carried
<1>5. Carries(m)
  BY <1>1, <1>3 DEF Carries, StateOK
<1>6. \A o \in Rev : done'[o] \in 0..2 /\ (done[o] > 0 => done'[o] > 0)
                     /\ (ops[o].action = "restart" => done'[o] = done[o])
  BY <1>1, <1>3
<1>7. ASSUME NEW s \in Saved, s = Applied(m)
      PROVE  StateOK(s)'
  <2>1. /\ s.generation = mem[m].generation /\ s.desired = mem[m].desired
        /\ s.applied = run[m].selected /\ s.config = configs[run[m].selected]
        /\ \A o \in Rev : s.tasks[o] = IF mem[m].tasks[o] = "running" /\ o <= run[m].selected
                                        THEN "succeeded" ELSE mem[m].tasks[o]
        /\ run[m].selected \in 1..node.revision /\ mem[m].applied <= run[m].selected
    BY <1>7, AppliedIs
  <2>2. s.applied <= node'.revision /\ s.desired <= node'.revision
        /\ s.config = IF s.applied > 0 THEN configs'[s.applied] ELSE NoPort
    BY <1>1, <1>2, <2>1 DEF StateOK
  <2>3. ASSUME NEW o \in Rev, s.tasks[o] # "none"
        PROVE  /\ s.generation # 0 /\ ops'[o].generation = s.generation
               /\ s.tasks[o] = "succeeded" => o <= s.applied /\ done'[o] > 0
               /\ s.tasks[o] = "running" /\ ops'[o].action = "restart" => done'[o] > 0
    <3>1. mem[m].tasks[o] # "none"
      BY <2>1, <2>3
    <3>2. /\ s.generation # 0 /\ ops'[o].generation = s.generation
          /\ mem[m].tasks[o] = "running" /\ ops[o].action = "restart" => done[o] > 0
          /\ mem[m].tasks[o] = "succeeded" => o <= mem[m].applied /\ done[o] > 0
      BY <1>1, <1>2, <2>1, <3>1 DEF StateOK
    <3>3. CASE mem[m].tasks[o] = "running" /\ o <= run[m].selected
      BY <1>2, <1>3, <1>6, <2>1, <3>2, <3>3
    <3>4. CASE ~(mem[m].tasks[o] = "running" /\ o <= run[m].selected)
      <4>1. mem[m].applied \in 0..MaxRevision /\ o \in 1..MaxRevision
        BY <1>1, SavedFields DEF Rev
      <4> QED  BY <1>2, <1>6, <2>1, <3>2, <3>4, <4>1, NodeAssumption
    <3> QED  BY <3>3, <3>4
  <2>4. \A o \in Rev :
          /\ ops'[o].action = "restart" /\ done'[o] > 0
          /\ ops'[o].generation = s.generation /\ s.tasks[o] = "none"
          => Closed(o)'
    BY <1>1, <1>2, <1>6, <2>1 DEF StateOK, Closed
  <2> QED  BY <2>2, <2>3, <2>4 DEF StateOK
<1>8. ASSUME NEW s \in Saved, StateOK(s)'
      PROVE  StateOK(Failed(s))'
  <2>1. PICK f : f = Failed(s)
    OBVIOUS
  <2>2. /\ f.applied = s.applied /\ f.desired = s.desired /\ f.config = s.config
        /\ f.generation = s.generation
        /\ \A o \in Rev : f.tasks[o] = IF s.tasks[o] = "running" THEN "failed" ELSE s.tasks[o]
    BY <2>1, FailedIs
  <2>3. StateOK(f)'
    BY <1>8, <2>2 DEF StateOK
  <2>4. Failed(s)' = f
    BY <2>1 DEF Failed
  <2> QED  BY <2>3, <2>4 DEF StateOK
<1>9. ASSUME NEW s \in Saved, s = disk[m]
      PROVE  StateOK(s)'
  <2>1. StateOK(s)
    BY <1>1, <1>9
  <2> QED  BY <1>2, <1>6, <2>1 DEF StateOK, Closed
<1> QED  BY <1>4, <1>5, <1>7, <1>8, <1>9

\* A configuration is applied, by a running engine or by a disabled node.
LEMMA ApplyingStep ==
  ASSUME Bound, Told, NEW m \in Machine,
         Disabled(m) \/ Apply(m) \/ (ApplyFails(m) /\ Memory(m, Applied(m)) /\ NotWritten
           /\ run' = [run EXCEPT ![m].pc = "idle", ![m].engine = TRUE] /\ done' = Carried(m))
  PROVE  Bound' /\ Told'
<1>1. run[m].pc \in {"lease", "apply"} /\ done' = Carried(m) /\ UNCHANGED <<server, late>>
      /\ (Fault \/ Sound)
  BY DEF Disabled, Apply, ApplyFails, Sound
<1>2. PICK a \in Saved : a = Applied(m)
  BY <1>1, AppliedIs
<1>3. a.id = mem[m].id /\ a.generation = mem[m].generation /\ mem[m].generation # 0
  BY <1>1, <1>2, AppliedIs
<1>4. /\ done' \in [Rev -> 0..2] /\ Carries(m) /\ StateOK(a)' /\ StateOK(Failed(a))'
      /\ \A s \in Saved : s = disk[m] => StateOK(s)'
  BY <1>1, <1>2, AppliedOK
<1>5. PICK f \in Saved : f = Failed(a)
  BY FailedIs
<1>6. f.id = mem[m].id /\ f.generation = mem[m].generation /\ StateOK(f)'
  <2>1. Failed(a)' = f
    BY <1>5 DEF Failed
  <2> QED  BY <1>3, <1>4, <1>5, <2>1, FailedIs DEF StateOK
<1>7. PICK y \in Saved : y = disk[m] /\ y.id = mem[m].id /\ y.generation = mem[m].generation
  BY Fits DEF IdentityOK
<1>8. run[m] \in Thread /\ run \in [Machine -> Thread]
  BY Fits DEF Bound, Typed
<1>9. \E s \in {a, f} : \E d \in {a, f, y} : \E t \in Thread : t.pc = "idle" /\ Moves(m, s, d, t)
  <2>1. CASE Abort(m, Applied(m), TRUE)
    <3> DEFINE t == [Idle EXCEPT !.engine = run[m].engine /\ ~TRUE]
    <3>1. t \in Thread /\ t.pc = "idle"
      BY <1>8, ThreadFields, IdleThread
    <3>2. \E d \in {f, y} : Moves(m, f, d, t)
      BY <1>2, <1>5, <1>7, <2>1 DEF Abort, Memory, Written, NotWritten, Moves, Bound, Typed
    <3> HIDE DEF t
    <3> QED  BY <3>1, <3>2
  <2>2. CASE /\ Memory(m, Applied(m)) /\ (Written(m, Applied(m)) \/ NotWritten)
             /\ \/ run' = [run EXCEPT ![m].pc = "idle", ![m].answer = NoAnswer, ![m].engine = FALSE]
                \/ run' = [run EXCEPT ![m].pc = "idle", ![m].engine = TRUE]
    <3>1. \E t \in Thread : t.pc = "idle" /\ run' = [run EXCEPT ![m] = t]
      <4> DEFINE t1 == [run[m] EXCEPT !.pc = "idle", !.answer = NoAnswer, !.engine = FALSE]
                 t2 == [run[m] EXCEPT !.pc = "idle", !.engine = TRUE]
      <4>1. t1 \in Thread /\ t1.pc = "idle" /\ t2 \in Thread /\ t2.pc = "idle"
        BY <1>8 DEF Thread, Pc
      <4>2. run' = [run EXCEPT ![m] = t1] \/ run' = [run EXCEPT ![m] = t2]
        BY <1>8, <2>2
      <4> HIDE DEF t1, t2
      <4> QED  BY <4>1, <4>2
    <3>2. \E d \in {a, y} : disk' = [disk EXCEPT ![m] = d]
      BY <1>2, <1>7, <2>2 DEF Written, NotWritten, Bound, Typed
    <3> QED  BY <1>2, <2>2, <3>1, <3>2 DEF Memory, Moves
  <2> QED  BY <2>1, <2>2 DEF Disabled, Apply, ApplyFails
<1>10. PICK s \in {a, f}, d \in {a, f, y}, t \in Thread : t.pc = "idle" /\ Moves(m, s, d, t)
  BY <1>9
<1>11. StateOK(s)' /\ StateOK(d)'
  BY <1>4, <1>6, <1>7
<1>12. s \in Saved /\ d \in Saved /\ s.id = mem[m].id /\ d.id = mem[m].id
       /\ s.generation = mem[m].generation /\ d.generation = mem[m].generation
  BY <1>3, <1>6, <1>7
<1>13. ThreadTyped(t) /\ ThreadOK(s, t)'
  BY <1>10 DEF ThreadTyped, ThreadOK
<1> QED  BY <1>1, <1>3, <1>4, <1>10, <1>11, <1>12, <1>13, CarryMoves, Faults

-----------------------------------------------------------------------------
(* The answer is received.                                                 *)

\* What is forgotten then is known to be over, and what is offered was not done before.
LEMMA ReceivedIs ==
  ASSUME Bound, Told, NEW m \in Machine, run[m].pc = "sync", NEW s, s = Received(m)
  PROVE  /\ s \in Saved /\ s.id = mem[m].id /\ s.generation = mem[m].generation
         /\ s.applied = mem[m].applied /\ s.desired = run[m].answer.revision
         /\ s.config = mem[m].config /\ s.approved = mem[m].approved
         /\ \A o \in Rev : s.tasks[o] =
              IF mem[m].tasks[o] \in {"succeeded", "failed"} \/ ops[o].expired
                THEN "none" ELSE mem[m].tasks[o]
<1>1. /\ mem[m] \in Saved /\ run[m] \in Thread /\ ThreadTyped(run[m])
      /\ ThreadOK(mem[m], run[m])
  BY Fits
<1>2. run[m].answer.revision \in Rev /\ run[m].answer.revision \in 0..MaxRevision
  BY <1>1, NodeAssumption DEF ThreadTyped, Answer, Rev
<1>3. Acknowledged(m) \in [Rev -> Task]
  BY <1>1, SavedFields DEF Acknowledged, Task
<1>4. configs[run[m].answer.revision] \in Port \cup {NoPort}
  BY <1>2 DEF Bound, Typed
<1>5. \A o \in Rev : Acknowledged(m)[o] =
        IF mem[m].tasks[o] \in {"succeeded", "failed"} \/ ops[o].expired
          THEN "none" ELSE mem[m].tasks[o]
  BY DEF Acknowledged
<1> QED  BY <1>1, <1>2, <1>3, <1>4, <1>5 DEF Received, Saved

\* The received state is in order.
LEMMA ReceivedOK ==
  ASSUME Bound, Told, NEW m \in Machine, run[m].pc = "sync", NEW s \in Saved, s = Received(m)
  PROVE  StateOK(s)
<1>1. /\ StateOK(mem[m]) /\ ThreadOK(mem[m], run[m])
  BY Fits
<1>2. /\ s.generation = mem[m].generation /\ s.applied = mem[m].applied
      /\ s.desired = run[m].answer.revision /\ s.config = mem[m].config
      /\ \A o \in Rev : s.tasks[o] =
           IF mem[m].tasks[o] \in {"succeeded", "failed"} \/ ops[o].expired
             THEN "none" ELSE mem[m].tasks[o]
  BY ReceivedIs
<1>3. ASSUME NEW o \in Rev, ops[o].action = "restart", done[o] > 0,
             ops[o].generation = s.generation, s.tasks[o] = "none"
      PROVE  Closed(o)
  <2>1. CASE mem[m].tasks[o] = "none"
    BY <1>1, <1>2, <1>3, <2>1 DEF StateOK
  <2>2. CASE mem[m].tasks[o] \in {"succeeded", "failed"}
    BY <1>1, <2>2 DEF ThreadOK
  <2>3. CASE ops[o].expired
    BY <2>3 DEF Closed
  <2> QED  BY <1>2, <1>3, <2>1, <2>2, <2>3
<1> QED  BY <1>1, <1>2, <1>3 DEF StateOK, ThreadOK

\* The answer is received, or found to need the operator first.
LEMMA ReceiveStep == ASSUME Bound, Told, NEW m \in Machine, Receive(m)  PROVE Bound' /\ Told'
<1> DEFINE a == run[m].answer
<1>1. run[m].pc = "sync" /\ UNCHANGED <<server, done, late>>
  BY DEF Receive
<1>2. PICK s : s = Received(m)
  OBVIOUS
<1>3. /\ s \in Saved /\ s.id = mem[m].id /\ s.generation = mem[m].generation
      /\ s.applied = mem[m].applied /\ s.desired = a.revision
      /\ \A o \in Rev : s.tasks[o] =
           IF mem[m].tasks[o] \in {"succeeded", "failed"} \/ ops[o].expired
             THEN "none" ELSE mem[m].tasks[o]
  BY <1>1, <1>2, ReceivedIs
<1>4. StateOK(s)
  BY <1>1, <1>2, <1>3, ReceivedOK
<1>5. PICK f \in Saved : f = Failed(s) /\ f.id = s.id /\ f.generation = s.generation /\ StateOK(f)
  BY <1>3, <1>4, FailedIs, FailedOK
<1>6. /\ run[m] \in Thread /\ ThreadTyped(run[m]) /\ ThreadOK(mem[m], run[m]) /\ mem[m] \in Saved
      /\ disk[m] \in Saved /\ StateOK(disk[m]) /\ disk[m].id = mem[m].id
      /\ disk[m].generation = mem[m].generation /\ (bindings[m].generation # 0 => disk[m].id)
  BY Fits DEF IdentityOK
<1>7. CASE /\ NeedsApproval(s, a.revision) /\ s.applied = 0
           /\ run' = [run EXCEPT ![m].pc = "idle", ![m].answer = NoAnswer]
           /\ Memory(m, f)
           /\ (Written(m, f) /\ Sound) \/ (NotWritten /\ Fault)
  <2> DEFINE t == [run[m] EXCEPT !.pc = "idle", !.answer = NoAnswer]
  <2>1. t \in Thread /\ t.pc = "idle"
    BY <1>6 DEF Thread, Pc
  <2>2. run' = [run EXCEPT ![m] = t]
    BY <1>7 DEF Bound, Typed
  <2> HIDE DEF t
  <2>3. PICK d \in {f, disk[m]} : Moves(m, f, d, t)
    BY <1>7, <2>2 DEF Memory, Written, NotWritten, Moves, Bound, Typed
  <2>4. ThreadTyped(t) /\ ThreadOK(f, t)
    BY <2>1, Resting
  <2> QED  BY <1>1, <1>3, <1>5, <1>6, <1>7, <2>1, <2>3, <2>4, AgentMoves, Faults
<1>8. CASE /\ ~(NeedsApproval(s, a.revision) /\ s.applied = 0)
           /\ run' = [run EXCEPT ![m].pc = "take", ![m].changed = s # mem[m],
                        ![m].selected = IF NeedsApproval(s, a.revision)
                                          THEN s.applied ELSE a.revision]
           /\ Memory(m, s) /\ NotWritten /\ Sound
  <2> DEFINE sel == IF NeedsApproval(s, a.revision) THEN s.applied ELSE a.revision
             t == [run[m] EXCEPT !.pc = "take", !.changed = s # mem[m], !.selected = sel]
  <2>1. /\ a \in Answer /\ a.revision \in Rev /\ a.revision <= node.revision
        /\ node.revision \in 0..MaxRevision /\ s.applied \in 0..MaxRevision
        /\ s.applied <= a.revision /\ a.open \subseteq Rev
    BY <1>1, <1>3, <1>6, SavedFields DEF ThreadTyped, Answer, ThreadOK, Bound, Typed
  <2>2. /\ sel \in 0..MaxRevision /\ sel \in 1..node.revision /\ s.applied <= sel
        /\ sel = s.applied \/ ~NeedsApproval(s, sel)
    BY <1>8, <2>1, NodeAssumption DEF Rev
  <2> HIDE DEF sel
  <2>3. t \in Thread /\ t.pc = "take" /\ t.answer = a /\ t.selected = sel
    BY <1>6, <2>2 DEF Thread, Pc
  <2>4. run' = [run EXCEPT ![m] = t]
    BY <1>8 DEF Bound, Typed, sel
  <2> HIDE DEF t
  <2>5. Moves(m, s, disk[m], t)
    BY <1>8, <2>4 DEF Memory, NotWritten, Moves, Bound, Typed
  <2>6. \A o \in a.open :
         /\ ops[o].generation = s.generation
         /\ ops[o].action = "restart" /\ s.tasks[o] = "none" /\ ~ops[o].expired => done[o] = 0
    BY <1>1, <1>3, <1>6, <2>1 DEF ThreadOK
  <2>7. ThreadTyped(t) /\ ThreadOK(s, t)
    BY <1>1, <1>3, <1>6, <2>1, <2>2, <2>3, <2>6 DEF ThreadTyped, ThreadOK
  <2>8. t.pc # "proving" /\ t.pc # "registered"
    BY <2>3
  <2> QED  BY <1>1, <1>3, <1>4, <1>6, <1>8, <2>3, <2>5, <2>7, <2>8, AgentMoves, Faults
<1> QED  BY <1>2, <1>5, <1>7, <1>8 DEF Receive, Memory, Written

-----------------------------------------------------------------------------
(* The control plane and one agent move.                                   *)

\* As long as nothing is carried out.
LEMMA NothingDone ==
  ASSUME Bound, Told, UNCHANGED done
  PROVE  Lasts /\ \A g : Untouched(g)
<1>1. ASSUME NEW o \in Rev  PROVE done[o] \in 0..1 /\ (done[o] > 0 => ops[o].generation # 0)
  BY DEF Told, HistoryOK, Owned, Bound, Typed
<1> QED  BY <1>1 DEF Lasts, Untouched

\* A step of an agent together with a commit of the control plane.
LEMMA BothMove ==
  ASSUME Bound, Told, Evolves, Honest', ServerBound', UNCHANGED <<done, late>>,
         NEW m \in Machine, NEW s \in Saved, NEW d \in Saved, NEW t \in Thread,
         Moves(m, s, d, t), ThreadTyped(t), Fault \/ Sound,
         \A n \in Machine : n # m => bindings'[n].generation = bindings[n].generation,
         bindings[m].generation # 0 => bindings'[m].generation = bindings[m].generation,
         s.id = d.id, s.generation = d.generation,
         s.generation \in {mem[m].generation, bindings'[m].generation},
         bindings'[m].generation # 0 => d.id,
         t.pc = "proving" => s.id /\ bindings'[m].generation = 0,
         t.pc = "registered" => bindings'[m].generation # 0,
         StateOK(s), StateOK(d), ThreadOK(s, t)'
  PROVE  Bound' /\ Told'
<1>1. mem[m].generation \in {0, bindings[m].generation}
  BY Fits DEF IdentityOK
<1>2. s.generation \in {0, bindings'[m].generation}
  BY <1>1
<1>3. mem[m].generation # 0 => s.generation = mem[m].generation
  BY <1>1
<1>4. Lasts /\ \A g : Untouched(g)
  BY NothingDone
<1>5. StateOK(s)' /\ StateOK(d)'
  BY <1>4, StateStays
<1>6. Told'
  BY <1>3, <1>4, <1>5, MoveTold
<1>7. Bound'
  <2>1. done' \in [Rev -> 0..2] /\ late' \subseteq Request
    BY DEF Bound, Typed
  <2> QED  BY <1>2, <2>1, MoveBound, Faults
<1> QED  BY <1>6, <1>7

\* What the three UPDATEs of a call leave of an operation.
LEMMA SettledIs ==
  ASSUME Bound, NEW q \in Request, NEW o \in Rev
  PROVE  /\ Settled(q, o) \in Op
         /\ Settled(q, o).generation = ops[o].generation
         /\ Settled(q, o).action = ops[o].action /\ Settled(q, o).expired = ops[o].expired
         /\ ops[o].state \notin Open => Settled(q, o) = ops[o]
         /\ Settled(q, o).state = "succeeded" =>
              ops[o].state = "succeeded" \/ q.tasks[o] = "succeeded"
<1>1. ops[o] \in Op /\ q.tasks[o] \in Task
  BY DEF Bound, Typed, Request
<1> QED  BY <1>1 DEF Settled, ResultTaken, Op, OpState, Task, Open

\* A call of SyncNode commits what it should.
LEMMA Committed ==
  ASSUME Bound, Told, NEW q \in Request, RequestOK(q), Commit(q), UNCHANGED done
  PROVE  /\ Evolves /\ Honest' /\ ServerBound'
         /\ UNCHANGED <<configs, keys, bindings, certs>>
         /\ node'.state = node.state /\ node'.generation = node.generation
         /\ node'.revision = node.revision
         /\ \A o \in Rev : ops'[o] = Settled(q, o)
<1>1. /\ ops \in [Rev -> Op] /\ node.revision \in 0..MaxRevision
      /\ node \in [state : State, generation : Generation, revision : 0..MaxRevision,
                   report : 0..MaxRevision]
  BY DEF Bound, Typed
<1>2. UNCHANGED <<configs, keys, bindings, certs>> /\ \A o \in Rev : ops'[o] = Settled(q, o)
  BY DEF Commit
<1>3. /\ node' \in [state : State, generation : Generation, revision : 0..MaxRevision,
                    report : 0..MaxRevision]
      /\ node'.state = node.state /\ node'.generation = node.generation
      /\ node'.revision = node.revision
  BY <1>1 DEF Commit, Request
<1>4. ASSUME NEW o \in Rev
      PROVE  /\ Settled(q, o) \in Op
             /\ Settled(q, o).generation = ops[o].generation
             /\ Settled(q, o).action = ops[o].action /\ Settled(q, o).expired = ops[o].expired
             /\ ops[o].state \notin Open => Settled(q, o) = ops[o]
             /\ Settled(q, o).state = "succeeded" =>
                  ops[o].state = "succeeded" \/ q.tasks[o] = "succeeded"
  BY SettledIs
<1>5. ops' \in [Rev -> Op]
  BY <1>4 DEF Commit
<1>6. Evolves
  BY <1>1, <1>2, <1>3, <1>4 DEF Evolves, Closed
<1>7. Honest'
  BY <1>2, <1>4 DEF Honest, RequestOK, Told, HistoryOK
<1>8. ServerBound'
  <2>1. Standing'
    BY <1>2, <1>3 DEF Bound, Standing, Served, Current
  <2>2. RowOK'
    <3>1. \A o \in Rev : /\ ops'[o].generation <= node'.generation
                         /\ o > node'.revision => ops'[o] = NoOp
      BY <1>2, <1>3, <1>4 DEF Bound, RowOK, NoOp, Open
    <3> QED  BY <1>2, <1>3, <3>1 DEF Bound, RowOK
  <2> QED  BY <1>2, <1>3, <1>5, <2>1, <2>2 DEF Bound, Typed, Enrolled, ServerBound
<1> QED  BY <1>2, <1>3, <1>6, <1>7, <1>8

\* A machine in good standing belongs to a node that has a revision.
LEMMA Serving ==
  ASSUME Bound, NEW m \in Machine, Authorized(m)
  PROVE  node.revision \in Rev /\ node.state # "none"
<1>1. /\ node.generation \in 1..MaxRevision /\ node.revision \in 0..MaxRevision
      /\ bindings[m].generation = node.generation /\ bindings[m].generation # 0
  BY DEF Bound, Typed, Generation, Authorized, Current
<1>2. node.state # "none"
  BY <1>1 DEF Bound, RowOK
<1>3. node.generation <= node.revision
  BY <1>2 DEF Bound, RowOK
<1> QED  BY <1>1, <1>2, <1>3, NodeAssumption DEF Rev

\* The answer names the operations that are open, none that the report has settled.
LEMMA SyncStep == ASSUME Bound, Told, NEW m \in Machine, Sync(m)  PROVE Bound' /\ Told'
<1>1. /\ run[m].pc = "idle" /\ Registered(m) /\ Commit(RequestOf(m))
      /\ UNCHANGED <<disk, mem, done, late, faults>>
  BY DEF Sync
<1>2. PICK q \in Request : q = RequestOf(m) /\ RequestOK(q)
  BY <1>1, RequestFits
<1>3. /\ Evolves /\ Honest' /\ ServerBound' /\ UNCHANGED <<configs, keys, bindings, certs>>
      /\ node'.state = node.state /\ node'.generation = node.generation
      /\ node'.revision = node.revision /\ \A o \in Rev : ops'[o] = Settled(q, o)
  BY <1>1, <1>2, Committed
<1>4. /\ mem[m] \in Saved /\ disk[m] \in Saved /\ run[m] \in Thread
      /\ StateOK(mem[m]) /\ StateOK(disk[m]) /\ mem[m].id = disk[m].id
      /\ mem[m].generation = disk[m].generation /\ (bindings[m].generation # 0 => disk[m].id)
  BY Fits DEF IdentityOK
<1>5. Authorized(m) /\ node.generation = mem[m].generation
  BY <1>1 DEF Commit, RequestOf
<1>6. /\ node.revision \in Rev /\ node.state \in State
  BY <1>5, Serving DEF Bound, Typed
<1>7. PICK a \in Answer : /\ a = AnswerTo(RequestOf(m)) /\ a.revision = node.revision
                          /\ a.open = {o \in Rev : ~Closed(o)'}
  <2> DEFINE x == AnswerTo(RequestOf(m))
  <2>1. x.open = {o \in Rev : /\ ops'[o].state \in Open /\ ~ops'[o].expired
                              /\ ops'[o].generation = node.generation}
        /\ x.revision = node.revision
    BY DEF AnswerTo
  <2>2. x \in Answer
    BY <1>6 DEF AnswerTo, Answer
  <2>3. x.open = {o \in Rev : ~Closed(o)'}
    BY <1>3, <2>1 DEF Closed
  <2> HIDE DEF x
  <2> QED  BY <2>1, <2>2, <2>3 DEF x
<1>8. PICK t \in Thread : /\ t = [run[m] EXCEPT !.pc = "sync", !.answer = a]
                          /\ t.pc = "sync" /\ t.answer = a
  <2> DEFINE x == [run[m] EXCEPT !.pc = "sync", !.answer = a]
  <2>1. x \in Thread /\ x.pc = "sync" /\ x.answer = a
    BY <1>4 DEF Thread, Pc
  <2> HIDE DEF x
  <2> QED  BY <2>1 DEF x
<1>9. run' = [run EXCEPT ![m] = t]
  BY <1>7, <1>8 DEF Sync, Bound, Typed
<1>10. Moves(m, mem[m], disk[m], t)
  BY <1>1, <1>9 DEF Moves, Bound, Typed
<1>11. ASSUME NEW o \in Rev, mem[m].tasks[o] \in {"succeeded", "failed"}
       PROVE  Closed(o)'
  <2>1. CASE ops[o].state \notin Open \/ ops[o].expired
    <3>1. Closed(o) /\ ops[o].generation = mem[m].generation /\ mem[m].generation # 0
      BY <1>4, <1>11, <2>1 DEF Closed, StateOK
    <3> QED  BY <1>3, <3>1 DEF Evolves
  <2>2. CASE ops[o].state \in Open /\ ~ops[o].expired
    <3>1. /\ q.tasks[o] = mem[m].tasks[o] /\ q.applied = mem[m].applied
      BY <1>2, <2>2 DEF RequestOf
    <3>2. ops[o].generation = node.generation /\ (mem[m].tasks[o] = "succeeded" => o <= q.applied)
      BY <1>4, <1>5, <1>11, <3>1 DEF StateOK
    <3>3. ResultTaken(q, o)
      BY <1>11, <2>2, <3>1, <3>2 DEF ResultTaken
    <3>4. Settled(q, o).state \in {"succeeded", "failed"}
      <4>1. ops[o] \in Op
        BY DEF Bound, Typed
      <4> QED  BY <1>11, <3>1, <3>3, <4>1 DEF Settled, Op, Open
    <3> QED  BY <1>3, <3>4 DEF Closed, Open
  <2> QED  BY <2>1, <2>2
<1>12. ASSUME NEW o \in a.open
       PROVE  /\ ops'[o].generation = mem[m].generation
              /\ ops'[o].action = "restart" /\ mem[m].tasks[o] = "none" /\ ~ops'[o].expired
                   => done'[o] = 0
  <2>1. o \in Rev /\ ~Closed(o)'
    BY <1>7
  <2>2. ops'[o].generation = mem[m].generation
    BY <1>3, <1>5, <2>1 DEF Closed
  <2>3. ops[o] \in Op /\ q.tasks[o] \in Task
    BY <1>2, <2>1 DEF Bound, Typed, Request
  <2>4. ops[o].generation = mem[m].generation /\ ops'[o].action = ops[o].action
    BY <1>3, <2>1, <2>2, <2>3 DEF Settled, Op
  <2>5. ~Closed(o)
    BY <1>1, <1>3, <2>1, <2>4 DEF Evolves, Registered
  <2>6. ops[o].action = "restart" /\ mem[m].tasks[o] = "none" => ~(done[o] > 0)
    BY <1>4, <2>1, <2>4, <2>5 DEF StateOK
  <2>7. done[o] \in 0..2
    BY <2>1 DEF Bound, Typed
  <2> QED  BY <1>1, <2>2, <2>4, <2>6, <2>7
<1>13. ThreadTyped(t)
  BY <1>7, <1>8 DEF ThreadTyped
<1>14. ThreadOK(mem[m], t)'
  <2>1. PICK s \in Saved : s = mem[m] /\ s = mem'[m]
    BY <1>1, <1>4
  <2>2. s.generation # 0 /\ t.answer.revision <= node'.revision /\ s.applied <= t.answer.revision
    <3>1. node.revision \in 0..MaxRevision
      BY DEF Bound, Typed
    <3> QED  BY <1>1, <1>3, <1>4, <1>7, <1>8, <2>1, <3>1 DEF Registered, StateOK
  <2>3. \A o \in Rev : s.tasks[o] \in {"succeeded", "failed"} =>
            Closed(o)' /\ o \notin t.answer.open
    BY <1>7, <1>8, <1>11, <2>1
  <2>4. \A o \in t.answer.open :
         /\ ops'[o].generation = s.generation
         /\ ops'[o].action = "restart" /\ s.tasks[o] = "none" /\ ~ops'[o].expired => done'[o] = 0
    BY <1>8, <1>12, <2>1
  <2>5. ThreadOK(s, t)'
    BY <1>8, <2>2, <2>3, <2>4 DEF ThreadOK
  <2> QED  BY <2>1, <2>5 DEF ThreadOK
<1>15. PICK x \in Saved, y \in Saved : x = mem[m] /\ y = disk[m] /\ x = mem'[m]
  BY <1>1, <1>4
<1>16. Moves(m, x, y, t) /\ StateOK(x) /\ StateOK(y) /\ ThreadOK(x, t)'
  BY <1>4, <1>10, <1>14, <1>15 DEF ThreadOK
<1>17. t.pc # "proving" /\ t.pc # "registered" /\ Sound
  BY <1>1, <1>8 DEF Sound
<1> QED  BY <1>1, <1>3, <1>4, <1>8, <1>13, <1>15, <1>16, <1>17, BothMove

\* A request whose sender no longer waits is executed.
LEMMA LateStep == ASSUME Bound, Told, NEW q \in late, HandleLate(q)  PROVE Bound' /\ Told'
<1>1. q \in Request /\ RequestOK(q)
  BY DEF Bound, Typed, Told
<1>2. /\ Commit(q) /\ UNCHANGED <<disk, mem, run, done, faults>> /\ late' \subseteq late
  BY DEF HandleLate, agent
<1>3. Evolves /\ Honest' /\ ServerBound' /\ UNCHANGED bindings
  BY <1>1, <1>2, Committed
<1>4. faults' \in 0..MaxFaults
  BY <1>2 DEF Bound, Typed
<1> QED  BY <1>2, <1>3, <1>4, ServerTold, ServerStep

-----------------------------------------------------------------------------
(* Leases and the commits of enrollment.                                   *)

\* The operations, and with them what has been carried out, are as before.
LEMMA SameOps ==
  ASSUME Bound, Told, UNCHANGED <<ops, done>>, node'.generation = node.generation,
         node'.revision \in Nat, node'.revision >= node.revision,
         \A r \in 1..node.revision : configs'[r] = configs[r]
  PROVE  Evolves /\ Honest'
BY DEF Evolves, Honest, Closed, Told, HistoryOK

\* A certificate is issued to the device of a node in service.
LEMMA NodeLeaseStep == ASSUME Bound, Told, NEW m \in Machine, NodeLease(m)  PROVE Bound' /\ Told'
<1>1. /\ run[m].pc = "lease" /\ LeaseGranted(m) /\ certs' = certs \cup {m}
      /\ UNCHANGED <<node, configs, keys, bindings, ops, disk, mem, done, late, faults>>
  BY DEF NodeLease, Leasing
<1>2. node.revision \in Nat
  BY NodeAssumption DEF Bound, Typed
<1>3. Evolves /\ Honest'
  BY <1>1, <1>2, SameOps
<1>4. ServerBound'
  <2>1. Standing'
    BY <1>1 DEF Bound, Standing, Served, Current, LeaseGranted, Authorized
  <2> QED  BY <1>1, <2>1 DEF Bound, Typed, Enrolled, RowOK, ServerBound
<1>5. PICK s \in Saved, d \in Saved : /\ s = mem[m] /\ d = disk[m] /\ StateOK(s) /\ StateOK(d)
                                      /\ s.id = d.id /\ s.generation = d.generation
                                      /\ bindings[m].generation # 0 => d.id
  BY Fits DEF IdentityOK
<1>6. run[m] \in Thread /\ ThreadOK(mem[m], run[m])
  BY Fits
<1>7. PICK t \in Thread : /\ t = [run[m] EXCEPT !.pc = "apply", !.answer = NoAnswer]
                          /\ t.pc = "apply" /\ t.selected = run[m].selected
  <2> DEFINE x == [run[m] EXCEPT !.pc = "apply", !.answer = NoAnswer]
  <2>1. x \in Thread /\ x.pc = "apply" /\ x.selected = run[m].selected
    BY <1>6 DEF Thread, Pc
  <2> HIDE DEF x
  <2> QED  BY <2>1 DEF x
<1>8. Moves(m, s, d, t)
  BY <1>1, <1>5, <1>7 DEF NodeLease, Moves, Bound, Typed
<1>9. ThreadTyped(t) /\ ThreadOK(s, t)'
  BY <1>1, <1>5, <1>6, <1>7 DEF ThreadTyped, ThreadOK, NeedsApproval
<1>10. t.pc # "proving" /\ t.pc # "registered" /\ Sound
  BY <1>1, <1>7 DEF Sound
<1> QED  BY <1>1, <1>3, <1>4, <1>5, <1>8, <1>9, <1>10, BothMove

\* A key binds one machine to the generation that waits for one.
LEMMA CompleteServer ==
  ASSUME Bound, Told, NEW m \in Machine, Complete(m)
  PROVE  /\ Evolves /\ Honest' /\ ServerBound' /\ bindings'[m].generation # 0
         /\ \A n \in Machine : n # m => bindings'[n] = bindings[n]
         /\ bindings[m].generation = 0 /\ mem[m].id /\ disk[m].id
<1> DEFINE k == run[m].key  g == node.generation
<1>1. /\ k \in Key /\ mem[m].id /\ disk[m].id /\ bindings[m].generation = 0
  BY Fits DEF Complete, ThreadTyped, IdentityOK
<1>2. /\ keys[k].used = Nobody /\ keys[k].generation = g /\ node.state = "pending"
      /\ g \in 1..MaxRevision /\ g \in 0..MaxRevision /\ g # 0
  BY NodeAssumption DEF Complete, Usable, Bound, Typed, Generation
<1>3. /\ node' = [node EXCEPT !.state = "active"]
      /\ keys' = [keys EXCEPT ![k].used = m]
      /\ bindings' = [bindings EXCEPT ![m] = [generation |-> g, revoked |-> FALSE]]
      /\ UNCHANGED <<configs, ops, certs, done>>
  BY <1>2 DEF Complete
<1> HIDE DEF k
<1>4. /\ node \in [state : State, generation : Generation, revision : 0..MaxRevision,
                   report : 0..MaxRevision]
      /\ keys \in [Key -> KeyRow] /\ bindings \in [Machine -> Binding]
  BY DEF Bound, Typed
<1>5. /\ node' \in [state : State, generation : Generation, revision : 0..MaxRevision,
                    report : 0..MaxRevision]
      /\ node'.state = "active" /\ node'.generation = g /\ node'.revision = node.revision
  BY <1>3, <1>4 DEF State
<1>6. /\ keys' \in [Key -> KeyRow] /\ keys'[k].used = m /\ keys'[k].generation = g
      /\ \A j \in Key : j # k => keys'[j] = keys[j]
  BY <1>1, <1>2, <1>3, <1>4 DEF KeyRow
<1>7. /\ bindings' \in [Machine -> Binding]
      /\ bindings'[m].generation = g /\ bindings'[m].revoked = FALSE
      /\ \A n \in Machine : n # m => bindings'[n] = bindings[n]
  BY <1>2, <1>3, <1>4 DEF Binding
<1>8. \A n \in Machine : ~Current(n) /\ bindings[n].generation # g
  BY <1>2 DEF Bound, Standing, Served, RowOK
<1>9. certs = {}
  BY <1>2 DEF Bound, Standing
<1>10. Evolves /\ Honest'
  <2>1. node.revision \in Nat
    BY <1>4, NodeAssumption
  <2> QED  BY <1>3, <1>5, <2>1, SameOps
<1>11. Standing'
  <2>1. \A n \in Machine : Current(n)' <=> n = m
    BY <1>2, <1>7, <1>8 DEF Current
  <2> QED  BY <1>3, <1>5, <1>7, <1>9, <2>1 DEF Standing, Served
<1>12. RowOK'
  <2>1. g <= node.revision
    BY <1>2 DEF Bound, RowOK
  <2>2. \A n \in Machine : bindings'[n].generation <= g
                           /\ (bindings'[n].revoked => bindings'[n].generation # 0)
    BY <1>2, <1>7 DEF Bound, RowOK
  <2>3. \A j \in Key : keys'[j].used # Nobody => keys'[j].generation # 0
    BY <1>2, <1>6 DEF Bound, RowOK
  <2> QED  BY <1>3, <1>5, <2>1, <2>2, <2>3 DEF Bound, RowOK
<1>13. \A j \in Key : keys'[j].used # Nobody =>
         bindings'[keys'[j].used].generation = keys'[j].generation
  <2>1. ASSUME NEW j \in Key, j # k, keys[j].used # Nobody
        PROVE  keys[j].used # m
    BY <1>1, <2>1 DEF Bound, Enrolled, RowOK
  <2>2. \A j \in Key : keys[j].used # Nobody => keys[j].used \in Machine
    BY <1>4 DEF KeyRow
  <2> QED  BY <1>6, <1>7, <2>1, <2>2 DEF Bound, Enrolled
<1>14. \A x, y \in Machine : bindings'[x].generation # 0 /\ x # y =>
         bindings'[x].generation # bindings'[y].generation
  BY <1>7, <1>8 DEF Bound, Enrolled
<1>15. ServerBound'
  BY <1>3, <1>5, <1>6, <1>7, <1>9, <1>11, <1>12, <1>13, <1>14 DEF Bound, Typed, ServerBound
<1> QED  BY <1>1, <1>2, <1>7, <1>10, <1>15

\* Verification binds the machine, whether or not its answer arrives.
LEMMA CompleteStep == ASSUME Bound, Told, NEW m \in Machine, Complete(m)  PROVE Bound' /\ Told'
<1>1. /\ Evolves /\ Honest' /\ ServerBound' /\ bindings'[m].generation # 0
      /\ \A n \in Machine : n # m => bindings'[n] = bindings[n]
      /\ bindings[m].generation = 0 /\ mem[m].id /\ disk[m].id
  BY CompleteServer
<1>2. UNCHANGED <<mem, disk, done, late>>
  BY DEF Complete
<1>3. PICK s \in Saved, d \in Saved : /\ s = mem[m] /\ d = disk[m] /\ StateOK(s) /\ StateOK(d)
                                      /\ s.id /\ s.id = d.id /\ s.generation = d.generation
  BY <1>1, Fits DEF IdentityOK
<1>4. run[m] \in Thread
  BY Fits
<1>5. PICK t \in Thread : t.pc \in {"idle", "registered"} /\ run' = [run EXCEPT ![m] = t]
  <2> DEFINE x == [run[m] EXCEPT !.pc = "registered", !.key = Nobody]
             y == [run[m] EXCEPT !.pc = "idle", !.key = Nobody]
  <2>1. x \in Thread /\ x.pc = "registered" /\ y \in Thread /\ y.pc = "idle"
    BY <1>4 DEF Thread, Pc
  <2>2. run' = [run EXCEPT ![m] = x] \/ run' = [run EXCEPT ![m] = y]
    BY DEF Complete, Bound, Typed
  <2> HIDE DEF x, y
  <2> QED  BY <2>1, <2>2
<1>6. Moves(m, s, d, t)
  BY <1>2, <1>3, <1>5 DEF Moves, Bound, Typed
<1>7. ThreadTyped(t) /\ ThreadOK(s, t)' /\ t.pc # "proving"
  BY <1>5 DEF ThreadTyped, ThreadOK
<1>8. Fault \/ Sound
  BY DEF Complete
<1>9. s.generation \in {mem[m].generation, bindings'[m].generation}
  BY <1>3
<1> QED  BY <1>1, <1>2, <1>3, <1>6, <1>7, <1>8, <1>9, BothMove

\* The first report is one that the control plane accepts.
LEMMA FirstReportOK ==
  ASSUME Bound, NEW m \in Machine, bindings[m].generation # 0
  PROVE  FirstReport(m) \in Request /\ RequestOK(FirstReport(m))
<1> DEFINE ts == [o \in Rev |-> "none"]
<1>1. ts \in [Rev -> Task] /\ \A o \in Rev : ts[o] = "none"
  BY DEF Task
<1>2. bindings[m].generation \in Generation /\ 0 \in 0..MaxRevision
      /\ node.revision \in 0..MaxRevision
  BY NodeAssumption DEF Bound, Typed, Binding, Generation
<1> HIDE DEF ts
<1>3. FirstReport(m) = [machine |-> m, generation |-> bindings[m].generation, applied |-> 0,
                        config |-> NoPort, tasks |-> ts]
  BY DEF FirstReport, ts
<1> QED  BY <1>1, <1>2, <1>3 DEF Request, RequestOK

\* The two versions of a saved state that has the binding's generation: without the
\* answer to the first report and with it.
WithBinding(x, m) == [x EXCEPT !.generation = bindings[m].generation]
WithAnswer(x, m) == [WithBinding(x, m) EXCEPT !.desired = node.revision]

\* Both are in order.
LEMMA BoundStates ==
  ASSUME Bound, Told, NEW m \in Machine, NEW x \in Saved, StateOK(x), x.id = mem[m].id,
         x.generation = mem[m].generation, bindings[m].generation # 0,
         NEW y, y \in {WithBinding(x, m), WithAnswer(x, m)}
  PROVE  /\ y \in Saved /\ StateOK(y) /\ y.id = mem[m].id
         /\ y.generation = bindings[m].generation
<1>1. PICK s \in Saved : s = WithBinding(x, m) /\ StateOK(s)
  BY Rebound DEF WithBinding
<1>2. s.id = mem[m].id /\ s.generation = bindings[m].generation
  BY <1>1 DEF WithBinding, Saved
<1>3. node.revision \in 0..MaxRevision
  BY DEF Bound, Typed
<1>4. PICK d : d = [s EXCEPT !.desired = node.revision]
  OBVIOUS
<1>5. /\ d \in Saved /\ d.id = s.id /\ d.generation = s.generation /\ d.applied = s.applied
      /\ d.config = s.config /\ d.tasks = s.tasks /\ d.desired = node.revision
  BY <1>3, <1>4 DEF Saved
<1>6. StateOK(d)
  BY <1>1, <1>3, <1>5 DEF StateOK
<1> QED  BY <1>1, <1>2, <1>4, <1>5, <1>6 DEF WithAnswer

\* The generation is saved, and then the answer to the first report.
LEMMA RegisterStep == ASSUME Bound, Told, NEW m \in Machine, Register(m)  PROVE Bound' /\ Told'
<1> DEFINE B == Written(m, WithBinding(disk[m], m))
<1>1. run[m].pc = "registered" /\ UNCHANGED <<certs, done, late>>
  BY DEF Register
<1>2. /\ run[m] \in Thread /\ bindings[m].generation # 0
      /\ mem[m] \in Saved /\ disk[m] \in Saved /\ StateOK(mem[m]) /\ StateOK(disk[m])
      /\ disk[m].id = mem[m].id /\ disk[m].generation = mem[m].generation /\ disk[m].id
  BY <1>1, Fits DEF IdentityOK
<1>3. PICK t \in Thread : t.pc = "idle" /\ run' = [run EXCEPT ![m] = t]
  <2> DEFINE x == [run[m] EXCEPT !.pc = "idle"]
  <2>1. x \in Thread /\ x.pc = "idle"
    BY <1>2 DEF Thread, Pc
  <2>2. run' = [run EXCEPT ![m] = x]
    BY DEF Register, Bound, Typed
  <2> HIDE DEF x
  <2> QED  BY <2>1, <2>2
<1>4. ThreadTyped(t) /\ t.pc # "proving" /\ t.pc # "registered"
      /\ \A s : ThreadOK(s, t) /\ ThreadOK(s, t)'
  BY <1>3 DEF ThreadTyped, ThreadOK
<1>5. CASE Fault /\ UNCHANGED <<mem, disk, server>>
  BY <1>1, <1>3, <1>4, <1>5, ThreadMoves
<1>6. \A s \in {WithBinding(mem[m], m), WithAnswer(mem[m], m)},
         d \in {WithBinding(disk[m], m), WithAnswer(mem[m], m)} :
        /\ s \in Saved /\ StateOK(s) /\ s.id /\ s.generation = bindings[m].generation
        /\ d \in Saved /\ StateOK(d) /\ d.id /\ d.generation = bindings[m].generation
  <2>1. mem[m].id
    BY <1>2
  <2>2. \A s : s \in {WithBinding(mem[m], m), WithAnswer(mem[m], m)} =>
          s \in Saved /\ StateOK(s) /\ s.id = mem[m].id /\ s.generation = bindings[m].generation
    BY <1>2, BoundStates
  <2>3. \A d : d \in {WithBinding(disk[m], m), WithAnswer(disk[m], m)} =>
          d \in Saved /\ StateOK(d) /\ d.id = mem[m].id /\ d.generation = bindings[m].generation
    BY <1>2, BoundStates
  <2> QED  BY <2>1, <2>2, <2>3
<1>7. CASE /\ Memory(m, WithBinding(mem[m], m)) /\ B /\ UNCHANGED server /\ (Fault \/ Sound)
  <2>1. PICK s \in Saved, d \in Saved :
          /\ Moves(m, s, d, t) /\ StateOK(s) /\ s.id /\ s.generation = bindings[m].generation
          /\ StateOK(d) /\ d.id /\ d.generation = bindings[m].generation
    BY <1>3, <1>6, <1>7 DEF Memory, Written, Moves
  <2>2. s.id = d.id
    BY <2>1, SavedFields
  <2> QED  BY <1>1, <1>4, <1>7, <2>1, <2>2, AgentMoves, Faults
<1>8. CASE /\ Commit(FirstReport(m)) /\ (Fault \/ Sound)
           /\ \/ Memory(m, WithBinding(mem[m], m)) /\ B
              \/ Memory(m, WithAnswer(mem[m], m)) /\ Written(m, WithAnswer(mem[m], m))
              \/ Memory(m, WithAnswer(mem[m], m)) /\ B
  <2>1. PICK q \in Request : q = FirstReport(m) /\ RequestOK(q)
    BY <1>2, FirstReportOK
  <2>2. Evolves /\ Honest' /\ ServerBound' /\ UNCHANGED bindings
    BY <1>1, <1>8, <2>1, Committed
  <2>3. PICK s \in Saved, d \in Saved :
          /\ Moves(m, s, d, t) /\ StateOK(s) /\ s.id /\ s.generation = bindings[m].generation
          /\ StateOK(d) /\ d.id /\ d.generation = bindings[m].generation
    BY <1>3, <1>6, <1>8 DEF Memory, Written, Moves
  <2>4. s.id = d.id
    BY <2>3, SavedFields
  <2> QED  BY <1>1, <1>4, <1>8, <2>2, <2>3, <2>4, BothMove
<1> QED  BY <1>5, <1>7, <1>8 DEF Register, WithBinding, WithAnswer, Sound

-----------------------------------------------------------------------------
(* The administrator.                                                      *)

\* An order of the administrator moves the control plane and nothing else.
LEMMA AdministratorMoves ==
  ASSUME Bound, Told, Evolves, Honest', ServerBound', UNCHANGED <<agent, late>>,
         faults' \in 0..MaxFaults,
         \A n \in Machine : bindings'[n].generation = bindings[n].generation
  PROVE  Bound' /\ Told'
<1>1. UNCHANGED <<disk, mem, run, done>> /\ late' \subseteq late
  BY DEF agent
<1> QED  BY <1>1, ServerTold, ServerStep

\* The types of the control plane.
LEMMA ServerTypes ==
  ASSUME Bound
  PROVE  /\ node \in [state : State, generation : Generation, revision : 0..MaxRevision,
                      report : 0..MaxRevision]
         /\ node.revision \in 0..MaxRevision /\ node.generation \in 1..MaxRevision
         /\ configs \in [Rev -> Port \cup {NoPort}]
         /\ keys \in [Key -> KeyRow] /\ bindings \in [Machine -> Binding] /\ ops \in [Rev -> Op]
         /\ certs \subseteq Machine /\ faults \in 0..MaxFaults
BY DEF Bound, Typed, Generation

\* Revoking the keys that nobody used changes no key that somebody did.
LEMMA RevokedKeys ==
  ASSUME Bound
  PROVE  /\ KeysRevoked \in [Key -> KeyRow]
         /\ \A k \in Key : /\ KeysRevoked[k].used = keys[k].used
                           /\ KeysRevoked[k].generation = keys[k].generation
BY ServerTypes DEF KeysRevoked, KeyRow

\* Only the keys change, and no key that somebody used.
LEMMA KeysMove ==
  ASSUME Bound, Told, UNCHANGED <<node, configs, bindings, ops, certs, agent, late>>,
         keys' \in [Key -> KeyRow], Fault \/ Sound,
         \A k \in Key : /\ keys'[k].used = keys[k].used
                        /\ keys[k].used # Nobody => keys'[k].generation = keys[k].generation
  PROVE  Bound' /\ Told'
<1>1. UNCHANGED done /\ node.revision \in Nat
  BY ServerTypes, NodeAssumption DEF agent
<1>2. Evolves /\ Honest'
  BY <1>1, SameOps
<1>3. ServerBound'
  <2>1. Standing'
    BY DEF Bound, Standing, Served, Current
  <2>2. RowOK'
    BY DEF Bound, RowOK
  <2> QED  BY <2>1, <2>2, ServerTypes DEF Bound, Enrolled, ServerBound
<1> QED  BY <1>2, <1>3, AdministratorMoves, Faults

\* A node is created with its first configuration.
LEMMA CreateStep == ASSUME Bound, Told, NEW p \in Port, Create(p)  PROVE Bound' /\ Told'
<1>1. /\ node.state = "none" /\ node' = [node EXCEPT !.state = "pending", !.revision = 1]
      /\ configs' = [configs EXCEPT ![1] = p]
      /\ UNCHANGED <<keys, bindings, ops, certs, agent, late, faults>> /\ UNCHANGED done
  BY DEF Create, agent
<1>2. 1 \in 1..MaxRevision /\ 1 \in 0..MaxRevision
  BY NodeAssumption
<1>3. /\ node' \in [state : State, generation : Generation, revision : 0..MaxRevision,
                    report : 0..MaxRevision]
      /\ node'.state = "pending" /\ node'.generation = node.generation /\ node'.revision = 1
      /\ configs' \in [Rev -> Port \cup {NoPort}]
  BY <1>1, <1>2, ServerTypes DEF State, Rev
<1>4. node.revision = 0 /\ node.generation = 1
  BY <1>1 DEF Bound, RowOK
<1>5. Evolves /\ Honest'
  BY <1>1, <1>3, <1>4, SameOps
<1>6. ServerBound'
  <2>1. Standing'
    BY <1>1, <1>3 DEF Bound, Standing, Served, Current
  <2>2. RowOK'
    BY <1>1, <1>3, <1>4 DEF Bound, RowOK, Rev
  <2> QED  BY <1>1, <1>3, <2>1, <2>2, ServerTypes DEF Bound, Enrolled, ServerBound
<1> QED  BY <1>1, <1>5, <1>6, AdministratorMoves, ServerTypes

\* A key is issued, which revokes the unused ones, or a key expires.
LEMMA IssueKeyStep ==
  ASSUME Bound, Told, NEW k \in Key, IssueKey(k) \/ KeyExpires(k)
  PROVE  Bound' /\ Told'
<1>1. CASE IssueKey(k)
  <2> DEFINE row == [generation |-> node.generation, revision |-> node.revision,
                     usable |-> TRUE, used |-> Nobody]
  <2>1. keys[k].used = Nobody
    BY <1>1 DEF IssueKey, Bound, RowOK
  <2>2. row \in KeyRow /\ row.used = Nobody
    BY ServerTypes, NodeAssumption DEF KeyRow
  <2>3. keys' = [KeysRevoked EXCEPT ![k] = row]
    BY <1>1 DEF IssueKey
  <2> HIDE DEF row
  <2>4. /\ keys' \in [Key -> KeyRow]
        /\ \A j \in Key : /\ keys'[j].used = keys[j].used
                          /\ keys[j].used # Nobody => keys'[j].generation = keys[j].generation
    BY <2>1, <2>2, <2>3, RevokedKeys
  <2>5. UNCHANGED <<node, configs, bindings, ops, certs, agent, late, faults>>
    BY <1>1 DEF IssueKey
  <2> QED  BY <2>4, <2>5, KeysMove DEF Sound
<1>2. CASE KeyExpires(k)
  <2>1. /\ keys' = [keys EXCEPT ![k].usable = FALSE] /\ Fault
        /\ UNCHANGED <<node, configs, bindings, ops, certs, agent, late>>
    BY <1>2 DEF KeyExpires
  <2>2. /\ keys' \in [Key -> KeyRow]
        /\ \A j \in Key : keys'[j].used = keys[j].used /\ keys'[j].generation = keys[j].generation
    BY <2>1, ServerTypes DEF KeyRow
  <2> QED  BY <2>1, <2>2, KeysMove
<1> QED  BY <1>1, <1>2

\* A new revision with a configuration of its own.
LEMMA ConfigureStep == ASSUME Bound, Told, NEW p \in Port, Configure(p)  PROVE Bound' /\ Told'
<1> DEFINE rev == node.revision + 1
<1>1. /\ node.state \notin {"none", "revoked"} /\ node.revision < MaxRevision
      /\ node' = [node EXCEPT !.revision = @ + 1] /\ configs' = [configs EXCEPT ![rev] = p]
      /\ keys' = KeysRevoked
      /\ UNCHANGED <<bindings, ops, certs, agent, late, faults>> /\ UNCHANGED done
  BY DEF Configure, agent
<1>2. rev \in Rev /\ rev \in 0..MaxRevision /\ rev \in Nat /\ rev > node.revision
      /\ node.revision \in Nat
  BY <1>1, ServerTypes, NodeAssumption DEF Rev
<1>3. /\ node' \in [state : State, generation : Generation, revision : 0..MaxRevision,
                    report : 0..MaxRevision]
      /\ node'.state = node.state /\ node'.generation = node.generation /\ node'.revision = rev
      /\ configs' \in [Rev -> Port \cup {NoPort}]
  BY <1>1, <1>2, ServerTypes
<1>4. \A r \in 1..node.revision : configs'[r] = configs[r]
  BY <1>1, <1>2, ServerTypes DEF Rev
<1>5. Evolves /\ Honest'
  BY <1>1, <1>2, <1>3, <1>4, SameOps
<1>6. ServerBound'
  <2>1. Standing'
    BY <1>1, <1>3 DEF Bound, Standing, Served, Current
  <2>2. node'.generation <= node'.revision
    BY <1>1, <1>2, <1>3, ServerTypes DEF Bound, RowOK
  <2>3. \A o \in Rev : o > node'.revision => ops'[o] = NoOp
    BY <1>1, <1>2, <1>3 DEF Bound, RowOK, Rev
  <2>4. RowOK'
    BY <1>1, <1>3, <2>2, <2>3, RevokedKeys DEF Bound, RowOK
  <2> QED  BY <1>1, <1>3, <2>1, <2>4, ServerTypes, RevokedKeys DEF Bound, Enrolled, ServerBound
<1> QED  BY <1>1, <1>5, <1>6, AdministratorMoves, ServerTypes

\* Every order leaves bindings and certificates to suit the state that it leads to.
LEMMA OrderStanding ==
  ASSUME Bound, NEW action, Order(action)
  PROVE  Standing'
<1>1. /\ node.state \notin {"none", "revoked"} /\ Allowed(action)
      /\ node'.state = Target(action)
      /\ node'.generation = IF action = "replace" THEN node.generation + 1 ELSE node.generation
      /\ certs' = CertsRevoked(action) /\ bindings' = BindingsRevoked(action)
  BY DEF Order
<1>2. node.state \in {"pending", "active", "draining", "disabled"}
  BY <1>1, ServerTypes DEF State
<1>3. \A m \in Machine :
        bindings'[m] = IF action \in Permanent /\ Current(m)
                         THEN [bindings[m] EXCEPT !.revoked = TRUE] ELSE bindings[m]
  BY <1>1 DEF BindingsRevoked
<1>4. CASE action \in Permanent
  <2>1. \A m \in Machine : ~Current(m)'
    BY <1>3, <1>4, ServerTypes DEF Current, Binding
  <2>2. certs' = {}
    BY <1>1, <1>4 DEF CertsRevoked, Bound, Standing
  <2>3. node'.state \in {"revoked", "pending"}
    BY <1>1, <1>4 DEF Target, Permanent
  <2> QED  BY <2>1, <2>2, <2>3 DEF Standing, Served
<1>5. CASE action \notin Permanent
  <2>1. node'.generation = node.generation /\ \A m \in Machine : Current(m)' <=> Current(m)
    BY <1>1, <1>3, <1>5 DEF Permanent, Current
  <2>2. \A m \in Machine : bindings'[m] = bindings[m]
    BY <1>3, <1>5
  <2>3. Served' <=> Served
    BY <2>1 DEF Served
  <2>4. CASE action = "disable"
    <3>1. certs' = {}
      BY <1>1, <2>4 DEF CertsRevoked, Bound, Standing
    <3>2. Served /\ node'.state = "disabled"
      BY <1>1, <2>4 DEF Allowed, Target
    <3> QED  BY <2>1, <2>2, <2>3, <3>1, <3>2 DEF Bound, Standing
  <2>5. CASE action # "disable"
    <3>1. certs' = certs
      BY <1>1, <1>5, <2>5 DEF CertsRevoked
    <3>2. node'.state = node.state \/ (node.state \in {"active", "draining", "disabled"}
                                       /\ node'.state \in {"active", "draining"})
      BY <1>1, <1>5, <2>5 DEF Allowed, Target, Permanent
    <3>3. Served' <=> node'.state \in {"active", "draining", "disabled"}
      BY <2>3, <3>2 DEF Bound, Standing
    <3>4. \A m \in certs' : Current(m)' /\ node'.state \in {"active", "draining"}
      BY <2>1, <3>1, <3>2, ServerTypes DEF Bound, Standing
    <3>5. \A m, n \in Machine : Current(m)' /\ Current(n)' => m = n
      BY <2>1 DEF Bound, Standing
    <3>6. \A m \in Machine : Current(m)' => bindings'[m].generation = node'.generation
      BY <2>1, <2>2 DEF Bound, Standing
    <3> QED  BY <3>3, <3>4, <3>5, <3>6 DEF Standing
  <2> QED  BY <2>4, <2>5
<1> QED  BY <1>4, <1>5

\* An order creates an operation of its own and reopens none.
LEMMA OrderServer ==
  ASSUME Bound, Told, NEW action \in Orders, Order(action)
  PROVE  /\ Evolves /\ Honest' /\ ServerBound' /\ UNCHANGED <<agent, late, faults>>
         /\ \A n \in Machine : bindings'[n].generation = bindings[n].generation
         /\ \A n \in Machine : bindings[n].revoked => bindings'[n] = bindings[n]
         /\ node.revision + 1 \in Rev /\ ops[node.revision + 1] = NoOp
         /\ \A o \in Rev : o # node.revision + 1 => ops'[o] = ops[o]
<1> DEFINE rev == node.revision + 1
           g == IF action = "replace" THEN node.generation + 1 ELSE node.generation
<1>1. /\ node.state \notin {"none", "revoked"} /\ node.revision < MaxRevision
      /\ node' = [state |-> Target(action), generation |-> g, revision |-> rev,
                  report |-> IF action = "replace" THEN 0 ELSE node.report]
      /\ configs' = [configs EXCEPT ![rev] = configs[node.revision]]
      /\ keys' = IF action = "restart" THEN keys ELSE KeysRevoked
      /\ certs' = CertsRevoked(action) /\ bindings' = BindingsRevoked(action)
      /\ UNCHANGED <<agent, late, faults>> /\ UNCHANGED done
  BY DEF Order, agent
<1>2. PICK row : /\ row = [action |-> action, generation |-> g, expired |-> FALSE,
                           state |-> IF action \in Immediate THEN "succeeded" ELSE "pending"]
                 /\ ops' = [ops EXCEPT ![rev] = row]
  BY DEF Order
<1>3. /\ rev \in Rev /\ rev \in 0..MaxRevision /\ rev \in Nat /\ rev > node.revision
      /\ node.revision \in Rev /\ node.revision \in Nat
      /\ node.generation <= node.revision /\ g \in Generation /\ g \in 0..MaxRevision
      /\ g <= rev /\ node.generation <= g /\ node.generation \in Nat
      /\ action = "replace" => node.generation < g
  <2>1. node.generation <= node.revision
    BY <1>1 DEF Bound, RowOK
  <2> QED  BY <1>1, <2>1, ServerTypes, NodeAssumption DEF Rev, Generation
<1> HIDE DEF g
<1>4. node'.state \in State
  <2>1. node.state \in State
    BY ServerTypes
  <2> QED  BY <1>1, <2>1 DEF Target, State
<1>5. /\ node' \in [state : State, generation : Generation, revision : 0..MaxRevision,
                    report : 0..MaxRevision]
      /\ node'.generation = g /\ node'.revision = rev
      /\ configs' \in [Rev -> Port \cup {NoPort}]
      /\ \A r \in 1..node.revision : configs'[r] = configs[r]
  BY <1>1, <1>3, <1>4, ServerTypes, NodeAssumption DEF Rev
<1>6. /\ row \in Op /\ row.generation = g
      /\ row.state = "succeeded" => row.action \in Immediate
  BY <1>2, <1>3 DEF Op, OpState, Open
<1>7. /\ ops' \in [Rev -> Op] /\ ops'[rev] = row
      /\ \A o \in Rev : o # rev => ops'[o] = ops[o]
  BY <1>2, <1>3, <1>6, ServerTypes
<1>8. ops[rev] = NoOp
  BY <1>3 DEF Bound, RowOK
<1>9. \A n \in Machine : /\ bindings'[n] \in Binding
                         /\ bindings'[n].generation = bindings[n].generation
                         /\ bindings[n].revoked => bindings'[n] = bindings[n]
                         /\ bindings'[n].revoked => bindings[n].revoked \/ Current(n)
  BY <1>1, ServerTypes DEF BindingsRevoked, Current, Binding
<1>10. bindings' \in [Machine -> Binding]
  BY <1>1, <1>9 DEF BindingsRevoked
<1>11. Evolves
  <2>1. ASSUME NEW o \in Rev, ops[o].generation # 0
        PROVE  /\ ops'[o] = ops[o] /\ (Closed(o) => Closed(o)')
    <3>1. o # rev
      BY <1>8, <2>1 DEF NoOp
    <3>2. ops'[o] = ops[o]
      BY <1>7, <3>1
    <3>3. ops[o].generation \in 0..MaxRevision /\ ops[o].generation <= node.generation
      BY ServerTypes DEF Bound, RowOK, Op
    <3>4. ops[o].generation # node.generation => ops[o].generation # g
      BY <1>3, <3>3, NodeAssumption
    <3> QED  BY <1>5, <3>2, <3>4 DEF Closed
  <2> QED  BY <1>3, <1>5, <2>1 DEF Evolves
<1>12. Honest'
  BY <1>1, <1>6, <1>7 DEF Honest, Told, HistoryOK
<1>13. RowOK'
  <2>1. node'.state \in {"none", "pending"} =>
          action = "replace" \/ (node.state = "pending" /\ g = node.generation)
    BY <1>1 DEF Target, g
  <2>2. \A n \in Machine : bindings[n].generation \in 0..MaxRevision
    BY ServerTypes DEF Binding
  <2>3. \A n \in Machine :
         /\ bindings'[n].generation <= g
         /\ node'.state \in {"none", "pending"} => bindings'[n].generation # g
         /\ bindings'[n].revoked => bindings'[n].generation # 0
    BY <1>3, <1>9, <2>1, <2>2, NodeAssumption DEF Bound, RowOK, Current
  <2>4. \A k \in Key : keys'[k].used # Nobody => keys'[k].generation # 0
    BY <1>1, RevokedKeys DEF Bound, RowOK
  <2>5. ASSUME NEW o \in Rev
        PROVE  ops'[o].generation <= g /\ (o > rev => ops'[o] = NoOp)
    <3>1. ops[o].generation \in 0..MaxRevision /\ ops[o].generation <= node.generation
          /\ (o > node.revision => ops[o] = NoOp)
      BY ServerTypes DEF Bound, RowOK, Op
    <3> QED  BY <1>3, <1>6, <1>7, <3>1, NodeAssumption DEF Rev
  <2>6. node'.state # "none"
    BY <1>1 DEF Target
  <2> QED  BY <1>3, <1>5, <2>3, <2>4, <2>5, <2>6 DEF RowOK
<1>14. ServerBound'
  <2>1. Standing'
    BY OrderStanding
  <2>2. /\ keys' \in [Key -> KeyRow]
        /\ \A k \in Key : keys'[k].used = keys[k].used /\ keys'[k].generation = keys[k].generation
    BY <1>1, RevokedKeys, ServerTypes
  <2>3. \A k \in Key : keys[k].used \in Machine \cup {Nobody}
    BY ServerTypes DEF KeyRow
  <2>4. \A k \in Key : keys'[k].used # Nobody =>
          bindings'[keys'[k].used].generation = keys'[k].generation
    BY <1>9, <2>2, <2>3 DEF Bound, Enrolled
  <2>5. \A x, y \in Machine : bindings'[x].generation # 0 /\ x # y =>
         bindings'[x].generation # bindings'[y].generation
    BY <1>9 DEF Bound, Enrolled
  <2>6. certs' \subseteq Machine
    BY <1>1, ServerTypes DEF CertsRevoked
  <2> QED  BY <1>5, <1>7, <1>10, <1>13, <2>1, <2>2, <2>4, <2>5, <2>6 DEF ServerBound
<1> QED  BY <1>1, <1>3, <1>7, <1>8, <1>9, <1>11, <1>12, <1>14

\* The time of an operation is over.
LEMMA ExpiresStep ==
  ASSUME Bound, Told, NEW o \in Rev, OperationExpires(o)
  PROVE  Bound' /\ Told'
<1>1. /\ ops' = [ops EXCEPT ![o].expired = TRUE] /\ ops[o].state \in Open /\ Fault
      /\ UNCHANGED <<node, configs, keys, bindings, certs, agent, late>> /\ UNCHANGED done
  BY DEF OperationExpires, agent
<1>2. /\ ops' \in [Rev -> Op]
      /\ \A p \in Rev : /\ ops'[p].generation = ops[p].generation
                        /\ ops'[p].action = ops[p].action /\ ops'[p].state = ops[p].state
                        /\ ops[p].expired => ops'[p].expired
                        /\ p # o => ops'[p] = ops[p]
  BY <1>1, ServerTypes DEF Op
<1>3. Evolves /\ Honest'
  <2>1. node.revision \in Nat
    BY ServerTypes, NodeAssumption
  <2> QED  BY <1>1, <1>2, <2>1 DEF Evolves, Honest, Closed, Told, HistoryOK
<1>4. ServerBound'
  <2>1. Standing'
    BY <1>1 DEF Bound, Standing, Served, Current
  <2>2. ops[o] # NoOp
    BY <1>1 DEF NoOp, Open
  <2>3. RowOK'
    BY <1>1, <1>2, <2>2 DEF Bound, RowOK
  <2> QED  BY <1>1, <1>2, <2>1, <2>3, ServerTypes DEF Bound, Enrolled, ServerBound
<1> QED  BY <1>1, <1>3, <1>4, AdministratorMoves, Faults

\* Every operation of the administrator keeps the invariant.
LEMMA AdministratorStep == ASSUME Bound, Told, Administrator  PROVE Bound' /\ Told'
<1>1. ASSUME NEW action \in Orders, Order(action)
      PROVE  Bound' /\ Told'
  BY <1>1, OrderServer, AdministratorMoves, ServerTypes
<1> QED  BY <1>1, CreateStep, ConfigureStep, IssueKeyStep, ExpiresStep DEF Administrator

-----------------------------------------------------------------------------
(* The invariant and the theorems.                                         *)

\* At the beginning there is no node and no machine has an identity.
LEMMA NodeInit == Init => Bound /\ Told
<1> SUFFICES ASSUME Init  PROVE Bound /\ Told
  OBVIOUS
<1>1. 0 \in 0..MaxRevision /\ 1 \in Generation /\ 0 \in 0..MaxFaults /\ 0 \in 0..2
  BY NodeAssumption DEF Generation
<1>2. PICK fresh : fresh = Fresh
  OBVIOUS
<1>3. /\ fresh \in Saved /\ fresh.id = FALSE /\ fresh.generation = 0 /\ fresh.applied = 0
      /\ fresh.desired = 0 /\ fresh.config = NoPort /\ \A o \in Rev : fresh.tasks[o] = "none"
  <2>1. [o \in Rev |-> "none"] \in [Rev -> Task]
    BY DEF Task
  <2> QED  BY <1>1, <1>2, <2>1 DEF Fresh, Saved
<1>4. Idle \in Thread /\ Idle.pc = "idle"
  BY IdleThread
<1>5. NoOp \in Op /\ NoOp.generation = 0 /\ NoOp.state = "none"
  BY <1>1 DEF NoOp, Op, OpState
<1>6. /\ \A m \in Machine : /\ mem[m] = fresh /\ disk[m] = fresh /\ run[m] = Idle
                            /\ bindings[m].generation = 0 /\ bindings[m].revoked = FALSE
      /\ \A o \in Rev : ops[o] = NoOp /\ done[o] = 0
      /\ \A k \in Key : keys[k].used = Nobody
  BY <1>2 DEF Init
<1>7. Typed
  <2>1. /\ node \in [state : State, generation : Generation, revision : 0..MaxRevision,
                     report : 0..MaxRevision]
        /\ configs \in [Rev -> Port \cup {NoPort}]
        /\ certs \subseteq Machine /\ late \subseteq Request
        /\ done \in [Rev -> 0..2] /\ faults \in 0..MaxFaults
    BY <1>1 DEF Init, State
  <2>2. keys \in [Key -> KeyRow]
    BY <1>1 DEF Init, KeyRow
  <2>3. bindings \in [Machine -> Binding] /\ ops \in [Rev -> Op]
    BY <1>1, <1>5 DEF Init, Binding
  <2>4. disk \in [Machine -> Saved] /\ mem \in [Machine -> Saved] /\ run \in [Machine -> Thread]
    BY <1>2, <1>3, <1>4 DEF Init
  <2>5. \A m \in Machine : ThreadTyped(run[m])
    BY <1>4, <1>6 DEF ThreadTyped
  <2> QED  BY <2>1, <2>2, <2>3, <2>4, <2>5 DEF Typed
<1>8. Bound
  <2>1. Standing
    BY <1>6 DEF Init, Standing, Served, Current
  <2>2. Enrolled
    BY <1>6 DEF Enrolled
  <2>3. RowOK
    BY <1>5, <1>6, NodeAssumption DEF Init, RowOK, Generation, Rev
  <2>4. \A m \in Machine : IdentityOK(m)
    BY <1>3, <1>4, <1>6 DEF IdentityOK
  <2> QED  BY <1>7, <2>1, <2>2, <2>3, <2>4 DEF Bound
<1>9. Told
  <2>1. \A m \in Machine : StateOK(mem[m]) /\ StateOK(disk[m])
    BY <1>3, <1>5, <1>6 DEF StateOK, Init
  <2>2. \A m \in Machine : ThreadOK(mem[m], run[m])
    BY <1>4, <1>6 DEF ThreadOK
  <2>3. HistoryOK
    BY <1>5, <1>6 DEF HistoryOK
  <2> QED  BY <2>1, <2>2, <2>3 DEF Told, Init
<1> QED  BY <1>8, <1>9

\* Every step keeps the invariant.
LEMMA NodeNext == Bound /\ Told /\ [Next]_vars => Bound' /\ Told'
<1> SUFFICES ASSUME Bound, Told, [Next]_vars  PROVE Bound' /\ Told'
  OBVIOUS
<1>1. CASE Administrator
  BY <1>1, AdministratorStep
<1>2. ASSUME NEW m \in Machine, Agent(m)
      PROVE  Bound' /\ Told'
  <2>1. CASE MakeIdentity(m)
    BY <2>1, MakeIdentityStep
  <2>2. CASE (\E k \in Key : Challenge(m, k)) \/ Refused(m) \/ Recover(m)
    BY <2>2, EnrollingStep
  <2>3. CASE Complete(m) \/ Register(m)
    BY <2>3, CompleteStep, RegisterStep
  <2>4. CASE Sync(m) \/ Receive(m)
    BY <2>4, SyncStep, ReceiveStep
  <2>5. CASE SyncRefused(m) \/ SyncLost(m) \/ AnswerLost(m) \/ LeaseFails(m)
    BY <2>5, FailingStep
  <2>6. CASE (\E o \in Rev : Take(m, o)) \/ Prepared(m)
    BY <2>6, TakeStep, PreparedStep
  <2>7. CASE Disabled(m) \/ Apply(m)
    BY <2>7, ApplyingStep
  <2>8. CASE ApplyFails(m)
    BY <2>8, ApplyingStep, FailingStep DEF ApplyFails
  <2>9. CASE NodeLease(m) \/ LeaseKept(m) \/ EngineStops(m)
    BY <2>9, NodeLeaseStep, GoingOnStep
  <2>10. CASE Approve(m) \/ Crash(m)
    BY <2>10, ApproveStep, CrashStep
  <2> QED  BY <1>2, <2>1, <2>2, <2>3, <2>4, <2>5, <2>6, <2>7, <2>8, <2>9, <2>10 DEF Agent
<1>3. CASE \E q \in late : HandleLate(q)
  BY <1>3, LateStep
<1>4. CASE UNCHANGED vars
  <2>1. UNCHANGED <<agent, late, faults>> /\ UNCHANGED server /\ UNCHANGED <<done, faults>>
    BY <1>4 DEF vars, agent
  <2>2. UNCHANGED <<node, configs, keys, bindings, ops, certs>> /\ node.revision \in Nat
    BY <2>1, ServerTypes, NodeAssumption DEF server
  <2>3. Evolves /\ Honest' /\ ServerBound'
    BY <2>1, <2>2, SameOps, ServerIs
  <2> QED  BY <2>1, <2>2, <2>3, AdministratorMoves, ServerTypes
<1> QED  BY <1>1, <1>2, <1>3, <1>4 DEF Next

\* The invariant.
THEOREM NodeInvariant == Spec => [](Bound /\ Told)
BY NodeInit, NodeNext, PTL DEF Spec

\* The types, what a node's state says of its bindings and certificates, and that a
\* machine keeps the identity that the control plane has bound, for every number of
\* machines, keys, ports and revisions.
THEOREM NodeStanding == Spec => []NodeInv
<1>1. Bound => NodeInv
  <2> SUFFICES ASSUME Bound  PROVE TypeOK
    BY DEF NodeInv, Bound
  <2> QED  BY ServerTypes DEF Bound, Typed, TypeOK, State, KeyRow, Binding, Op, OpState, Thread, Pc
<1> QED  BY <1>1, NodeInvariant, PTL

\* What is recorded as succeeded was carried out, and a restart is carried out once.
THEOREM NodeOutcomes == Spec => []OutcomesTrue
<1>1. Told => OutcomesTrue
  BY DEF Told, HistoryOK, OutcomesTrue
<1> QED  BY <1>1, NodeInvariant, PTL

\* The report of a machine in good standing is accepted, now and when it arrives late.
THEOREM NodeReports == Spec => []ReportsAccepted
<1>1. Bound /\ Told => ReportsAccepted
  <2> SUFFICES ASSUME Bound, Told  PROVE ReportsAccepted
    OBVIOUS
  <2>1. ASSUME NEW q \in Request, RequestOK(q)
        PROVE  ReportValid(q)
    BY <2>1 DEF RequestOK, ReportValid, Request
  <2>2. \A q \in late : q \in Request /\ RequestOK(q)
    BY DEF Bound, Typed, Told
  <2> QED  BY <2>1, <2>2, RequestFits DEF ReportsAccepted
<1> QED  BY <1>1, NodeInvariant, PTL

-----------------------------------------------------------------------------
(* Action properties.                                                      *)

\* The steps that leave the configuration of every machine as it was.
LEMMA ConfigKept ==
  ASSUME Bound, Told, NEW m \in Machine,
         \/ MakeIdentity(m) \/ Complete(m) \/ Refused(m) \/ Recover(m) \/ Register(m)
         \/ \E k \in Key : Challenge(m, k)
         \/ Sync(m) \/ SyncRefused(m) \/ SyncLost(m) \/ AnswerLost(m) \/ Receive(m)
         \/ \E o \in Rev : Take(m, o)
         \/ Prepared(m) \/ NodeLease(m) \/ LeaseKept(m) \/ LeaseFails(m)
         \/ Approve(m) \/ EngineStops(m)
  PROVE  \A n \in Machine : mem'[n].config = mem[n].config
<1>1. mem \in [Machine -> Saved] /\ mem[m] \in Saved /\ StateOK(mem[m]) /\ disk[m] \in Saved
  BY Fits DEF Bound, Typed
<1>2. ASSUME NEW s \in Saved, s.config = mem[m].config, mem' = [mem EXCEPT ![m] = s]
      PROVE  \A n \in Machine : mem'[n].config = mem[n].config
  BY <1>1, <1>2
<1>3. ASSUME NEW s \in Saved, NEW stop, s.config = mem[m].config, Abort(m, s, stop)
      PROVE  \A n \in Machine : mem'[n].config = mem[n].config
  BY <1>2, <1>3, FailedIs DEF Abort, Memory
<1>4. CASE Complete(m) \/ Refused(m) \/ Recover(m) \/ (\E k \in Key : Challenge(m, k))
           \/ Sync(m) \/ NodeLease(m) \/ LeaseKept(m) \/ EngineStops(m)
  BY <1>4 DEF Complete, Refused, Recover, Challenge, Sync, NodeLease, LeaseKept, EngineStops
<1>5. CASE SyncRefused(m) \/ SyncLost(m) \/ AnswerLost(m) \/ LeaseFails(m)
  <2>1. \E stop : Abort(m, mem[m], stop)
    <3>1. SyncRefused(m) => \E stop : Abort(m, mem[m], stop)
      BY Zenon DEF SyncRefused
    <3> QED  BY <1>5, <3>1 DEF SyncLost, AnswerLost, LeaseFails
  <2> QED  BY <1>1, <1>3, <2>1
<1>6. CASE Prepared(m)
  BY <1>1, <1>3, <1>6 DEF Prepared
<1>7. CASE MakeIdentity(m)
  <2>1. [mem[m] EXCEPT !.id = TRUE] \in Saved /\ [mem[m] EXCEPT !.id = TRUE].config = mem[m].config
    BY <1>1 DEF Saved
  <2> QED  BY <1>2, <1>7, <2>1 DEF MakeIdentity, Memory
<1>8. CASE Register(m)
  <2>1. CASE UNCHANGED mem
    BY <2>1
  <2>2. CASE mem' # mem
    <3>1. run[m].pc = "registered"
      BY <1>8 DEF Register
    <3>2. bindings[m].generation # 0
      BY <3>1, Fits DEF IdentityOK
    <3>3. \A y \in {WithBinding(mem[m], m), WithAnswer(mem[m], m)} :
            y \in Saved /\ y.config = mem[m].config
      <4>1. \A y \in {WithBinding(mem[m], m), WithAnswer(mem[m], m)} : y \in Saved
        BY <1>1, <3>2, BoundStates
      <4> QED  BY <1>1, <4>1 DEF WithBinding, WithAnswer, Saved
    <3>4. PICK y \in {WithBinding(mem[m], m), WithAnswer(mem[m], m)} : mem' = [mem EXCEPT ![m] = y]
      BY <1>8, <2>2 DEF Register, Memory, WithBinding, WithAnswer
    <3> QED  BY <1>2, <3>3, <3>4
  <2> QED  BY <2>1, <2>2
<1>9. CASE Receive(m)
  <2>1. PICK s \in Saved : s = Received(m) /\ s.config = mem[m].config
    BY <1>9, ReceivedIs DEF Receive
  <2>2. Failed(s) \in Saved /\ Failed(s).config = mem[m].config
    BY <2>1, FailedIs
  <2>3. mem' = [mem EXCEPT ![m] = s] \/ mem' = [mem EXCEPT ![m] = Failed(s)]
    BY <1>9, <2>1 DEF Receive, Memory
  <2> QED  BY <1>2, <2>1, <2>2, <2>3
<1>10. ASSUME NEW o \in Rev, Take(m, o)
       PROVE  \A n \in Machine : mem'[n].config = mem[n].config
  <2>1. PICK s \in Saved : s = Taken(m, o) /\ s.config = mem[m].config
    BY <1>10, TakenState DEF Take
  <2> QED  BY <1>2, <1>3, <1>10, <2>1 DEF Take, Taken, Memory
<1>11. CASE Approve(m)
  <2>1. PICK s : s = [mem[m] EXCEPT !.approved = mem[m].desired, !.listen = configs[mem[m].desired]]
    OBVIOUS
  <2>2. s.config = mem[m].config /\ mem' = [mem EXCEPT ![m] = s]
    BY <1>1, <1>11, <2>1 DEF Approve, Memory, Saved
  <2> QED  BY <1>1, <2>2
<1> QED  BY <1>4, <1>5, <1>6, <1>7, <1>8, <1>9, <1>10, <1>11

\* What is applied is what was applied before, or was approved as it is.
LEMMA AppliedApproved ==
  ASSUME Bound, Told, NEW m \in Machine, run[m].pc \in {"lease", "apply"}, mem[m].applied # 0
  PROVE  /\ Applied(m).config # mem[m].config => Applied(m).approved = Applied(m).applied
<1>1. StateOK(mem[m]) /\ ThreadOK(mem[m], run[m]) /\ mem[m].applied \in 0..MaxRevision
  BY Fits, SavedFields
<1>2. /\ Applied(m).applied = run[m].selected /\ Applied(m).config = configs[run[m].selected]
      /\ Applied(m).approved = mem[m].approved
  BY AppliedIs
<1>3. CASE run[m].selected = mem[m].applied
  BY <1>1, <1>2, <1>3, NodeAssumption DEF StateOK
<1>4. CASE ~NeedsApproval(mem[m], run[m].selected)
  BY <1>2, <1>4 DEF NeedsApproval
<1> QED  BY <1>1, <1>3, <1>4 DEF ThreadOK

\* Every step changes a port as approved.
LEMMA PortNext == Bound /\ Told /\ [Next]_vars => [PortStep]_vars
<1> SUFFICES ASSUME Bound, Told, [Next]_vars  PROVE PortStep \/ UNCHANGED vars
  OBVIOUS
<1>1. mem \in [Machine -> Saved]
  BY DEF Bound, Typed
<1>2. ASSUME \A n \in Machine : mem'[n].config = mem[n].config
      PROVE  PortStep
  BY <1>2 DEF PortStep
<1>3. CASE Administrator \/ (\E q \in late : HandleLate(q))
  <2>1. UNCHANGED mem
    BY <1>3 DEF Administrator, HandleLate, Create, Configure, IssueKey, KeyExpires, Order,
                OperationExpires, agent
  <2> QED  BY <1>2, <2>1
<1>4. ASSUME NEW m \in Machine, Agent(m)
      PROVE  PortStep
  <2>1. CASE Disabled(m) \/ Apply(m) \/ ApplyFails(m)
    <3>1. run[m].pc \in {"lease", "apply"}
      BY <2>1 DEF Disabled, Apply, ApplyFails
    <3>2. PICK a \in Saved : a = Applied(m)
      BY <3>1, AppliedIs
    <3>3. mem[m].applied # 0 /\ a.config # mem[m].config => a.approved = a.applied
      BY <3>1, <3>2, AppliedApproved
    <3>4. mem[m] \in Saved
      BY <1>1
    <3>5. PICK s \in {a, Failed(a), Failed(mem[m])} : mem' = [mem EXCEPT ![m] = s]
      BY <2>1, <3>2 DEF Disabled, Apply, ApplyFails, Abort, Memory
    <3>6. s.config = mem[m].config \/ (s.config = a.config /\ s.approved = a.approved
                                       /\ s.applied = a.applied)
      BY <3>2, <3>4, <3>5, FailedIs
    <3>7. mem'[m] = s /\ \A n \in Machine : n # m => mem'[n] = mem[n]
      BY <1>1, <3>5
    <3> QED  BY <3>3, <3>6, <3>7 DEF PortStep
  <2>2. CASE Crash(m)
    BY <1>1, <2>2 DEF Crash, PortStep
  <2>3. CASE ~(Disabled(m) \/ Apply(m) \/ ApplyFails(m) \/ Crash(m))
    <3>1. \A n \in Machine : mem'[n].config = mem[n].config
      BY <1>4, <2>3, ConfigKept DEF Agent
    <3> QED  BY <1>2, <3>1
  <2> QED  BY <2>1, <2>2, <2>3
<1> QED  BY <1>3, <1>4 DEF Next

\* The port that a machine uses changes only as its operator approved, or back to what
\* is on disk.
THEOREM NodePorts == Spec => PortApproved
BY NodeInvariant, PortNext, PTL DEF Spec, PortApproved

\* What SyncNode has settled is not settled again.
LEMMA CommitEnds ==
  ASSUME Bound, NEW q \in Request, Commit(q)
  PROVE  EndsStep
<1>1. \A o \in Rev : ops[o].state \notin Open => ops'[o] = ops[o]
  BY SettledIs DEF Commit
<1>2. UNCHANGED bindings /\ node'.state = node.state
  BY ServerTypes DEF Commit
<1> QED  BY <1>1, <1>2 DEF EndsStep

\* No step reopens what has ended.
LEMMA EndsNext == Bound /\ Told /\ [Next]_vars => [EndsStep]_vars
<1> SUFFICES ASSUME Bound, Told, [Next]_vars  PROVE EndsStep \/ UNCHANGED vars
  OBVIOUS
<1>1. ASSUME UNCHANGED <<ops, bindings>>, node'.state = node.state
      PROVE  EndsStep
  BY <1>1 DEF EndsStep
<1>2. CASE \E q \in late : HandleLate(q)
  BY <1>2, CommitEnds DEF HandleLate, Bound, Typed
<1>3. CASE Administrator
  <2>1. ASSUME NEW p \in Port, Create(p) \/ Configure(p)
        PROVE  EndsStep
    <3>1. UNCHANGED <<ops, bindings>> /\ node.state # "revoked"
      BY <2>1 DEF Create, Configure
    <3> QED  BY <3>1 DEF EndsStep
  <2>2. ASSUME NEW k \in Key, IssueKey(k) \/ KeyExpires(k)
        PROVE  EndsStep
    BY <1>1, <2>2 DEF IssueKey, KeyExpires
  <2>3. ASSUME NEW action \in Orders, Order(action)
        PROVE  EndsStep
    <3>1. \A o \in Rev : ops[o].state \notin Open \cup {"none"} => ops'[o].state = ops[o].state
      BY <2>3, OrderServer DEF NoOp
    <3>2. node.state # "revoked"
      BY <2>3 DEF Order
    <3> QED  BY <2>3, <3>1, <3>2, OrderServer DEF EndsStep
  <2>4. ASSUME NEW o \in Rev, OperationExpires(o)
        PROVE  EndsStep
    <3>1. \A p \in Rev : ops'[p].state = ops[p].state
      BY <2>4, ServerTypes DEF OperationExpires, Op
    <3> QED  BY <2>4, <3>1 DEF OperationExpires, EndsStep
  <2> QED  BY <1>3, <2>1, <2>2, <2>3, <2>4 DEF Administrator
<1>4. ASSUME NEW m \in Machine, Agent(m)
      PROVE  EndsStep
  <2>1. CASE Sync(m)
    <3>1. Commit(RequestOf(m)) /\ Registered(m)
      BY <2>1 DEF Sync
    <3> QED  BY <3>1, RequestFits, CommitEnds
  <2>2. CASE Register(m)
    <3>1. CASE Commit(FirstReport(m))
      <4>1. bindings[m].generation # 0
        BY <2>2, Fits DEF Register, IdentityOK
      <4> QED  BY <3>1, <4>1, FirstReportOK, CommitEnds
    <3>2. CASE UNCHANGED server
      BY <1>1, <3>2 DEF server
    <3> QED  BY <2>2, <3>1, <3>2 DEF Register
  <2>3. CASE Complete(m)
    <3>1. /\ \A n \in Machine : n # m => bindings'[n] = bindings[n]
          /\ bindings[m].generation = 0
      BY <2>3, CompleteServer
    <3>2. ~bindings[m].revoked
      BY <3>1 DEF Bound, RowOK
    <3>3. UNCHANGED ops /\ node.state # "revoked"
      BY <2>3 DEF Complete, Usable
    <3> QED  BY <3>1, <3>2, <3>3 DEF EndsStep
  <2>4. CASE NodeLease(m)
    BY <1>1, <2>4 DEF NodeLease
  <2>5. CASE ~(Sync(m) \/ Register(m) \/ Complete(m) \/ NodeLease(m))
    <3>1. UNCHANGED server
      BY <1>4, <2>5 DEF Agent, MakeIdentity, Refused, Recover, Challenge, SyncRefused, SyncLost,
           AnswerLost, Receive, Take, Disabled, Prepared, LeaseKept, LeaseFails, Apply,
           ApplyFails, Approve, EngineStops, Crash
    <3> QED  BY <1>1, <3>1 DEF server
  <2> QED  BY <2>1, <2>2, <2>3, <2>4, <2>5
<1> QED  BY <1>2, <1>3, <1>4 DEF Next

\* What has ended stays ended: operations, bindings, the node.
THEOREM NodeEnds == Spec => EndsAreFinal
BY NodeInvariant, EndsNext, PTL DEF Spec, EndsAreFinal
=============================================================================
