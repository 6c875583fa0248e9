--------------------------- MODULE CommandLedger ---------------------------
(***************************************************************************)
(* The agent's ledger of writes: what the local service makes of a command *)
(* that the desktop or the command line sends it, from the entry it saves  *)
(* before anything is sent, through repeated requests, lost answers,       *)
(* failing saves, crashes and changes of account, to a recorded outcome.   *)
(*                                                                         *)
(* One thread at a time works on the ledger (commandMu); what it does      *)
(* between two releases of r.op, or between two requests, is a step here,  *)
(* and `run` says where it stands.  The lock r.op is held in the steps     *)
(* report, post and confirm only: account-poll may change the identity     *)
(* before, between and after them.                                         *)
(*                                                                         *)
(* The control plane is mutateChecked and operationReceipt, reduced to one *)
(* receipt per device and key.  Idempotency says what they promise of any  *)
(* requests, and the requests of this agent are an instance of it          *)
(* (WritesImplemented).  The client's clock is Lag behind the server's.    *)
(***************************************************************************)
EXTENDS Integers, FiniteSets

CONSTANTS
  Devices,    \* how many identities the agent has, one after the other
  Command,    \* command IDs, which are also the Idempotency-Keys
  KindOf,     \* "enter" (create, join, owner-join), "leave" (leave, close),
              \* "logout", or "manage" (the others)
  Held,       \* commands that a required update may hold back in the agent
  Revocable,  \* devices that an administrator may revoke
  Window,     \* the hour of a deadline, and of the ledger's memory after it
  Lag,        \* how far the client's clock is behind
  MaxClock,   \* bound on time, for model checking
  NoCommand   \* the command of an idle ledger

Device == 1..Devices
Unsent == -100

ASSUME LedgerAssumption ==
  /\ Devices \in Nat \ {0} /\ NoCommand \notin Command
  /\ KindOf \in [Command -> {"enter", "leave", "manage", "logout"}]
  /\ Held \subseteq {c \in Command : KindOf[c] = "enter"} /\ Revocable \subseteq Device
  /\ Window \in Nat /\ Lag \in 0..Window /\ MaxClock \in Nat

VARIABLES
  clock,      \* the database's clock
  deadline,   \* the deadline fixed for each command issued, or Unsent
  ledger,     \* Runtime.commands
  disk,       \* operations.bin
  run,        \* where the thread that holds commandMu stands
  identity,   \* Runtime.identity, the same in memory and on disk
  signedOut,  \* identity.SignedOut; r.api is nil exactly then
  receipts,   \* table idempotency, by device and key
  applied,    \* how often each command took effect as each device
  reported,   \* the commands under whose key the version of a device was recorded
  revoked,    \* user_devices.revoked
  wire        \* copies of requests whose answers nobody will read

server == <<receipts, applied, reported, revoked>>
vars == <<clock, deadline, ledger, disk, run, identity, signedOut, server, wire>>

NoEntry == [state |-> "none", known |-> FALSE, request |-> FALSE, device |-> 0]
Entry == [state : {"submitting", "reconciling", "succeeded", "rejected", "unresolved"},
          known : BOOLEAN, request : BOOLEAN, device : Device]
Idle == [cmd |-> NoCommand, step |-> "idle", replay |-> FALSE, out |-> "ok", known |-> FALSE]
Working ==
  [cmd : Command, step : {"dispatch", "report", "post", "confirm", "record", "look", "adopt"},
   replay : BOOLEAN, out : {"ok", "refused", "unknown", "unready"}, known : BOOLEAN]

TypeOK ==
  /\ clock \in Nat /\ deadline \in [Command -> Int]
  /\ ledger \in [Command -> Entry \cup {NoEntry}]
  /\ disk \in [Command -> Entry \cup {NoEntry}]
  /\ run \in Working \cup {Idle}
  /\ identity \in Device /\ signedOut \in BOOLEAN
  /\ receipts \in [Device -> [Command -> {"none", "report", "ok", "refused"}]]
  /\ applied \in [Device -> [Command -> Nat]]
  /\ reported \subseteq Device \X Command
  /\ revoked \subseteq Device
  /\ wire \subseteq Device \X Command \X {"report", "write"}

Init ==
  /\ clock = 0 /\ deadline = [c \in Command |-> Unsent]
  /\ ledger = [c \in Command |-> NoEntry] /\ disk = ledger
  /\ run = Idle /\ identity = 1 /\ signedOut = FALSE
  /\ receipts = [d \in Device |-> [c \in Command |-> "none"]]
  /\ applied = [d \in Device |-> [c \in Command |-> 0]]
  /\ reported = {} /\ revoked = {} /\ wire = {}

-----------------------------------------------------------------------------
(* The control plane.                                                      *)

NeverExpired(c) == FALSE
Expired(c) == deadline[c] <= clock

\* A request of device d under key c is processed: "denied" to a revoked device,
\* "conflict" to a request that is not the one recorded, and "failed" without a
\* receipt.  A version report is a write like any other.
Handle(d, c, path, answer) ==
  LET row == receipts[d][c]
      mine == (row = "report") <=> (path = "report")
  IN \/ d \in revoked /\ answer = "denied" /\ UNCHANGED server
     \/ d \notin revoked /\ Expired(c) /\ answer = "expired" /\ UNCHANGED server
     \/ /\ d \notin revoked /\ ~Expired(c) /\ row # "none"
        /\ answer = IF ~mine THEN "conflict" ELSE IF row = "refused" THEN "refused" ELSE "ok"
        /\ UNCHANGED server
     \/ /\ d \notin revoked /\ ~Expired(c) /\ row = "none" /\ path = "report"
        /\ answer = "ok"
        /\ receipts' = [receipts EXCEPT ![d][c] = "report"]
        /\ reported' = reported \cup {<<d, c>>}
        /\ UNCHANGED <<applied, revoked>>
     \/ /\ d \notin revoked /\ ~Expired(c) /\ row = "none" /\ path = "write"
        /\ answer \in {"ok", "refused"}
        /\ receipts' = [receipts EXCEPT ![d][c] = answer]
        /\ applied' = [applied EXCEPT ![d][c] = IF answer = "ok" THEN @ + 1 ELSE @]
        /\ revoked' = IF answer = "ok" /\ KindOf[c] = "logout" THEN revoked \cup {d} ELSE revoked
        /\ UNCHANGED reported
     \/ answer = "failed" /\ UNCHANGED server

\* A copy reaches the server though the agent has stopped waiting for its answer.
Deliver(copy) ==
  /\ copy \in wire /\ wire' = wire \ {copy}
  /\ \E answer \in {"ok", "refused", "conflict", "expired", "denied"} :
       Handle(copy[1], copy[2], copy[3], answer)
  /\ UNCHANGED <<clock, deadline, ledger, disk, run, identity, signedOut>>

Sweep ==
  /\ receipts' = [d \in Device |-> [c \in Command |->
                    IF deadline[c] < clock THEN "none" ELSE receipts[d][c]]]
  /\ UNCHANGED <<clock, deadline, ledger, disk, run, identity, signedOut, applied, reported,
                 revoked, wire>>

Revoke(d) ==
  /\ revoked' = revoked \cup {d}
  /\ UNCHANGED <<clock, deadline, ledger, disk, run, identity, signedOut, receipts, applied,
                 reported, wire>>

-----------------------------------------------------------------------------
(* The ledger.                                                             *)

ClientClock == clock - Lag
Late(c) == deadline[c] <= ClientClock
OpenUnanswered(l) == {c \in Command : l[c].state = "submitting"}
Open(l) == {c \in Command : l[c].state \in {"submitting", "reconciling"}}
Settled(c) == ledger[c].state \in {"succeeded", "rejected"}

\* saveCommands: what is in memory stays, whether the file could be written or not.
Save(l) == ledger' = l /\ disk' \in {disk, l}
SaveBeforeSending(l) == ledger' = l /\ disk' = l

\* Entries an hour past their deadline are dropped when the next command comes.
Remembered ==
  [c \in Command |-> IF deadline[c] # Unsent /\ ClientClock - deadline[c] > Window
                       THEN NoEntry ELSE ledger[c]]

\* runCommand for a new ID; with the entry on disk the command is dispatched.
Issue(c) ==
  /\ run = Idle /\ deadline[c] = Unsent /\ Open(ledger) = {}
  /\ deadline' = [deadline EXCEPT ![c] = ClientClock + Window]
  /\ SaveBeforeSending([Remembered EXCEPT ![c] =
       [state |-> "submitting", known |-> FALSE, request |-> TRUE, device |-> identity]])
  /\ run' = [Idle EXCEPT !.cmd = c, !.step = "dispatch"]
  /\ UNCHANGED <<clock, identity, signedOut, server, wire>>

Step(from, to) == run.step = from /\ run' = [run EXCEPT !.step = to]
Done(out, known) == run' = [run EXCEPT !.step = "record", !.out = out, !.known = known]
OnlyRun == UNCHANGED <<clock, deadline, ledger, disk, identity, signedOut, server, wire>>

\* dispatch takes r.op.  Before a room is entered the software version is reported,
\* unless that was done less than a minute ago.
Dispatch ==
  /\ run.step = "dispatch"
  /\ \/ signedOut /\ Done("unready", FALSE)
     \/ ~signedOut /\ run.cmd \in Held /\ Done("refused", FALSE)
     \/ ~signedOut /\ KindOf[run.cmd] = "enter" /\ Step("dispatch", "report")
     \/ ~signedOut /\ Step("dispatch", "post")
  /\ OnlyRun

\* An attempt whose answer will not be read.
Send ==
  /\ run.step \in {"report", "post"}
  /\ wire' = wire \cup {<<identity, run.cmd, IF run.step = "report" THEN "report" ELSE "write">>}
  /\ UNCHANGED <<clock, deadline, ledger, disk, run, identity, signedOut, server>>

\* reportVersion, with the command's own key and deadline; its result is ignored.
Report ==
  /\ Step("report", "post")
  /\ \E answer \in {"ok", "conflict", "expired", "denied", "failed"} :
       Handle(identity, run.cmd, "report", answer)
  /\ UNCHANGED <<clock, deadline, ledger, disk, identity, signedOut, wire>>

\* The answers that runCommand and reconcileCommand take for final.
AllAnswers == {"refused", "conflict", "expired", "denied", "failed"}
Final == {"refused", "conflict", "expired", "denied"}

Confirms(c) == KindOf[c] \in {"enter", "leave"}

SignOutLater == signedOut' = signedOut /\ Done("ok", TRUE)
\* What signing out writes before the outcome is recorded: the identity, or, if that
\* cannot be written, nothing.
SignOut == \/ signedOut' = TRUE /\ Done("ok", TRUE)
           \/ signedOut' = signedOut /\ Done("unknown", TRUE)

\* The POST of the command is answered.
Post(answer) ==
  /\ run.step = "post" /\ Handle(identity, run.cmd, "write", answer)
  /\ IF KindOf[run.cmd] = "logout" /\ answer \in {"ok", "denied"} THEN SignOut
     ELSE /\ UNCHANGED signedOut
          /\ IF answer = "ok"
               THEN IF Confirms(run.cmd) THEN Step("post", "confirm") ELSE Done("ok", TRUE)
               ELSE Done(IF answer \in Final THEN "refused" ELSE "unknown", FALSE)
  /\ UNCHANGED <<clock, deadline, ledger, disk, identity, wire>>

\* The attempts are used up or the 35 seconds are over.
GiveUp ==
  /\ run.step = "post" /\ Done("unknown", FALSE)
  /\ OnlyRun

\* applyActionResult reads GET /v2/me, and saves the identity if the room changed.
Confirm ==
  /\ run.step = "confirm"
  /\ \/ identity \notin revoked /\ Done("ok", TRUE)
     \/ identity \in revoked /\ Done("refused", TRUE)
     \/ Done("unknown", TRUE)
  /\ OnlyRun

\* The end of runCommand.
Outcome(entry) ==
  CASE run.out = "ok" -> [entry EXCEPT !.state = "succeeded", !.known = TRUE, !.request = FALSE]
    [] run.out \in {"refused", "unready"} ->
         [entry EXCEPT !.state = "rejected", !.known = run.known, !.request = FALSE]
    [] OTHER -> [entry EXCEPT !.state = "reconciling", !.known = run.known]

Record ==
  LET done == [ledger EXCEPT ![run.cmd] = Outcome(@)]
  IN /\ run.step = "record" /\ ~run.replay
     /\ \/ SaveBeforeSending(done)
        \/ ledger' = [done EXCEPT ![run.cmd].state = "reconciling"] /\ UNCHANGED disk
     /\ run' = Idle
     /\ UNCHANGED <<clock, deadline, identity, signedOut, server, wire>>

-----------------------------------------------------------------------------
(* reconcileCommand, for get-operation or a command sent again.            *)

KeepingRequest(entry, state, known) == [entry EXCEPT !.state = state, !.known = known]
Cleared(entry, state, known) ==
  [entry EXCEPT !.state = state, !.known = known, !.request = FALSE]

OverdueOfThisDevice(c) ==
  Late(c) /\ ~Settled(c) /\ identity = ledger[c].device /\ ~signedOut
Overdue(c) == Late(c) /\ ~Settled(c)

\* Nothing is asked any more once the deadline has passed.
Resolve(c) ==
  /\ run = Idle /\ ledger[c] # NoEntry /\ Overdue(c)
  /\ Save([ledger EXCEPT ![c] = Cleared(@, "unresolved", ledger[c].known)])
  /\ UNCHANGED <<clock, deadline, run, identity, signedOut, server, wire>>

Reconcile(c) ==
  /\ run = Idle /\ ledger[c] # NoEntry /\ ~Late(c)
  /\ ~(KindOf[c] = "logout" /\ ledger[c].state = "succeeded")
  /\ identity = ledger[c].device /\ ~signedOut
  /\ run' = [Idle EXCEPT !.cmd = c, !.step = "look"]
  /\ OnlyRun

\* GET /v2/me/operations/{id}, as the device of the entry and without r.op.
Receipt == receipts[ledger[run.cmd].device][run.cmd]
Granted == ledger[run.cmd].device \notin revoked

\* operationReceipt: every receipt that is not a refusal is a success.
Raw(row) == row
OutcomeOf(row) == IF row = "refused" THEN "refused" ELSE "ok"

MayReplay(entry) ==
  /\ entry.request
  /\ \/ Granted /\ Receipt = "none" /\ ~entry.known
     \/ ~Granted /\ KindOf[run.cmd] = "logout"

Look ==
  /\ run.step = "look"
  /\ \/ /\ MayReplay(ledger[run.cmd])
        /\ run' = [run EXCEPT !.step = "dispatch", !.replay = TRUE]
        /\ UNCHANGED <<ledger, disk>>
     \/ /\ Granted /\ Receipt # "none" /\ Expired(run.cmd)
        /\ Save([ledger EXCEPT ![run.cmd] = Cleared(@, "unresolved", @.known)])
        /\ run' = Idle
     \/ /\ Granted /\ Receipt # "none" /\ ~Expired(run.cmd)
        /\ run' = [run EXCEPT !.step = "adopt", !.out = OutcomeOf(Receipt)]
        /\ UNCHANGED <<ledger, disk>>
     \/ run' = Idle /\ UNCHANGED <<ledger, disk>>  \* every other answer, or none
  /\ UNCHANGED <<clock, deadline, identity, signedOut, server, wire>>

\* The replay is over: it is adopted, recorded as refused, or left as it was.
Replayed ==
  LET c == run.cmd
      left == [ledger EXCEPT ![c] = IF run.out = "refused" THEN Cleared(@, "rejected", run.known)
                                    ELSE KeepingRequest(@, @.state, run.known)]
  IN /\ run.step = "record" /\ run.replay
     /\ \/ run.out = "ok" /\ Step("record", "adopt") /\ UNCHANGED <<ledger, disk>>
        \/ run.out # "ok" /\ Save(left) /\ run' = Idle
     /\ UNCHANGED <<clock, deadline, identity, signedOut, server, wire>>

\* Under r.op, and only for the identity that the command was issued on.
Adoptable(c) ==
  /\ identity = ledger[c].device
  /\ ~signedOut \/ KindOf[c] = "logout"
Adopt ==
  LET c == run.cmd
      state == IF run.out = "ok" THEN "succeeded" ELSE "rejected"
  IN /\ run.step = "adopt"
     /\ run' = Idle
     /\ \/ /\ Adoptable(c)
           /\ (run.out = "ok" /\ Confirms(c)) => identity \notin revoked
           /\ Save([ledger EXCEPT ![c] = Cleared(@, state, run.out = "ok")])
        \/ /\ ~Adoptable(c) \/ (run.out = "ok" /\ Confirms(c))
           /\ UNCHANGED <<ledger, disk>>
     /\ UNCHANGED <<clock, deadline, identity, signedOut, server, wire>>

-----------------------------------------------------------------------------
(* What happens around the ledger.                                         *)

OpHeld == run.step \in {"report", "post", "confirm"}

\* account-poll completes the login of a new device.
Switch ==
  /\ ~OpHeld /\ identity < Devices
  /\ identity' = identity + 1 /\ signedOut' = FALSE
  /\ UNCHANGED <<clock, deadline, ledger, disk, run, server, wire>>

\* The service dies and New loads what is on disk.
Loaded(c) ==
  IF Late(c) /\ c \in Open(disk) THEN Cleared(disk[c], "unresolved", disk[c].known)
  ELSE IF disk[c].state = "submitting" THEN [disk[c] EXCEPT !.state = "reconciling"]
  ELSE disk[c]
Crash ==
  /\ run' = Idle
  /\ ledger' = [c \in Command |-> Loaded(c)]
  /\ UNCHANGED <<clock, deadline, disk, identity, signedOut, server, wire>>

\* The 35 seconds of runCommand end long before the deadline an hour ahead.
InFirstDispatch == run # Idle /\ ~run.replay /\ run.step \notin {"look", "adopt"}
Tick ==
  /\ clock < MaxClock /\ clock' = clock + 1
  /\ InFirstDispatch => clock' < deadline[run.cmd]
  /\ UNCHANGED <<deadline, ledger, disk, run, identity, signedOut, server, wire>>

\* Every step of the thread that is at work, but for an attempt that comes to nothing.
Proceed ==
  \/ Dispatch \/ Report \/ GiveUp \/ Confirm \/ Record \/ Look \/ Replayed \/ Adopt
  \/ \E answer \in AllAnswers \cup {"ok"} : Post(answer)

Next ==
  \/ \E c \in Command : Issue(c) \/ Resolve(c) \/ Reconcile(c)
  \/ Proceed \/ Send
  \/ \E copy \in wire : Deliver(copy)
  \/ Sweep \/ Switch \/ Crash \/ Tick
  \/ \E d \in Revocable : Revoke(d)

Spec == Init /\ [][Next]_vars

\* Requests have timeouts, the desktop asks for an open operation every three seconds
\* (use-operations.ts), and time passes.
FairSpec ==
  Spec /\ WF_vars(Proceed) /\ WF_vars(Tick) /\ \A c \in Command : SF_vars(Resolve(c))

-----------------------------------------------------------------------------

\* Nothing is done for a command that the file does not know: whatever reached the
\* server, or is on its way to it, survives a crash of the agent in the ledger.
WriteAhead ==
  \A d \in Device, c \in Command :
    /\ \/ applied[d][c] > 0 \/ receipts[d][c] # "none"
       \/ \E path \in {"report", "write"} : <<d, c, path>> \in wire
    /\ ClientClock - deadline[c] <= Window
    => disk[c] # NoEntry

\* As each device a command takes effect at most once, through every retry, replay
\* and late copy.
AtMostOnce == \A d \in Device, c \in Command : applied[d][c] <= 1

\* There is never more than one command whose outcome is open, nor would there be
\* after a crash: the desktop follows one.
OneOpen ==
  \A l \in {ledger, disk} : \A c, e \in Command :
    l[c].state \in {"submitting", "reconciling"} /\ l[e].state \in {"submitting", "reconciling"}
      => c = e

\* Once the outcome is settled or cannot be learnt any more, the request, which may
\* hold an invitation code, is gone from memory, and from the file as of its last write
\* ("终态或到期清理含秘密的正文", docs/architecture.md:79).
SecretsCleared ==
  \A l \in {ledger, disk} : \A c \in Command :
    l[c].state \in {"succeeded", "rejected", "unresolved"} => ~l[c].request

\* Until the deadline the recorded outcome of a command is what became of it: it took
\* effect (or its key was used up by a version report), or it never will.  For one
\* device in good standing and an agent that is not held back by a required update.
OutcomesTrue ==
  \A c \in Command : ~Expired(c) =>
    /\ ledger[c].state = "succeeded" \/ ledger[c].known =>
         \E d \in Device : applied[d][c] > 0 \/ receipts[d][c] = "report"
    /\ ledger[c].state = "rejected" /\ ~ledger[c].known =>
         \A d \in Device : applied[d][c] = 0

\* An account that was logged out stays so, whenever the agent dies: a logout is not
\* recorded as done before the identity is saved as signed out.
SignedOutStays ==
  \A c \in Command :
    /\ KindOf[c] = "logout" /\ disk[c].state = "succeeded" /\ identity = disk[c].device
    => signedOut

\* A command does not stay open for ever, although the account may have changed since,
\* although nothing can be saved, and although no request is answered.
PendingEnds ==
  \A c \in Command :
    c \in Open(ledger) /\ deadline[c] + Lag <= MaxClock ~> c \notin Open(ledger)

\* Nothing is known of a command that was not issued, neither here nor there.
UnissuedUntouched ==
  \A c \in Command : deadline[c] = Unsent =>
    /\ ledger[c] = NoEntry /\ disk[c] = NoEntry /\ run.cmd # c
    /\ \A d \in Device :
         applied[d][c] = 0 /\ receipts[d][c] = "none" /\ <<d, c>> \notin reported
    /\ \A copy \in wire : copy[2] # c

\* For two hours a command that was issued is in memory and in the file.
Kept ==
  \A c \in Command : deadline[c] # Unsent /\ ClientClock - deadline[c] <= Window =>
    ledger[c] # NoEntry /\ disk[c] # NoEntry

\* The thread works on a command of the ledger, and on the first dispatch that command
\* is the open one, in memory and in the file.
OnTheOpenCommand ==
  /\ run # Idle => ledger[run.cmd] # NoEntry
  /\ InFirstDispatch => ledger[run.cmd].state = "submitting" /\ disk[run.cmd].state = "submitting"

\* What took effect has its receipt until the deadline.
ReceiptKept ==
  \A d \in Device, c \in Command :
    applied[d][c] > 0 => receipts[d][c] = "ok" \/ Expired(c)

\* A version report has its receipt until the deadline as well.
ReportKept ==
  \A d \in Device, c \in Command :
    <<d, c>> \in reported => receipts[d][c] = "report" \/ Expired(c)

\* A deadline lies no further ahead than the server admits, and was fixed in the past.
FixedBefore == \A c \in Command : deadline[c] <= ClientClock + Window

\* The inductive invariant.  That no second command is open needs to know that the one
\* whose outcome is being recorded was the open one; that nothing is done twice needs
\* the receipt, and that a command not issued leaves no trace.
LedgerInv ==
  /\ TypeOK
  /\ UnissuedUntouched
  /\ Kept
  /\ OnTheOpenCommand
  /\ OneOpen
  /\ SecretsCleared
  /\ ReceiptKept
  /\ AtMostOnce
  /\ ReportKept
  /\ FixedBefore

-----------------------------------------------------------------------------
(* Each device makes two requests under the key of a command, at most, and     *)
(* Issue fixes the deadline of them all.                                       *)
Request == Device \X Command \X {"report", "write"}
ReceiptKey == Device \X Command
RequestKey == [q \in Request |-> <<q[1], q[2]>>]
LeadOf == [q \in Request |-> -Lag]
NothingTold == [q \in Request |-> {}]

DeadlineOf ==
  [q \in Request |-> IF deadline[q[2]] = Unsent THEN -1 ELSE deadline[q[2]]]
ReceiptOf(d, c) ==
  IF receipts[d][c] = "none" THEN [command |-> <<>>, status |-> "refused", expires |-> -1]
  ELSE [command |-> <<d, c, IF receipts[d][c] = "report" THEN "report" ELSE "write">>,
        status |-> IF receipts[d][c] = "refused" THEN "refused" ELSE "ok",
        expires |-> deadline[c]]
EffectsOf ==
  [q \in Request |-> IF q[3] = "write" THEN applied[q[1]][q[2]]
                     ELSE IF <<q[1], q[2]>> \in reported THEN 1 ELSE 0]

\* A transaction waits for nobody here, and nobody is told anything: what the agent
\* makes of the answers is its own affair.
Writes == INSTANCE Idempotency WITH
  Command <- Request, Key <- ReceiptKey, KeyOf <- RequestKey, Lead <- LeadOf, MaxWait <- 0,
  Tolerance <- 0, MaxRuns <- 1, NoCommand <- <<>>,
  deadline <- DeadlineOf, receipts <- [k \in ReceiptKey |-> ReceiptOf(k[1], k[2])],
  applied <- EffectsOf, told <- NothingTold

\* What the control plane does for the agent, the promises of Idempotency hold of it:
\* every change of a receipt or a command's effect is one that mutateChecked and Sweep
\* make, with the deadline of the command (Store.mutateChecked).
\* This is Writes!Spec; that most steps leave alone everything it reads is said first,
\* since TLC sees that sooner.
WritesImplemented ==
  Writes!Init
  /\ [][UNCHANGED <<clock, deadline, receipts, applied, reported>> \/ Writes!Next]_Writes!vars

\* "收据证明历史提交" (docs/architecture.md:79): a receipt proves the commit, so a command
\* recorded as succeeded has taken effect.
SucceededMeansApplied ==
  \A c \in Command :
    KindOf[c] # "logout" /\ ledger[c].state = "succeeded" =>
      \E d \in Device : applied[d][c] > 0

\* "主体、方法、路径、原始 JSON、截止时间全部固定" (docs/architecture.md:77): the subject of a
\* command is fixed, so it takes effect as the device that it was issued on.
AppliedAsIssued ==
  \A d \in Device, c \in Command :
    applied[d][c] > 0 /\ ledger[c] # NoEntry => d = ledger[c].device
=============================================================================
