----------------------- MODULE CommandLedger_proofs ------------------------
(***************************************************************************)
(* The inductive invariant of CommandLedger, for any commands, identities, *)
(* clocks and any interleaving of crashes, failing saves and late copies.  *)
(* Then two more, inductive next to it: that a logout stays done, and that *)
(* for a device in good standing what is recorded is what became of it.    *)
(***************************************************************************)
EXTENDS CommandLedger, TLAPS

State == {"submitting", "reconciling", "succeeded", "rejected", "unresolved"}
Terminal == {"succeeded", "rejected", "unresolved"}
Table == [Command -> Entry \cup {NoEntry}]

\* Clearing an entry keeps it an entry, without its request.
LEMMA ClearedEntry ==
  ASSUME NEW e \in Entry, NEW s \in State, NEW k \in BOOLEAN
  PROVE  /\ Cleared(e, s, k) \in Entry /\ Cleared(e, s, k) # NoEntry
         /\ Cleared(e, s, k).state = s /\ ~Cleared(e, s, k).request
BY DEF Cleared, Entry, NoEntry, State

\* So does leaving the request in place.
LEMMA KeptEntry ==
  ASSUME NEW e \in Entry, NEW s \in State, NEW k \in BOOLEAN
  PROVE  /\ KeepingRequest(e, s, k) \in Entry /\ KeepingRequest(e, s, k) # NoEntry
         /\ KeepingRequest(e, s, k).state = s
         /\ KeepingRequest(e, s, k).request = e.request
BY DEF KeepingRequest, Entry, NoEntry, State

\* What runCommand records is an entry, and a settled one has no request.
LEMMA OutcomeEntry ==
  ASSUME NEW e \in Entry, run \in Working
  PROVE  /\ Outcome(e) \in Entry /\ Outcome(e) # NoEntry
         /\ Outcome(e).state \in Terminal => ~Outcome(e).request
<1>1. run.out \in {"ok", "refused", "unknown", "unready"} /\ run.known \in BOOLEAN
  BY DEF Working
<1>2. CASE run.out = "ok"
  BY <1>2 DEF Outcome, Entry, NoEntry, Terminal
<1>3. CASE run.out \in {"refused", "unready"}
  BY <1>3, <1>1 DEF Outcome, Entry, NoEntry, Terminal
<1>4. CASE run.out = "unknown"
  BY <1>4, <1>1 DEF Outcome, Entry, NoEntry, Terminal
<1> QED  BY <1>1, <1>2, <1>3, <1>4

-----------------------------------------------------------------------------

\* The thread is idle or works on a command, as the type invariant says.
LEMMA IdleType == Idle \notin Working
BY LedgerAssumption DEF Idle, Working

\* The control plane keeps its tables typed, whoever sends what.
LEMMA HandleType ==
  ASSUME TypeOK, NEW d \in Device, NEW c \in Command, NEW path, NEW answer,
         Handle(d, c, path, answer)
  PROVE  /\ receipts' \in [Device -> [Command -> {"none", "report", "ok", "refused"}]]
         /\ applied' \in [Device -> [Command -> Nat]]
         /\ reported' \subseteq Device \X Command
         /\ revoked' \subseteq Device
<1> USE DEF TypeOK, server
<1>1. CASE UNCHANGED server
  BY <1>1
<1>2. CASE /\ receipts' = [receipts EXCEPT ![d][c] = "report"]
           /\ reported' = reported \cup {<<d, c>>} /\ UNCHANGED <<applied, revoked>>
  BY <1>2
<1>3. CASE /\ answer \in {"ok", "refused"}
           /\ receipts' = [receipts EXCEPT ![d][c] = answer]
           /\ applied' = [applied EXCEPT ![d][c] = IF answer = "ok" THEN @ + 1 ELSE @]
           /\ revoked' = IF answer = "ok" /\ KindOf[c] = "logout"
                           THEN revoked \cup {d} ELSE revoked
           /\ UNCHANGED reported
  BY <1>3
<1> QED  BY <1>1, <1>2, <1>3 DEF Handle

\* A request has an effect only where no receipt is, and leaves one.
LEMMA HandleOnce ==
  ASSUME TypeOK, NEW d \in Device, NEW c \in Command, NEW path, NEW answer,
         Handle(d, c, path, answer), deadline' = deadline, clock' = clock,
         ReceiptKept, ReportKept, AtMostOnce
  PROVE  ReceiptKept' /\ ReportKept' /\ AtMostOnce'
<1> USE DEF TypeOK, server, ReceiptKept, ReportKept, AtMostOnce, Expired
<1>1. CASE UNCHANGED server
  BY <1>1
<1>2. CASE /\ receipts[d][c] = "none"
           /\ receipts' = [receipts EXCEPT ![d][c] = "report"]
           /\ reported' = reported \cup {<<d, c>>} /\ UNCHANGED <<applied, revoked>>
  BY <1>2
<1>3. CASE /\ ~Expired(c) /\ receipts[d][c] = "none" /\ answer \in {"ok", "refused"}
           /\ receipts' = [receipts EXCEPT ![d][c] = answer]
           /\ applied' = [applied EXCEPT ![d][c] = IF answer = "ok" THEN @ + 1 ELSE @]
           /\ UNCHANGED reported
  <2>1. applied[d][c] = 0
    BY <1>3
  <2> QED  BY <1>3, <2>1
<1> QED  BY <1>1, <1>2, <1>3 DEF Handle

\* A request of an issued command leaves the others untouched.
LEMMA HandleElsewhere ==
  ASSUME TypeOK, NEW d \in Device, NEW c \in Command, NEW path, NEW answer,
         Handle(d, c, path, answer)
  PROVE  \A e \in Device, x \in Command : x # c =>
           /\ applied'[e][x] = applied[e][x] /\ receipts'[e][x] = receipts[e][x]
           /\ <<e, x>> \in reported' <=> <<e, x>> \in reported
BY DEF TypeOK, Handle, server

-----------------------------------------------------------------------------
(* Steps of the thread that change only where it stands.                   *)

\* What the invariant says of the ledger and the file, apart from the thread.
LedgerOK(l) ==
  /\ l \in Table
  /\ \A c \in Command : l[c].state \in Terminal => ~l[c].request
  /\ \A c \in Command : deadline[c] = Unsent => l[c] = NoEntry
  /\ \A c \in Command : deadline[c] # Unsent /\ ClientClock - deadline[c] <= Window =>
       l[c] # NoEntry
  /\ \A c, e \in Command : c \in Open(l) /\ e \in Open(l) => c = e

\* The part about the control plane.
ServerOK ==
  /\ receipts \in [Device -> [Command -> {"none", "report", "ok", "refused"}]]
  /\ applied \in [Device -> [Command -> Nat]] /\ revoked \subseteq Device
  /\ reported \subseteq Device \X Command
  /\ \A c \in Command : deadline[c] = Unsent =>
       \A d \in Device :
         applied[d][c] = 0 /\ receipts[d][c] = "none" /\ <<d, c>> \notin reported
  /\ ReceiptKept /\ ReportKept /\ AtMostOnce

\* The part about requests under way.
WireOK ==
  /\ wire \subseteq Device \X Command \X {"report", "write"}
  /\ \A copy \in wire : deadline[copy[2]] # Unsent

\* The part about the thread.
RunOK ==
  /\ run \in Working \cup {Idle}
  /\ run # Idle => ledger[run.cmd] # NoEntry /\ deadline[run.cmd] # Unsent
  /\ InFirstDispatch => ledger[run.cmd].state = "submitting" /\ disk[run.cmd].state = "submitting"

\* What is left: the types of the others, and the deadlines.
RestOK == /\ clock \in Nat /\ deadline \in [Command -> Int]
          /\ identity \in Device /\ signedOut \in BOOLEAN
          /\ FixedBefore

\* The invariant, sorted by what the actions change.
LEMMA Sorted ==
  LedgerInv <=> LedgerOK(ledger) /\ LedgerOK(disk) /\ ServerOK /\ WireOK /\ RunOK /\ RestOK
<1> USE DEF Table, Open, Terminal
<1>1. ASSUME LedgerInv
      PROVE  LedgerOK(ledger) /\ LedgerOK(disk) /\ ServerOK /\ WireOK /\ RunOK /\ RestOK
  <2> USE <1>1 DEF LedgerInv
  <2>1. LedgerOK(ledger) /\ LedgerOK(disk)
    BY DEF LedgerOK, TypeOK, UnissuedUntouched, Kept, OneOpen, SecretsCleared
  <2>2. ServerOK
    BY DEF ServerOK, TypeOK, UnissuedUntouched
  <2>3. WireOK
    BY DEF WireOK, TypeOK, UnissuedUntouched
  <2>4. RunOK
    <3>1. run # Idle => run.cmd \in Command
      BY DEF TypeOK, Working
    <3> QED  BY <3>1 DEF RunOK, TypeOK, OnTheOpenCommand, UnissuedUntouched
  <2>5. RestOK
    BY DEF RestOK, TypeOK
  <2> QED  BY <2>1, <2>2, <2>3, <2>4, <2>5
<1>2. ASSUME LedgerOK(ledger), LedgerOK(disk), ServerOK, WireOK, RunOK, RestOK
      PROVE  LedgerInv
  <2> USE <1>2
  <2>1. TypeOK
    BY DEF LedgerOK, ServerOK, WireOK, RunOK, RestOK, TypeOK
  <2>2. UnissuedUntouched
    <3>1. ASSUME NEW c \in Command, deadline[c] = Unsent  PROVE run.cmd # c
      BY <3>1, LedgerAssumption DEF RunOK, Idle
    <3> QED  BY <3>1 DEF UnissuedUntouched, LedgerOK, ServerOK, WireOK
  <2>3. Kept /\ OneOpen /\ SecretsCleared
    BY DEF LedgerOK, Kept, OneOpen, SecretsCleared
  <2>4. OnTheOpenCommand /\ ReceiptKept /\ ReportKept /\ AtMostOnce /\ FixedBefore
    BY DEF RunOK, OnTheOpenCommand, ServerOK, RestOK
  <2> QED  BY <2>1, <2>2, <2>3, <2>4 DEF LedgerInv
<1> QED  BY <1>1, <1>2

\* The same of the next state.
LEMMA SortedNext ==
  LedgerInv' <=> (LedgerOK(ledger) /\ LedgerOK(disk) /\ ServerOK /\ WireOK /\ RunOK /\ RestOK)'
BY Sorted, PTL

-----------------------------------------------------------------------------
(* What stays as it is.                                                    *)

\* The parts together.
Parts == LedgerOK(ledger) /\ LedgerOK(disk) /\ ServerOK /\ WireOK /\ RunOK /\ RestOK

\* A ledger that is not written to stays in order as time goes on.
LEMMA SameLedger ==
  ASSUME Parts, UNCHANGED <<ledger, disk, deadline>>, clock' \in Nat, clock' >= clock
  PROVE  LedgerOK(ledger)' /\ LedgerOK(disk)'
<1>1. Lag \in Int /\ Window \in Int /\ clock \in Int /\ \A c \in Command : deadline[c] \in Int
  BY LedgerAssumption DEF Parts, RestOK
<1>2. \A c \in Command : (ClientClock - deadline[c] <= Window)' => ClientClock - deadline[c] <= Window
  BY <1>1 DEF ClientClock
<1> QED  BY <1>2 DEF Parts, LedgerOK, Open, Table

\* So do the tables of the control plane.
LEMMA SameServer ==
  ASSUME Parts, UNCHANGED <<deadline, receipts, applied, reported, revoked>>,
         clock' \in Nat, clock' >= clock
  PROVE  ServerOK'
BY DEF Parts, ServerOK, RestOK, ReceiptKept, ReportKept, AtMostOnce, Expired

\* The requests under way were those of issued commands.
LEMMA SameWire ==
  ASSUME Parts, UNCHANGED <<deadline, wire>>
  PROVE  WireOK'
BY DEF Parts, WireOK

\* A thread that stands still, on a ledger that does.
LEMMA SameRun ==
  ASSUME Parts, UNCHANGED <<run, ledger, disk, deadline>>
  PROVE  RunOK'
BY DEF Parts, RunOK, InFirstDispatch

\* Only the thread moves on, with the command it had and on no new dispatch.
LEMMA ThreadMoves ==
  ASSUME Parts, run \in Working, run' \in Working, run'.cmd = run.cmd,
         run'.replay = run.replay \/ run'.replay,
         InFirstDispatch \/ run'.step \in {"look", "adopt"} \/ run'.replay,
         UNCHANGED <<ledger, disk, deadline>>
  PROVE  RunOK'
BY IdleType DEF Parts, RunOK, InFirstDispatch

\* The thread lets go of the ledger.
LEMMA ThreadEnds ==
  ASSUME run' = Idle
  PROVE  RunOK'
BY DEF RunOK, InFirstDispatch

-----------------------------------------------------------------------------
(* What is written.                                                        *)

\* One entry is replaced: it was there, is settled without its request, and is open
\* only if it was.
LEMMA EntryReplaced ==
  ASSUME NEW l, LedgerOK(l), NEW c \in Command, l[c] # NoEntry, NEW e \in Entry,
         e.state \in Terminal => ~e.request,
         e.state \in {"submitting", "reconciling"} => c \in Open(l)
  PROVE  LedgerOK([l EXCEPT ![c] = e])
<1>1. e # NoEntry
  BY DEF Entry, NoEntry
<1> QED  BY <1>1 DEF LedgerOK, Open, Table

\* A ledger in order is written to memory, and to the file if that can be written.
LEMMA Saved ==
  ASSUME Parts, NEW l, LedgerOK(l), ledger' = l, disk' \in {disk, l}, UNCHANGED <<clock, deadline>>
  PROVE  LedgerOK(ledger)' /\ LedgerOK(disk)'
BY DEF Parts, LedgerOK, Open, ClientClock

\* An entry of the ledger is one of Entry.
LEMMA EntryThere ==
  ASSUME NEW l, LedgerOK(l), NEW c \in Command, l[c] # NoEntry
  PROVE  l[c] \in Entry
BY DEF LedgerOK, Table

-----------------------------------------------------------------------------
(* The steps.                                                              *)

\* At the start nothing has been issued.
LEMMA Start == Init => LedgerInv
<1> SUFFICES ASSUME Init  PROVE Parts
  BY Sorted DEF Parts
<1>1. LedgerOK(ledger) /\ LedgerOK(disk)
  BY DEF Init, LedgerOK, Table, Open, NoEntry, Terminal
<1>2. ServerOK
  BY DEF Init, ServerOK, ReceiptKept, ReportKept, AtMostOnce
<1>3. WireOK /\ RunOK
  BY DEF Init, WireOK, RunOK, InFirstDispatch
<1>4. RestOK
  <2>1. Unsent \in Int /\ 1 \in Device
    BY LedgerAssumption DEF Unsent, Device
  <2>2. FixedBefore
    BY LedgerAssumption DEF Init, FixedBefore, ClientClock, Unsent
  <2> QED  BY <2>1, <2>2 DEF Init, RestOK
<1> QED  BY <1>1, <1>2, <1>3, <1>4 DEF Parts

\* A new command: it becomes the only open one, saved before it is sent.
LEMMA IssueStep == ASSUME Parts, NEW c \in Command, Issue(c)  PROVE Parts'
<1> DEFINE fresh == [state |-> "submitting", known |-> FALSE, request |-> TRUE, device |-> identity]
           l == [Remembered EXCEPT ![c] = fresh]
<1> USE DEF Issue
<1>1. ledger' = l /\ disk' = l /\ clock' = clock
  BY DEF SaveBeforeSending
<1>2. /\ Lag \in Int /\ Window \in Int /\ Lag <= Window /\ clock \in Nat
      /\ \A x \in Command : deadline[x] \in Int
  BY LedgerAssumption DEF Parts, RestOK
<1>3. /\ deadline' = [deadline EXCEPT ![c] = ClientClock + Window]
      /\ deadline'[c] # Unsent /\ deadline' \in [Command -> Int]
  BY <1>2 DEF Parts, RestOK, ClientClock, Unsent
<1>4. fresh \in Entry /\ fresh # NoEntry
  BY DEF Parts, RestOK, Entry, NoEntry
<1>5. l[c] = fresh /\ \A x \in Command : x # c => l[x] = Remembered[x]
  BY DEF Remembered
<1>6. \A x \in Command : Remembered[x] \in {ledger[x], NoEntry}
  BY DEF Remembered
<1>7. l \in Table
  BY <1>4, <1>6 DEF Parts, LedgerOK, Table, Remembered
<1>8. LedgerOK(ledger)' /\ LedgerOK(disk)'
  <2>1. \A x \in Command : l[x].state \in Terminal => ~l[x].request
    BY <1>5, <1>6 DEF Parts, LedgerOK, Terminal, NoEntry
  <2>2. \A x \in Command : x \in Open(l) => x = c
    BY <1>5, <1>6 DEF Open, NoEntry
  <2>3. \A x \in Command : deadline'[x] = Unsent => l[x] = NoEntry
    BY <1>3, <1>5, <1>6 DEF Parts, LedgerOK
  <2>4. ASSUME NEW x \in Command, deadline'[x] # Unsent, clock - Lag - deadline'[x] <= Window
        PROVE  l[x] # NoEntry
    <3>1. CASE x = c
      BY <3>1, <1>4, <1>5
    <3>2. CASE x # c
      <4>1. deadline'[x] = deadline[x]
        BY <3>2, <1>3 DEF Parts, RestOK
      <4>2. Remembered[x] = ledger[x]
        BY <4>1, <2>4, <1>2 DEF Remembered, ClientClock
      <4> QED  BY <3>2, <4>1, <4>2, <2>4, <1>5 DEF Parts, LedgerOK, ClientClock
    <3> QED  BY <3>1, <3>2
  <2> QED  BY <1>1, <1>7, <2>1, <2>2, <2>3, <2>4 DEF LedgerOK, Open, ClientClock
<1>9. ServerOK'
  <2>1. UNCHANGED <<clock, receipts, applied, reported, revoked>>
    BY DEF server
  <2>2. ReceiptKept' /\ ReportKept'
    <3>1. \A x \in Command : x # c => deadline'[x] = deadline[x]
      BY <1>3 DEF Parts, RestOK
    <3>2. \A d \in Device : applied[d][c] = 0 /\ <<d, c>> \notin reported
      BY DEF Parts, ServerOK
    <3>3. \A x \in Command : x # c => Expired(x)' = Expired(x)
      BY <2>1, <3>1 DEF Expired
    <3>4. \A d \in Device, x \in Command : applied[d][x] > 0 \/ <<d, x>> \in reported => x # c
      BY <3>2
    <3> QED  BY <2>1, <3>3, <3>4 DEF Parts, ServerOK, ReceiptKept, ReportKept
  <2> QED  BY <1>2, <1>3, <2>1, <2>2 DEF Parts, ServerOK, RestOK, AtMostOnce
<1>10. WireOK'
  BY <1>3 DEF Parts, WireOK, RestOK
<1>11. RunOK'
  <2>1. run' \in Working /\ run'.cmd = c
    BY DEF Idle, Working
  <2> QED  BY <2>1, <1>1, <1>3, <1>4, <1>5 DEF RunOK
<1>12. RestOK'
  <2>1. FixedBefore'
    BY <1>1, <1>2, <1>3 DEF Parts, RestOK, FixedBefore, ClientClock
  <2> QED  BY <1>1, <1>2, <1>3, <2>1 DEF Parts, RestOK
<1> QED  BY <1>8, <1>9, <1>10, <1>11, <1>12 DEF Parts

\* A thread that is not idle works on an issued command of the ledger.
LEMMA AtWork ==
  ASSUME Parts, run # Idle
  PROVE  /\ run \in Working /\ run.cmd \in Command /\ ledger[run.cmd] # NoEntry
         /\ ledger[run.cmd] \in Entry /\ deadline[run.cmd] # Unsent
<1>1. run \in Working /\ run.cmd \in Command
  BY DEF Parts, RunOK, Working
<1>2. ledger[run.cmd] # NoEntry /\ deadline[run.cmd] # Unsent
  BY DEF Parts, RunOK
<1> QED  BY <1>1, <1>2, EntryThere DEF Parts

\* Steps that move the thread and nothing else.
LEMMA RunStep ==
  ASSUME Parts, run \in Working, run' \in Working, run'.cmd = run.cmd,
         run'.replay = run.replay \/ run'.replay,
         InFirstDispatch \/ run'.step \in {"look", "adopt"} \/ run'.replay,
         OnlyRun
  PROVE  Parts'
<1>1. /\ UNCHANGED <<ledger, disk, deadline, clock, wire, identity, signedOut>>
      /\ UNCHANGED <<receipts, applied, reported, revoked>>
  BY DEF OnlyRun, server
<1>2. clock' \in Nat /\ clock' >= clock
  BY <1>1 DEF Parts, RestOK
<1>3. RunOK'
  BY <1>1, ThreadMoves
<1>4. RestOK'
  BY <1>1 DEF Parts, RestOK, FixedBefore, ClientClock
<1> QED  BY <1>1, <1>2, <1>3, <1>4, SameLedger, SameServer, SameWire DEF Parts

\* Taking r.op, giving up, confirming.
LEMMA DispatchStep == ASSUME Parts, Dispatch \/ GiveUp \/ Confirm  PROVE Parts'
<1>1. run # Idle /\ run.step \in {"dispatch", "post", "confirm"} /\ OnlyRun
  <2>1. run.step \in {"dispatch", "post", "confirm"}
    BY DEF Dispatch, GiveUp, Confirm
  <2>2. OnlyRun
    BY DEF Dispatch, GiveUp, Confirm
  <2> QED  BY <2>1, <2>2 DEF Idle
<1>2. run \in Working
  BY <1>1, AtWork
<1>3. \/ \E s \in {"report", "post"} : run' = [run EXCEPT !.step = s]
      \/ \E o \in {"ok", "refused", "unknown", "unready"}, k \in BOOLEAN :
           run' = [run EXCEPT !.step = "record", !.out = o, !.known = k]
  BY DEF Dispatch, GiveUp, Confirm, Done, Step
<1>4. run' \in Working /\ run'.cmd = run.cmd /\ run'.replay = run.replay
  BY <1>2, <1>3 DEF Working
<1>5. InFirstDispatch \/ run'.replay
  BY <1>1, <1>2, <1>4 DEF InFirstDispatch, Working
<1> QED  BY <1>1, <1>2, <1>4, <1>5, RunStep

\* The control plane handles a request of an issued command.
LEMMA Handled ==
  ASSUME Parts, NEW d \in Device, NEW c \in Command, deadline[c] # Unsent,
         NEW path, NEW answer, Handle(d, c, path, answer), UNCHANGED <<clock, deadline>>
  PROVE  ServerOK'
<1>1. TypeOK /\ ReceiptKept /\ ReportKept /\ AtMostOnce
  BY Sorted DEF Parts, LedgerInv
<1>2. ReceiptKept' /\ ReportKept' /\ AtMostOnce'
  BY <1>1, HandleOnce
<1>3. ASSUME NEW x \in Command, deadline'[x] = Unsent, NEW e \in Device
      PROVE  applied'[e][x] = 0 /\ receipts'[e][x] = "none" /\ <<e, x>> \notin reported'
  BY <1>1, <1>3, HandleElsewhere DEF Parts, ServerOK
<1> QED  BY <1>1, <1>2, <1>3, HandleType DEF ServerOK

\* The version report and the command itself, answered.
LEMMA RequestStep ==
  ASSUME Parts, Report \/ \E answer \in AllAnswers \cup {"ok"} : Post(answer)
  PROVE  Parts'
<1>1. run # Idle /\ run.step \in {"report", "post"}
  <2>1. run.step \in {"report", "post"}
    BY DEF Report, Post, Step
  <2> QED  BY <2>1 DEF Idle
<1>2. run \in Working /\ run.cmd \in Command /\ deadline[run.cmd] # Unsent
  BY <1>1, AtWork
<1>3. /\ UNCHANGED <<clock, deadline, ledger, disk, identity, wire>>
      /\ signedOut' \in BOOLEAN
      /\ \E path, answer : Handle(identity, run.cmd, path, answer)
  BY DEF Report, Post, SignOut, Parts, RestOK
<1>4. \/ \E t \in {"post", "confirm"} : run' = [run EXCEPT !.step = t]
      \/ \E o \in {"ok", "refused", "unknown", "unready"}, k \in BOOLEAN :
           run' = [run EXCEPT !.step = "record", !.out = o, !.known = k]
  BY DEF Report, Post, SignOut, Done, Step
<1>5. run' \in Working /\ run'.cmd = run.cmd /\ run'.replay = run.replay
  BY <1>2, <1>4 DEF Working
<1>6. InFirstDispatch \/ run'.replay
  BY <1>1, <1>2, <1>5 DEF InFirstDispatch, Working
<1>7. ServerOK'
  BY <1>2, <1>3, Handled DEF Parts, RestOK
<1>8. RunOK'
  BY <1>2, <1>3, <1>5, <1>6, ThreadMoves
<1>9. clock' \in Nat /\ clock' >= clock /\ RestOK'
  BY <1>3 DEF Parts, RestOK, FixedBefore, ClientClock
<1> QED  BY <1>3, <1>7, <1>8, <1>9, SameLedger, SameWire DEF Parts

\* An attempt goes out for the command that the thread works on.
LEMMA SendStep == ASSUME Parts, Send  PROVE Parts'
<1>1. run # Idle
  <2>1. run.step \in {"report", "post"}
    BY DEF Send
  <2> QED  BY <2>1 DEF Idle
<1>2. run.cmd \in Command /\ deadline[run.cmd] # Unsent
  BY <1>1, AtWork
<1>3. UNCHANGED <<clock, deadline, ledger, disk, run, identity, signedOut, receipts, applied,
                  reported, revoked>>
  BY DEF Send, server
<1>4. WireOK'
  BY <1>2, <1>3 DEF Send, Parts, WireOK, RestOK
<1>5. clock' \in Nat /\ clock' >= clock /\ RestOK'
  BY <1>3 DEF Parts, RestOK, FixedBefore, ClientClock
<1> QED  BY <1>3, <1>4, <1>5, SameLedger, SameServer, SameRun DEF Parts

\* A late copy is handled like any request.
LEMMA DeliverStep == ASSUME Parts, NEW copy \in wire, Deliver(copy)  PROVE Parts'
<1>1. UNCHANGED <<clock, deadline, ledger, disk, run, identity, signedOut>>
  BY DEF Deliver
<1>2. copy[1] \in Device /\ copy[2] \in Command /\ deadline[copy[2]] # Unsent
  BY DEF Parts, WireOK
<1>3. ServerOK'
  BY <1>1, <1>2, Handled DEF Deliver
<1>4. WireOK'
  BY <1>1 DEF Deliver, Parts, WireOK
<1>5. clock' \in Nat /\ clock' >= clock /\ RestOK'
  BY <1>1 DEF Parts, RestOK, FixedBefore, ClientClock
<1> QED  BY <1>1, <1>3, <1>4, <1>5, SameLedger, SameRun DEF Parts

\* The sweeper drops receipts that nobody may use any more, an administrator revokes.
LEMMA ServerStep == ASSUME Parts, Sweep \/ \E d \in Revocable : Revoke(d)  PROVE Parts'
<1>1. UNCHANGED <<clock, deadline, ledger, disk, run, identity, signedOut, applied, wire>>
  BY DEF Sweep, Revoke
<1>2. ServerOK'
  <2>1. CASE Sweep
    <3>1. \A d \in Device, c \in Command :
            receipts'[d][c] = IF deadline[c] < clock THEN "none" ELSE receipts[d][c]
      BY <2>1 DEF Sweep
    <3>2. receipts' \in [Device -> [Command -> {"none", "report", "ok", "refused"}]]
      BY <2>1 DEF Sweep, Parts, ServerOK
    <3>3. ReceiptKept' /\ ReportKept'
      <4>1. \A c \in Command : deadline[c] < clock => Expired(c)'
        BY <1>1 DEF Expired, Parts, RestOK
      <4>2. \A c \in Command : Expired(c) => Expired(c)'
        BY <1>1 DEF Expired
      <4>3. reported' = reported
        BY <2>1 DEF Sweep
      <4> QED  BY <4>1, <4>2, <4>3, <3>1, <1>1 DEF Parts, ServerOK, ReceiptKept, ReportKept
    <3>4. UNCHANGED <<revoked, applied, reported, deadline>>
      BY <2>1 DEF Sweep
    <3>5. AtMostOnce'
      BY <3>4 DEF Parts, ServerOK, AtMostOnce
    <3> QED  BY <3>1, <3>2, <3>3, <3>4, <3>5 DEF Parts, ServerOK
  <2>2. CASE \E d \in Revocable : Revoke(d)
    BY <2>2, LedgerAssumption DEF Revoke, Parts, ServerOK, ReceiptKept, ReportKept,
                                   AtMostOnce, Expired
  <2> QED  BY <2>1, <2>2
<1>3. clock' \in Nat /\ clock' >= clock /\ RestOK'
  BY <1>1 DEF Parts, RestOK, FixedBefore, ClientClock
<1> QED  BY <1>1, <1>2, <1>3, SameLedger, SameWire, SameRun DEF Parts

\* Time passes, or another account logs in.
LEMMA TimeStep == ASSUME Parts, Tick \/ Switch  PROVE Parts'
<1>1. UNCHANGED <<deadline, ledger, disk, run, receipts, applied, reported, revoked, wire>>
  BY DEF Tick, Switch, server
<1>2. clock' \in Nat /\ clock' >= clock /\ RestOK'
  <2>1. CASE Tick
    <3>1. clock \in Nat /\ clock' = clock + 1
      BY <2>1 DEF Tick, Parts, RestOK
    <3>2. FixedBefore'
      BY <3>1, <1>1, LedgerAssumption DEF Parts, RestOK, FixedBefore, ClientClock
    <3> QED  BY <3>1, <3>2, <2>1, <1>1 DEF Tick, Parts, RestOK
  <2>2. CASE Switch
    <3>1. identity + 1 \in Device
      BY <2>2, LedgerAssumption DEF Switch, Parts, RestOK, Device
    <3>2. UNCHANGED <<clock, deadline>> /\ identity' = identity + 1
      BY <2>2 DEF Switch
    <3>3. signedOut' \in BOOLEAN
      BY <2>2 DEF Switch
    <3>4. clock \in Nat /\ deadline \in [Command -> Int] /\ FixedBefore'
      BY <3>2 DEF Parts, RestOK, FixedBefore, ClientClock
    <3> QED  BY <3>1, <3>2, <3>3, <3>4 DEF RestOK
  <2> QED  BY <2>1, <2>2
<1> QED  BY <1>1, <1>2, SameLedger, SameServer, SameWire, SameRun DEF Parts

\* The service starts again from the file: what may have been sent is open, and what is
\* overdue is not.
LEMMA CrashStep == ASSUME Parts, Crash  PROVE Parts'
<1>1. /\ UNCHANGED <<clock, deadline, disk, identity, signedOut, receipts, applied, reported,
                     revoked, wire>>
      /\ run' = Idle /\ ledger' = [c \in Command |-> Loaded(c)]
  BY DEF Crash, server
<1>2. \A c \in Command : disk[c] # NoEntry => disk[c] \in Entry
  BY EntryThere DEF Parts
<1>3. ASSUME NEW c \in Command
      PROVE  /\ Loaded(c) \in Entry \cup {NoEntry}
             /\ Loaded(c) = NoEntry <=> disk[c] = NoEntry
             /\ Loaded(c).state \in Terminal => ~Loaded(c).request
             /\ Loaded(c).state \in {"submitting", "reconciling"} => c \in Open(disk)
  <2>1. CASE disk[c] = NoEntry
    <3>1. disk[c].state = "none"
      BY <2>1 DEF NoEntry
    <3>2. Loaded(c) = disk[c]
      BY <3>1 DEF Loaded, Open
    <3> QED  BY <2>1, <3>1, <3>2 DEF Terminal
  <2>2. CASE disk[c] # NoEntry /\ Late(c) /\ c \in Open(disk)
    <3>1. disk[c].known \in BOOLEAN /\ Loaded(c) = Cleared(disk[c], "unresolved", disk[c].known)
      BY <2>2, <1>2 DEF Loaded, Entry
    <3>2. /\ Loaded(c) \in Entry /\ Loaded(c) # NoEntry
          /\ Loaded(c).state = "unresolved" /\ ~Loaded(c).request
      <4>1. disk[c] \in Entry /\ "unresolved" \in State
        BY <2>2, <1>2 DEF State
      <4> QED  BY <3>1, <4>1, ClearedEntry
    <3> QED  BY <2>2, <3>2
  <2>3. CASE disk[c] # NoEntry /\ ~(Late(c) /\ c \in Open(disk)) /\ disk[c].state = "submitting"
    <3>1. Loaded(c) = [disk[c] EXCEPT !.state = "reconciling"]
      BY <2>3 DEF Loaded
    <3>2. disk[c] \in Entry /\ c \in Open(disk)
      BY <2>3, <1>2 DEF Open
    <3>3. Loaded(c) \in Entry /\ Loaded(c).state = "reconciling"
      BY <3>1, <3>2 DEF Entry
    <3>4. Loaded(c) # NoEntry
      BY <3>3 DEF NoEntry
    <3> QED  BY <2>3, <3>2, <3>3, <3>4 DEF Terminal
  <2>4. CASE disk[c] # NoEntry /\ ~(Late(c) /\ c \in Open(disk)) /\ disk[c].state # "submitting"
    BY <2>4, <1>2 DEF Loaded, Parts, LedgerOK, Open
  <2> QED  BY <2>1, <2>2, <2>3, <2>4
<1>4. LedgerOK(ledger)'
  <2>1. ledger' \in Table
    BY <1>1, <1>3 DEF Table
  <2>2. \A c, e \in Command : c \in Open(ledger)' /\ e \in Open(ledger)' => c = e
    BY <1>1, <1>3 DEF Open, Parts, LedgerOK
  <2>3. \A c \in Command : ledger'[c] = NoEntry <=> disk[c] = NoEntry
    BY <1>1, <1>3
  <2>4. \A c \in Command : ledger'[c].state \in Terminal => ~ledger'[c].request
    BY <1>1, <1>3
  <2> QED  BY <1>1, <2>1, <2>2, <2>3, <2>4 DEF Parts, LedgerOK, ClientClock
<1>5. LedgerOK(disk)'
  BY <1>1 DEF Parts, LedgerOK, ClientClock, Open
<1>6. clock' \in Nat /\ clock' >= clock /\ RestOK'
  BY <1>1 DEF Parts, RestOK, FixedBefore, ClientClock
<1> QED  BY <1>1, <1>4, <1>5, <1>6, SameServer, SameWire, ThreadEnds DEF Parts

\* The thread ends with a ledger in order that may or may not reach the file.
LEMMA WriteStep ==
  ASSUME Parts, NEW l, LedgerOK(l), ledger' = l, disk' \in {disk, l}, run' = Idle,
         UNCHANGED <<clock, deadline, identity, signedOut, server, wire>>
  PROVE  Parts'
<1>1. UNCHANGED <<clock, deadline, identity, signedOut, receipts, applied, reported, revoked, wire>>
  BY DEF server
<1>2. clock' \in Nat /\ clock' >= clock /\ RestOK'
  BY <1>1 DEF Parts, RestOK, FixedBefore, ClientClock
<1>3. RunOK'
  BY ThreadEnds
<1> QED  BY <1>1, <1>2, <1>3, Saved, SameServer, SameWire DEF Parts

\* The thread ends and nothing is written.
LEMMA LetGo ==
  ASSUME Parts, run' = Idle,
         UNCHANGED <<ledger, disk, clock, deadline, identity, signedOut, server, wire>>
  PROVE  Parts'
<1>1. UNCHANGED <<ledger, disk, clock, deadline, identity, signedOut, receipts, applied,
                  reported, revoked, wire>>
  BY DEF server
<1>2. clock' \in Nat /\ clock' >= clock /\ RestOK'
  BY <1>1 DEF Parts, RestOK, FixedBefore, ClientClock
<1> QED  BY <1>1, <1>2, ThreadEnds, SameLedger, SameServer, SameWire DEF Parts

\* The outcome is recorded, or stays open where it cannot be saved.
LEMMA RecordStep == ASSUME Parts, Record  PROVE Parts'
<1> DEFINE c == run.cmd
           e == Outcome(ledger[c])
           done == [ledger EXCEPT ![c] = e]
           open == [ledger EXCEPT ![c] = [e EXCEPT !.state = "reconciling"]]
<1>1. run.step = "record" /\ ~run.replay /\ run # Idle
  BY DEF Record, Idle
<1>2. run \in Working /\ c \in Command /\ ledger[c] # NoEntry /\ ledger[c] \in Entry
  BY <1>1, AtWork
<1>3. c \in Open(ledger)
  BY <1>1, <1>2 DEF Parts, RunOK, InFirstDispatch, Open
<1>4. e \in Entry /\ (e.state \in Terminal => ~e.request)
  BY <1>2, OutcomeEntry
<1>5. LedgerOK(done)
  BY <1>2, <1>3, <1>4, EntryReplaced DEF Parts
<1>6. [e EXCEPT !.state = "reconciling"] \in Entry /\ [e EXCEPT !.state = "reconciling"].state = "reconciling"
  BY <1>4 DEF Entry
<1>7. LedgerOK(open)
  <2>1. "reconciling" \notin Terminal
    BY DEF Terminal
  <2> QED  BY <2>1, <1>2, <1>3, <1>6, EntryReplaced DEF Parts
<1>8. /\ run' = Idle /\ UNCHANGED <<clock, deadline, identity, signedOut, server, wire>>
      /\ \/ SaveBeforeSending(done)
         \/ ledger' = [done EXCEPT ![c].state = "reconciling"] /\ disk' = disk
  BY DEF Record
<1>9. [done EXCEPT ![c].state = "reconciling"] = open
  BY <1>2 DEF Parts, LedgerOK, Table
<1>10. \/ ledger' = done /\ disk' \in {disk, done}
       \/ ledger' = open /\ disk' \in {disk, open}
  BY <1>8, <1>9 DEF SaveBeforeSending
<1> QED  BY <1>5, <1>7, <1>8, <1>10, WriteStep

\* An entry past its deadline is closed without asking.
LEMMA ResolveStep == ASSUME Parts, NEW c \in Command, Resolve(c)  PROVE Parts'
<1> DEFINE e == Cleared(ledger[c], "unresolved", ledger[c].known)
<1>1. ledger[c] \in Entry /\ ledger[c] # NoEntry
  BY EntryThere DEF Resolve, Parts
<1>2. ledger[c].known \in BOOLEAN
  BY <1>1 DEF Entry
<1>3. e \in Entry /\ e.state = "unresolved" /\ ~e.request
  BY <1>1, <1>2, ClearedEntry DEF State
<1>4. LedgerOK([ledger EXCEPT ![c] = e])
  BY <1>1, <1>3, EntryReplaced DEF Parts
<1>5. ledger' = [ledger EXCEPT ![c] = e] /\ disk' \in {disk, [ledger EXCEPT ![c] = e]}
  BY DEF Resolve, Save
<1>6. run' = Idle /\ UNCHANGED <<clock, deadline, identity, signedOut, server, wire>>
  BY DEF Resolve
<1> QED  BY <1>4, <1>5, <1>6, WriteStep

\* The thread takes up a command again.
LEMMA ReconcileStep == ASSUME Parts, NEW c \in Command, Reconcile(c)  PROVE Parts'
<1>1. /\ UNCHANGED <<ledger, disk, deadline, clock, wire, identity, signedOut, receipts, applied,
                     reported, revoked>>
      /\ run' = [Idle EXCEPT !.cmd = c, !.step = "look"] /\ ledger[c] # NoEntry
  BY DEF Reconcile, OnlyRun, server
<1>2. deadline[c] # Unsent
  BY <1>1 DEF Parts, LedgerOK
<1>3. run' \in Working /\ run'.cmd = c /\ run'.step = "look"
  BY <1>1 DEF Working, Idle
<1>4. RunOK'
  BY <1>1, <1>2, <1>3 DEF RunOK, InFirstDispatch
<1>5. clock' \in Nat /\ clock' >= clock /\ RestOK'
  BY <1>1 DEF Parts, RestOK, FixedBefore, ClientClock
<1> QED  BY <1>1, <1>4, <1>5, SameLedger, SameServer, SameWire DEF Parts

\* The receipt is read: the command is replayed, adopted, closed or left.
LEMMA LookStep == ASSUME Parts, Look  PROVE Parts'
<1>1. run.step = "look" /\ run # Idle
  BY DEF Look, Idle
<1>2. /\ run \in Working /\ run.cmd \in Command
      /\ ledger[run.cmd] # NoEntry /\ ledger[run.cmd] \in Entry
  BY <1>1, AtWork
<1>3. UNCHANGED <<clock, deadline, identity, signedOut, server, wire>>
  BY DEF Look
<1>4. CASE /\ run' = [run EXCEPT !.step = "dispatch", !.replay = TRUE]
           /\ UNCHANGED <<ledger, disk>>
  <2>1. run' \in Working /\ run'.cmd = run.cmd /\ run'.replay
    BY <1>2, <1>4 DEF Working
  <2> QED  BY <1>2, <1>3, <1>4, <2>1, RunStep DEF OnlyRun
<1>5. CASE /\ Save([ledger EXCEPT ![run.cmd] =
                      Cleared(ledger[run.cmd], "unresolved", ledger[run.cmd].known)])
           /\ run' = Idle
  <2>1. ledger[run.cmd].known \in BOOLEAN
    BY <1>2 DEF Entry
  <2>2. LedgerOK([ledger EXCEPT ![run.cmd] =
                    Cleared(ledger[run.cmd], "unresolved", ledger[run.cmd].known)])
    BY <1>2, <2>1, ClearedEntry, EntryReplaced DEF Parts, State
  <2> QED  BY <1>3, <1>5, <2>2, WriteStep DEF Save
<1>6. CASE /\ run' = [run EXCEPT !.step = "adopt", !.out = OutcomeOf(Receipt)]
           /\ UNCHANGED <<ledger, disk>>
  <2>1. OutcomeOf(Receipt) \in {"ok", "refused"}
    BY DEF OutcomeOf
  <2>2. run' \in Working /\ run'.cmd = run.cmd /\ run'.replay = run.replay /\ run'.step = "adopt"
    BY <1>2, <1>6, <2>1 DEF Working
  <2> QED  BY <1>2, <1>3, <1>6, <2>2, RunStep DEF OnlyRun
<1>7. CASE run' = Idle /\ UNCHANGED <<ledger, disk>>
  BY <1>3, <1>7, LetGo
<1> QED  BY <1>4, <1>5, <1>6, <1>7 DEF Look

\* The replay is over.
LEMMA ReplayedStep == ASSUME Parts, Replayed  PROVE Parts'
<1> DEFINE c == run.cmd
           e == IF run.out = "refused" THEN Cleared(ledger[c], "rejected", run.known)
                ELSE KeepingRequest(ledger[c], ledger[c].state, run.known)
<1>1. run.step = "record" /\ run.replay /\ run # Idle
  BY DEF Replayed, Idle
<1>2. run \in Working /\ c \in Command /\ ledger[c] # NoEntry /\ ledger[c] \in Entry
  BY <1>1, AtWork
<1>3. UNCHANGED <<clock, deadline, identity, signedOut, server, wire>>
  BY DEF Replayed
<1>4. CASE Step("record", "adopt") /\ UNCHANGED <<ledger, disk>>
  <2>1. run' \in Working /\ run'.cmd = run.cmd /\ run'.replay = run.replay /\ run'.step = "adopt"
    BY <1>2, <1>4 DEF Working, Step
  <2> QED  BY <1>2, <1>3, <1>4, <2>1, RunStep DEF OnlyRun
<1>5. CASE Save([ledger EXCEPT ![c] = e]) /\ run' = Idle
  <2>1. run.known \in BOOLEAN /\ ledger[c].state \in State
    BY <1>2 DEF Working, Entry, State
  <2>2. /\ e \in Entry /\ (e.state \in Terminal => ~e.request)
        /\ e.state \in {"submitting", "reconciling"} => c \in Open(ledger)
    <3>1. CASE run.out = "refused"
      <4>1. e \in Entry /\ e.state = "rejected" /\ ~e.request
        BY <3>1, <2>1, <1>2, ClearedEntry DEF State
      <4> QED  BY <4>1
    <3>2. CASE run.out # "refused"
      <4>1. e \in Entry /\ e.state = ledger[c].state /\ e.request = ledger[c].request
        BY <3>2, <2>1, <1>2, KeptEntry
      <4> QED  BY <4>1, <1>2 DEF Parts, LedgerOK, Open
    <3> QED  BY <3>1, <3>2
  <2>3. LedgerOK([ledger EXCEPT ![c] = e])
    BY <1>2, <2>2, EntryReplaced DEF Parts
  <2> QED  BY <1>3, <1>5, <2>3, WriteStep DEF Save
<1> QED  BY <1>1, <1>4, <1>5 DEF Replayed

\* The receipt or the answer to the replay is recorded, or left for the next request.
LEMMA AdoptStep == ASSUME Parts, Adopt  PROVE Parts'
<1> DEFINE state == IF run.out = "ok" THEN "succeeded" ELSE "rejected"
           l == [ledger EXCEPT ![run.cmd] = Cleared(ledger[run.cmd], state, run.out = "ok")]
<1>1. run.step = "adopt" /\ run # Idle
  BY DEF Adopt, Idle
<1>2. run.cmd \in Command /\ ledger[run.cmd] # NoEntry /\ ledger[run.cmd] \in Entry
  BY <1>1, AtWork
<1>3. UNCHANGED <<clock, deadline, identity, signedOut, server, wire>> /\ run' = Idle
  BY DEF Adopt
<1>4. state \in State /\ state \notin {"submitting", "reconciling"}
  BY DEF State
<1>5. LedgerOK(l)
  <2>1. (run.out = "ok") \in BOOLEAN
    OBVIOUS
  <2> QED  BY <2>1, <1>2, <1>4, ClearedEntry, EntryReplaced DEF Parts
<1>6. \/ ledger' = l /\ disk' \in {disk, l}
      \/ UNCHANGED <<ledger, disk>>
  BY DEF Adopt, Save
<1> QED  BY <1>3, <1>5, <1>6, WriteStep, LetGo

\* Every step keeps the invariant.
LEMMA Steps == LedgerInv /\ [Next]_vars => LedgerInv'
<1> SUFFICES ASSUME Parts, [Next]_vars  PROVE Parts'
  BY Sorted, SortedNext DEF Parts
<1>1. CASE \E c \in Command : Issue(c) \/ Resolve(c) \/ Reconcile(c)
  BY <1>1, IssueStep, ResolveStep, ReconcileStep
<1>2. CASE Proceed
  BY <1>2, DispatchStep, RequestStep, RecordStep, LookStep, ReplayedStep, AdoptStep DEF Proceed
<1>3. CASE Send
  BY <1>3, SendStep
<1>4. CASE \E copy \in wire : Deliver(copy)
  BY <1>4, DeliverStep
<1>5. CASE Sweep \/ \E d \in Revocable : Revoke(d)
  BY <1>5, ServerStep
<1>6. CASE Switch \/ Tick
  BY <1>6, TimeStep
<1>7. CASE Crash
  BY <1>7, CrashStep
<1>8. CASE UNCHANGED vars
  <2>1. /\ UNCHANGED <<clock, deadline, ledger, disk, run, identity, signedOut, wire>>
        /\ UNCHANGED <<receipts, applied, reported, revoked>>
    BY <1>8 DEF vars, server
  <2>2. clock' \in Nat /\ clock' >= clock /\ RestOK'
    BY <2>1 DEF Parts, RestOK, FixedBefore, ClientClock
  <2> QED  BY <2>1, <2>2, SameLedger, SameServer, SameWire, SameRun DEF Parts
<1> QED  BY <1>1, <1>2, <1>3, <1>4, <1>5, <1>6, <1>7, <1>8 DEF Next

-----------------------------------------------------------------------------

\* The inductive invariant holds throughout, for any number of commands, identities
\* and hours.
THEOREM Invariance == Spec => []LedgerInv
BY Start, Steps, PTL DEF Spec

\* Never are two commands open, in memory or in the file: what is recorded as open was
\* the open one, and runCommand refuses a second.
THEOREM OnlyOneOpen == Spec => []OneOpen
<1>1. LedgerInv => OneOpen
  BY DEF LedgerInv
<1> QED  BY <1>1, Invariance, PTL

\* As one device a command takes effect once at most, through retries, replays, late
\* copies, crashes and sweeps.
THEOREM NothingTwice == Spec => []AtMostOnce
<1>1. LedgerInv => AtMostOnce
  BY DEF LedgerInv
<1> QED  BY <1>1, Invariance, PTL

\* A settled or overdue command has no request left.
THEOREM SecretsGone == Spec => []SecretsCleared
<1>1. LedgerInv => SecretsCleared
  BY DEF LedgerInv
<1> QED  BY <1>1, Invariance, PTL

\* Nothing reaches the control plane of which the file knows nothing.
THEOREM SavedBeforeSent == Spec => []WriteAhead
<1>1. LedgerInv => WriteAhead
  <2>1. ASSUME LedgerInv, NEW d \in Device, NEW c \in Command, deadline[c] = Unsent
        PROVE  applied[d][c] = 0 /\ receipts[d][c] = "none" /\ \A copy \in wire : copy[2] # c
    BY <2>1 DEF LedgerInv, UnissuedUntouched
  <2> QED  BY <2>1 DEF LedgerInv, Kept, WriteAhead, TypeOK
<1> QED  BY <1>1, Invariance, PTL

-----------------------------------------------------------------------------
(***************************************************************************)
(* The control plane that serves this agent keeps the promises of          *)
(* Idempotency: a request that is executed here is one that Idempotency    *)
(* executes, in a transaction that began just now.  That its deadline is   *)
(* in range is FixedBefore; that it did not take effect before is what the *)
(* receipts say, of the command and of the version report.                 *)
(***************************************************************************)

\* The key of a request, and the subject's other requests under it.
LEMMA Keys ==
  /\ \A q \in Request : q = <<q[1], q[2], q[3]>> /\ q[1] \in Device /\ q[2] \in Command
                        /\ q[3] \in {"report", "write"} /\ RequestKey[q] = <<q[1], q[2]>>
  /\ \A d \in Device, c \in Command, path \in {"report", "write"} :
       <<d, c, path>> \in Request /\ RequestKey[<<d, c, path>>] = <<d, c>>
BY DEF Request, RequestKey

\* The rows of the abstract table.
Rows == [k \in ReceiptKey |-> ReceiptOf(k[1], k[2])]

\* The deadline of a request is that of its command.
LEMMA DeadlineMapped ==
  ASSUME NEW d \in Device, NEW c \in Command, NEW path \in {"report", "write"}
  PROVE  DeadlineOf[<<d, c, path>>] = IF deadline[c] = Unsent THEN -1 ELSE deadline[c]
BY Keys DEF DeadlineOf

\* The row of a key is the receipt of that device and command.
LEMMA RowMapped ==
  ASSUME NEW d \in Device, NEW c \in Command
  PROVE  Rows[<<d, c>>] = ReceiptOf(d, c)
BY DEF Rows, ReceiptKey

\* There is a row exactly when there is a receipt.
LEMMA RowThere ==
  ASSUME NEW d \in Device, NEW c \in Command
  PROVE  ReceiptOf(d, c) = Writes!NoReceipt <=> receipts[d][c] = "none"
<1>1. <<d, c, "report">> # <<>> /\ <<d, c, "write">> # <<>>
  OBVIOUS
<1> QED  BY <1>1 DEF ReceiptOf, Writes!NoReceipt, Writes!Unsent

\* The effects of a request.
LEMMA EffectMapped ==
  ASSUME NEW d \in Device, NEW c \in Command
  PROVE  /\ EffectsOf[<<d, c, "write">>] = applied[d][c]
         /\ EffectsOf[<<d, c, "report">>] = IF <<d, c>> \in reported THEN 1 ELSE 0
BY Keys DEF EffectsOf

\* What the tables hold is all that Idempotency sees.
LEMMA WritesStutter ==
  ASSUME UNCHANGED <<clock, deadline, receipts, applied, reported>>
  PROVE  UNCHANGED Writes!vars
<1>1. UNCHANGED <<DeadlineOf, EffectsOf, NothingTold>>
  BY DEF DeadlineOf, EffectsOf, NothingTold
<1>2. \A d, c : ReceiptOf(d, c)' = ReceiptOf(d, c)
  BY DEF ReceiptOf
<1>3. UNCHANGED [k \in ReceiptKey |-> ReceiptOf(k[1], k[2])]
  BY <1>2
<1> QED  BY <1>1, <1>3 DEF Writes!vars

\* At the start no request was made.
LEMMA WritesInit == Init => Writes!Init
<1> SUFFICES ASSUME Init  PROVE Writes!Init
  OBVIOUS
<1>1. DeadlineOf = [q \in Request |-> Writes!Unsent]
  <2>1. \A q \in Request : deadline[q[2]] = Unsent
    BY Keys DEF Init
  <2> QED  BY <2>1 DEF DeadlineOf, Writes!Unsent
<1>2. Rows = [k \in ReceiptKey |-> Writes!NoReceipt]
  <2>1. \A k \in ReceiptKey : ReceiptOf(k[1], k[2]) = Writes!NoReceipt
    BY RowThere DEF Init, ReceiptKey
  <2> QED  BY <2>1 DEF Rows
<1>3. EffectsOf = [q \in Request |-> 0]
  <2>1. \A q \in Request : applied[q[1]][q[2]] = 0 /\ <<q[1], q[2]>> \notin reported
    BY Keys DEF Init
  <2> QED  BY <2>1 DEF EffectsOf
<1> QED  BY <1>1, <1>2, <1>3 DEF Init, Writes!Init, Rows, NothingTold

\* A command that is issued fixes the deadline of every request under its key.
LEMMA IssueIsSend ==
  ASSUME LedgerInv, NEW c \in Command, Issue(c)
  PROVE  Writes!Next
<1> DEFINE S == {q \in Request : q[2] = c}
<1>1. /\ deadline[c] = Unsent /\ deadline' = [deadline EXCEPT ![c] = ClientClock + Window]
      /\ UNCHANGED <<clock, receipts, applied, reported>>
  BY DEF Issue, server
<1>2. /\ deadline \in [Command -> Int] /\ clock \in Nat /\ Lag \in 0..Window /\ Window \in Nat
      /\ \A d \in Device : receipts[d][c] = "none"
  BY <1>1, LedgerAssumption DEF LedgerInv, TypeOK, UnissuedUntouched
<1>3. \A q \in S : ~Writes!Sent(q)
  BY <1>1, Keys DEF DeadlineOf, Writes!Sent, Writes!Unsent
<1>4. DeadlineOf' =
        [q \in Request |-> IF q \in S THEN clock + LeadOf[q] + Window ELSE DeadlineOf[q]]
  <2>1. \A q \in S : DeadlineOf'[q] = clock + LeadOf[q] + Window
    <3>1. deadline'[c] = clock - Lag + Window /\ deadline'[c] # Unsent
      BY <1>1, <1>2 DEF ClientClock, Unsent
    <3> QED  BY <3>1, <1>2 DEF DeadlineOf, LeadOf
  <2>2. \A q \in Request \ S : DeadlineOf'[q] = DeadlineOf[q]
    <3>1. \A q \in Request \ S : deadline'[q[2]] = deadline[q[2]]
      BY <1>1, <1>2, Keys
    <3> QED  BY <3>1 DEF DeadlineOf
  <2>3. DeadlineOf' = [q \in Request |-> DeadlineOf'[q]]
    BY DEF DeadlineOf
  <2> QED  BY <2>1, <2>2, <2>3
<1>5. Rows' = Rows
  <2>1. ASSUME NEW d \in Device, NEW x \in Command  PROVE ReceiptOf(d, x)' = ReceiptOf(d, x)
    <3>1. CASE x = c
      BY <3>1, <1>1, <1>2 DEF ReceiptOf
    <3>2. CASE x # c
      <4>1. deadline'[x] = deadline[x]
        BY <3>2, <1>1, <1>2
      <4> QED  BY <4>1, <1>1 DEF ReceiptOf
    <3> QED  BY <3>1, <3>2
  <2> QED  BY <2>1 DEF Rows, ReceiptKey
<1>6. UNCHANGED <<clock, EffectsOf, NothingTold>>
  BY <1>1 DEF EffectsOf, NothingTold
<1>7. Writes!Send(S)
  BY <1>3, <1>4, <1>5, <1>6 DEF Writes!Send, Rows
<1>8. S \in SUBSET Request
  OBVIOUS
<1> QED  BY <1>7, <1>8 DEF Writes!Next

\* A request that is not answered from a receipt is executed, once, and in time.
LEMMA HandleIsExecute ==
  ASSUME LedgerInv, NEW d \in Device, NEW c \in Command, NEW path, NEW answer,
         Handle(d, c, path, answer), UNCHANGED <<clock, deadline>>
  PROVE  Writes!Next \/ UNCHANGED Writes!vars
<1>1. CASE UNCHANGED server
  BY <1>1, WritesStutter DEF server
<1>2. CASE ~UNCHANGED server
  <2>1. PICK status \in {"ok", "refused"}, row \in {"report", "ok", "refused"} :
          /\ ~Expired(c) /\ receipts[d][c] = "none" /\ path \in {"report", "write"}
          /\ receipts' = [receipts EXCEPT ![d][c] = row]
          /\ status = IF row = "refused" THEN "refused" ELSE "ok"
          /\ path = IF row = "report" THEN "report" ELSE "write"
          /\ reported' = IF path = "report" THEN reported \cup {<<d, c>>} ELSE reported
          /\ applied' = IF path = "write"
                          THEN [applied EXCEPT ![d][c] = IF status = "ok" THEN @ + 1 ELSE @]
                          ELSE applied
    BY <1>2 DEF Handle, server
  <2> DEFINE q == <<d, c, path>>
  <2>2. q \in Request /\ RequestKey[q] = <<d, c>> /\ LeadOf[q] = -Lag /\ <<d, c>> \in ReceiptKey
    BY <2>1, Keys DEF LeadOf, ReceiptKey
  <2>3. /\ TypeOK /\ Lag \in 0..Window /\ Window \in Nat /\ deadline[c] \in Int /\ clock \in Nat
        /\ deadline[c] > clock /\ deadline[c] <= clock - Lag + Window
    BY <2>1, LedgerAssumption DEF LedgerInv, TypeOK, Expired, FixedBefore, ClientClock
  <2>4. DeadlineOf[q] = deadline[c]
    <3>1. deadline[c] # Unsent
      BY <2>3 DEF Unsent
    <3> QED  BY <2>1, <3>1, DeadlineMapped
  <2>5. Writes!Sent(q) /\ ~Writes!OutOfRange(q, clock) /\ ~Writes!Expired(q, clock)
    BY <2>3, <2>4 DEF Writes!Sent, Writes!OutOfRange, Writes!Expired, Writes!Unsent
  <2>6. clock \in Writes!TxTime(q)
    BY <2>2, <2>3, <2>4 DEF Writes!TxTime, Writes!SentAt
  <2>7. ~Writes!LiveReceipt(q, clock)
    BY <2>1, <2>2, RowMapped, RowThere DEF Writes!LiveReceipt, Rows
  <2>8. EffectsOf[q] = 0
    <3>1. applied[d][c] = 0 /\ <<d, c>> \notin reported
      BY <2>1, <2>3 DEF LedgerInv, ReceiptKept, ReportKept, TypeOK
    <3> QED  BY <2>1, <3>1, EffectMapped
  <2>9. Rows' = [Rows EXCEPT ![<<d, c>>] =
                   [command |-> q, status |-> status, expires |-> DeadlineOf[q]]]
    <3>1. ReceiptOf(d, c)' = [command |-> q, status |-> status, expires |-> DeadlineOf[q]]
      BY <2>1, <2>3, <2>4 DEF ReceiptOf, TypeOK
    <3>2. ASSUME NEW e \in Device, NEW x \in Command, <<e, x>> # <<d, c>>
          PROVE  ReceiptOf(e, x)' = ReceiptOf(e, x)
      <4>1. receipts'[e][x] = receipts[e][x]
        BY <2>1, <2>3, <3>2 DEF TypeOK
      <4> QED  BY <4>1 DEF ReceiptOf
    <3>3. Rows'[<<d, c>>] = [command |-> q, status |-> status, expires |-> DeadlineOf[q]]
      BY <2>2, <3>1 DEF Rows
    <3>4. ASSUME NEW k \in ReceiptKey, k # <<d, c>>  PROVE Rows'[k] = Rows[k]
      <4>1. k[1] \in Device /\ k[2] \in Command /\ k = <<k[1], k[2]>>
        BY DEF ReceiptKey
      <4>2. ReceiptOf(k[1], k[2])' = ReceiptOf(k[1], k[2])
        BY <3>2, <3>4, <4>1
      <4> QED  BY <4>2 DEF Rows
    <3>5. Rows = [k \in ReceiptKey |-> Rows[k]] /\ Rows' = [k \in ReceiptKey |-> Rows'[k]]
      BY DEF Rows
    <3> HIDE DEF q
    <3> QED  BY <2>2, <3>3, <3>4, <3>5
  <2>10. EffectsOf' = [EffectsOf EXCEPT ![q] = IF status = "ok" THEN @ + 1 ELSE @]
    <3>1. EffectsOf'[q] = IF status = "ok" THEN 1 ELSE 0
      BY <2>1, <2>2, <2>3, <2>8, EffectMapped DEF TypeOK, EffectsOf
    <3>2. ASSUME NEW p \in Request, p # q  PROVE EffectsOf'[p] = EffectsOf[p]
      <4>1. p = <<p[1], p[2], p[3]>> /\ p[1] \in Device /\ p[2] \in Command
            /\ p[3] \in {"report", "write"}
        BY Keys
      <4>2. CASE <<p[1], p[2]>> # <<d, c>>
        BY <2>1, <2>3, <4>1, <4>2 DEF EffectsOf, TypeOK
      <4>3. CASE <<p[1], p[2]>> = <<d, c>>
        <5>1. p[3] # path
          BY <3>2, <4>1, <4>3
        <5> QED  BY <2>1, <4>1, <5>1 DEF EffectsOf
      <4> QED  BY <4>2, <4>3
    <3>3. /\ EffectsOf = [p \in Request |-> EffectsOf[p]]
          /\ EffectsOf' = [p \in Request |-> EffectsOf'[p]]
      BY DEF EffectsOf
    <3> HIDE DEF q
    <3> QED  BY <2>2, <2>8, <3>1, <3>2, <3>3
  <2>11. Writes!Execute(q, clock, status)
    <3>1. UNCHANGED <<clock, DeadlineOf, NothingTold>>
      BY DEF DeadlineOf, NothingTold
    <3>2. Rows' = Writes!Recorded(q, clock, status)
      BY <2>2, <2>9 DEF Writes!Recorded, Rows
    <3>3. Writes!Reply(q, status)
      BY <3>1 DEF Writes!Reply
    <3> HIDE DEF q
    <3> QED  BY <2>5, <2>7, <2>8, <2>10, <3>1, <3>2, <3>3 DEF Writes!Execute, Rows
  <2> QED  BY <2>1, <2>2, <2>6, <2>11 DEF Writes!Next, Writes!Serve
<1> QED  BY <1>1, <1>2

\* Receipts past their deadline are deleted in both.
LEMMA SweepIsSweep ==
  ASSUME LedgerInv, Sweep
  PROVE  Writes!Next
<1>1. /\ UNCHANGED <<clock, deadline, applied, reported>> /\ clock \in Nat
      /\ \A d \in Device, c \in Command :
           receipts'[d][c] = IF deadline[c] < clock THEN "none" ELSE receipts[d][c]
  BY DEF Sweep, LedgerInv, TypeOK
<1>2. ASSUME NEW d \in Device, NEW c \in Command
      PROVE  ReceiptOf(d, c)' = IF ReceiptOf(d, c).expires < clock THEN Writes!NoReceipt
                                ELSE ReceiptOf(d, c)
  <2>1. CASE receipts[d][c] = "none"
    <3>1. receipts'[d][c] = "none" /\ ReceiptOf(d, c) = Writes!NoReceipt
      BY <1>1, <2>1, RowThere
    <3>2. ReceiptOf(d, c)' = Writes!NoReceipt
      BY <3>1 DEF ReceiptOf, Writes!NoReceipt, Writes!Unsent
    <3> QED  BY <3>1, <3>2
  <2>2. CASE receipts[d][c] # "none"
    <3>1. ReceiptOf(d, c).expires = deadline[c]
      BY <2>2 DEF ReceiptOf
    <3>2. CASE deadline[c] < clock
      <4>1. receipts'[d][c] = "none"
        BY <1>1, <3>2
      <4>2. ReceiptOf(d, c)' = Writes!NoReceipt
        BY <4>1 DEF ReceiptOf, Writes!NoReceipt, Writes!Unsent
      <4> QED  BY <3>1, <3>2, <4>2
    <3>3. CASE ~(deadline[c] < clock)
      <4>1. ReceiptOf(d, c)' = ReceiptOf(d, c)
        BY <1>1, <3>3 DEF ReceiptOf
      <4> QED  BY <3>1, <3>3, <4>1
    <3> QED  BY <3>2, <3>3
  <2> QED  BY <2>1, <2>2
<1>3. Rows' = [k \in ReceiptKey |-> IF Rows[k].expires < clock THEN Writes!NoReceipt ELSE Rows[k]]
  <2>1. \A k \in ReceiptKey : k[1] \in Device /\ k[2] \in Command
    BY DEF ReceiptKey
  <2> QED  BY <1>2, <2>1 DEF Rows
<1>4. UNCHANGED <<clock, DeadlineOf, EffectsOf, NothingTold>>
  BY <1>1 DEF DeadlineOf, EffectsOf, NothingTold
<1>5. Writes!Sweep(clock)
  BY <1>3, <1>4 DEF Writes!Sweep, Writes!Swept, Rows
<1>6. clock \in 0..clock /\ clock - clock <= 0
  BY <1>1
<1> QED  BY <1>5, <1>6 DEF Writes!Next

\* Every step of the agent and its control plane is a step of Idempotency, or none.
LEMMA WritesStep == LedgerInv /\ [Next]_vars => [Writes!Next]_Writes!vars
<1> SUFFICES ASSUME LedgerInv, [Next]_vars  PROVE Writes!Next \/ UNCHANGED Writes!vars
  OBVIOUS
<1>1. CASE \E c \in Command : Issue(c)
  BY <1>1, IssueIsSend
<1>2. CASE \E copy \in wire : Deliver(copy)
  <2>1. PICK copy \in wire : Deliver(copy)
    BY <1>2
  <2>2. copy[1] \in Device /\ copy[2] \in Command
    BY DEF LedgerInv, TypeOK
  <2> QED  BY <2>1, <2>2, HandleIsExecute DEF Deliver
<1>3. CASE Report \/ \E answer \in AllAnswers \cup {"ok"} : Post(answer)
  <2>1. run # Idle /\ run.cmd \in Command /\ identity \in Device
    <3>1. run.step \in {"report", "post"}
      BY <1>3 DEF Report, Post, Step
    <3>2. run # Idle
      BY <3>1 DEF Idle
    <3> QED  BY <3>2 DEF LedgerInv, TypeOK, Working
  <2>2. /\ \E path, answer : Handle(identity, run.cmd, path, answer)
        /\ UNCHANGED <<clock, deadline>>
    BY <1>3 DEF Report, Post
  <2> QED  BY <2>1, <2>2, HandleIsExecute
<1>4. CASE Sweep
  BY <1>4, SweepIsSweep
<1>5. CASE Tick
  <2>1. /\ UNCHANGED <<deadline, receipts, applied, reported>>
        /\ clock < MaxClock /\ clock' = clock + 1
    BY <1>5 DEF Tick, server
  <2>2. UNCHANGED <<DeadlineOf, EffectsOf, NothingTold, Rows>>
    <3>1. \A d, c : ReceiptOf(d, c)' = ReceiptOf(d, c)
      BY <2>1 DEF ReceiptOf
    <3> QED  BY <2>1, <3>1 DEF DeadlineOf, EffectsOf, NothingTold, Rows
  <2> QED  BY <2>1, <2>2 DEF Writes!Tick, Writes!Next, Rows
<1>6. CASE UNCHANGED <<clock, deadline, receipts, applied, reported>>
  BY <1>6, WritesStutter
<1>7. \/ \E c \in Command : Issue(c)
      \/ \E copy \in wire : Deliver(copy)
      \/ Report \/ \E answer \in AllAnswers \cup {"ok"} : Post(answer)
      \/ Sweep \/ Tick \/ UNCHANGED <<clock, deadline, receipts, applied, reported>>
  <2>1. CASE \E c \in Command : Resolve(c) \/ Reconcile(c)
    BY <2>1 DEF Resolve, Reconcile, OnlyRun, server
  <2>2. CASE Dispatch \/ GiveUp \/ Confirm \/ Record \/ Look \/ Replayed \/ Adopt
    <3>1. CASE Dispatch \/ GiveUp \/ Confirm
      BY <3>1 DEF Dispatch, GiveUp, Confirm, OnlyRun, server
    <3>2. CASE Record \/ Look
      BY <3>2 DEF Record, Look, server
    <3>3. CASE Replayed \/ Adopt
      BY <3>3 DEF Replayed, Adopt, server
    <3> QED  BY <2>2, <3>1, <3>2, <3>3
  <2>3. CASE Send \/ Switch \/ Crash \/ \E d \in Revocable : Revoke(d)
    BY <2>3 DEF Send, Switch, Crash, Revoke, server
  <2>4. CASE UNCHANGED vars
    BY <2>4 DEF vars, server
  <2> QED  BY <2>1, <2>2, <2>3, <2>4 DEF Next, Proceed
<1> QED  BY <1>1, <1>2, <1>3, <1>4, <1>5, <1>6, <1>7

\* The control plane that this agent writes to makes of its requests what Idempotency
\* says: each is executed once at most before the deadline, answered from its receipt
\* after that, and forgotten when the deadline is past, whatever the agent retries,
\* replays or forgets and however late a copy arrives.
THEOREM ReceiptsAsPromised == Spec => WritesImplemented /\ Writes!Spec
<1>1. [Writes!Next]_Writes!vars =>
        [UNCHANGED <<clock, deadline, receipts, applied, reported>> \/ Writes!Next]_Writes!vars
  OBVIOUS
<1> QED
  BY <1>1, Invariance, WritesInit, WritesStep, PTL DEF Spec, WritesImplemented, Writes!Spec

-----------------------------------------------------------------------------
(***************************************************************************)
(* A logout stays done.  A logout is recorded as done only for a device    *)
(* that is signed out or is not the identity any more, because no receipt  *)
(* that could be adopted without signing out is ever granted: a logout     *)
(* that took effect has revoked its device, and no version report is sent  *)
(* under its key.                                                          *)
(***************************************************************************)

\* Entries are of this identity or an earlier one, and a logout done as this one left
\* it signed out.
OutStays(l) ==
  \A c \in Command :
    /\ l[c].device <= identity
    /\ KindOf[c] = "logout" /\ l[c].state = "succeeded" /\ l[c].device = identity => signedOut

\* What a receipt says: only entering a room reports a version, and a logout revokes.
ReceiptsSay ==
  \A d \in Device, c \in Command :
    /\ receipts[d][c] = "report" => KindOf[c] = "enter"
    /\ receipts[d][c] = "ok" /\ KindOf[c] = "logout" => d \in revoked

\* The same of the copies on their way.
CopiesSay == \A copy \in wire : copy[3] = "report" => KindOf[copy[2]] = "enter"

\* Where the thread may stand with which command, and with a logout that went well.
ThreadSays ==
  /\ run.step = "report" => KindOf[run.cmd] = "enter"
  /\ run.step = "confirm" => KindOf[run.cmd] # "logout"
  /\ /\ run.step \in {"record", "adopt"} /\ run.out = "ok" /\ KindOf[run.cmd] = "logout"
     /\ identity = ledger[run.cmd].device
     => signedOut

\* The four together, inductive next to LedgerInv.
LogoutOK == OutStays(ledger) /\ OutStays(disk) /\ ReceiptsSay /\ CopiesSay /\ ThreadSays

\* What is recorded keeps the device of the entry, whose state becomes the one given.
LEMMA SameDevice ==
  ASSUME NEW e \in Entry, NEW s, NEW k
  PROVE  /\ Cleared(e, s, k).device = e.device /\ Cleared(e, s, k).state = s
         /\ Cleared(e, s, k).known = k
         /\ KeepingRequest(e, s, k).device = e.device /\ KeepingRequest(e, s, k).state = s
         /\ KeepingRequest(e, s, k).known = k
BY DEF Cleared, KeepingRequest, Entry

\* What runCommand records: success only of what went well.
LEMMA OutcomeSays ==
  ASSUME NEW e \in Entry, run \in Working
  PROVE  /\ Outcome(e).device = e.device
         /\ Outcome(e).state = "succeeded" <=> run.out = "ok"
         /\ Outcome(e).state = "rejected" <=> run.out \in {"refused", "unready"}
         /\ Outcome(e).known = (run.out = "ok" \/ run.known)
<1>1. run.out \in {"ok", "refused", "unknown", "unready"} /\ run.known \in BOOLEAN
  BY DEF Working
<1>2. CASE run.out = "ok"
  BY <1>2 DEF Outcome, Entry
<1>3. CASE run.out \in {"refused", "unready"}
  BY <1>3, <1>1 DEF Outcome, Entry
<1>4. CASE run.out = "unknown"
  BY <1>4, <1>1 DEF Outcome, Entry
<1> QED  BY <1>1, <1>2, <1>3, <1>4

\* What New loads has the device it had, and is done only if it was.
LEMMA LoadedSays ==
  ASSUME Parts, NEW c \in Command
  PROVE  /\ Loaded(c).device = disk[c].device /\ Loaded(c).known = disk[c].known
         /\ Loaded(c).state \in {"succeeded", "rejected"} => Loaded(c).state = disk[c].state
<1>1. disk[c] \in Entry \cup {NoEntry}
  BY DEF Parts, LedgerOK, Table
<1>2. CASE disk[c] = NoEntry
  <2>1. disk[c].state = "none"
    BY <1>2 DEF NoEntry
  <2>2. Loaded(c) = disk[c]
    BY <2>1 DEF Loaded, Open
  <2> QED  BY <2>1, <2>2
<1>3. CASE disk[c] \in Entry
  BY <1>3, SameDevice DEF Loaded, Entry
<1> QED  BY <1>1, <1>2, <1>3

\* One entry is replaced.
LEMMA OutReplaced ==
  ASSUME NEW l \in Table, OutStays(l), NEW c \in Command, NEW e, e.device <= identity,
         KindOf[c] = "logout" /\ e.state = "succeeded" /\ e.device = identity => signedOut
  PROVE  OutStays([l EXCEPT ![c] = e])
BY DEF OutStays, Table

\* A ledger that says so is written.
LEMMA OutSaved ==
  ASSUME LogoutOK, NEW l, OutStays(l), ledger' = l, disk' \in {disk, l},
         UNCHANGED <<identity, signedOut, receipts, revoked, wire>>, run' = Idle
  PROVE  LogoutOK'
<1>1. ThreadSays'
  BY DEF ThreadSays, Idle
<1>2. OutStays(ledger)' /\ OutStays(disk)'
  BY DEF OutStays, LogoutOK
<1> QED  BY <1>1, <1>2 DEF LogoutOK, ReceiptsSay, CopiesSay

\* Nothing is written and the thread stands where it may.
LEMMA OutSame ==
  ASSUME LogoutOK, ThreadSays', CopiesSay',
         UNCHANGED <<ledger, disk, identity, signedOut, receipts, revoked>>
  PROVE  LogoutOK'
BY DEF LogoutOK, OutStays, ReceiptsSay

\* A request of the kind that its path says leaves a receipt that says so.
LEMMA HandleSays ==
  ASSUME Parts, ReceiptsSay, NEW d \in Device, NEW c \in Command, NEW path, NEW answer,
         Handle(d, c, path, answer), path = "report" => KindOf[c] = "enter"
  PROVE  ReceiptsSay'
<1>1. receipts \in [Device -> [Command -> {"none", "report", "ok", "refused"}]]
  BY DEF Parts, ServerOK
<1>2. CASE UNCHANGED server
  BY <1>2 DEF ReceiptsSay, server
<1>3. CASE /\ path = "report" /\ receipts' = [receipts EXCEPT ![d][c] = "report"]
           /\ UNCHANGED <<applied, revoked>>
  BY <1>1, <1>3 DEF ReceiptsSay
<1>4. CASE /\ answer \in {"ok", "refused"} /\ receipts' = [receipts EXCEPT ![d][c] = answer]
           /\ revoked' = IF answer = "ok" /\ KindOf[c] = "logout"
                           THEN revoked \cup {d} ELSE revoked
  BY <1>1, <1>4 DEF ReceiptsSay
<1> QED  BY <1>2, <1>3, <1>4 DEF Handle

\* At the start there is no entry, no receipt and no copy.
LEMMA OutStart == Init => LogoutOK
<1> SUFFICES ASSUME Init  PROVE LogoutOK
  OBVIOUS
<1>1. OutStays(ledger) /\ OutStays(disk)
  BY DEF Init, OutStays, NoEntry
<1>2. ReceiptsSay /\ CopiesSay /\ ThreadSays
  BY DEF Init, ReceiptsSay, CopiesSay, ThreadSays, Idle
<1> QED  BY <1>1, <1>2 DEF LogoutOK

\* A new command is open, and of this identity.
LEMMA OutIssue == ASSUME Parts, LogoutOK, NEW c \in Command, Issue(c)  PROVE LogoutOK'
<1> DEFINE fresh == [state |-> "submitting", known |-> FALSE, request |-> TRUE, device |-> identity]
           l == [Remembered EXCEPT ![c] = fresh]
<1>1. /\ ledger' = l /\ disk' = l /\ run' = [Idle EXCEPT !.cmd = c, !.step = "dispatch"]
      /\ UNCHANGED <<identity, signedOut, receipts, revoked, wire>>
  BY DEF Issue, SaveBeforeSending, server
<1>2. \A x \in Command : l[x] \in {ledger[x], NoEntry, fresh}
  BY DEF Remembered
<1>3. identity \in Nat /\ identity > 0
  BY LedgerAssumption DEF Parts, RestOK, Device
<1>4. \A x \in Command : /\ l[x].device <= identity
                         /\ l[x].device = identity /\ l[x].state = "succeeded" => l[x] = ledger[x]
  BY <1>2, <1>3 DEF LogoutOK, OutStays, NoEntry
<1>5. OutStays(ledger)' /\ OutStays(disk)'
  BY <1>1, <1>4 DEF LogoutOK, OutStays
<1>6. ThreadSays' /\ CopiesSay' /\ ReceiptsSay'
  BY <1>1 DEF LogoutOK, ThreadSays, CopiesSay, ReceiptsSay, Idle
<1> QED  BY <1>5, <1>6 DEF LogoutOK

\* The thread moves, or a request goes out.
LEMMA OutMoves ==
  ASSUME Parts, LogoutOK, Dispatch \/ GiveUp \/ Confirm \/ Send \/ \E c \in Command : Reconcile(c)
  PROVE  LogoutOK'
<1>1. UNCHANGED <<ledger, disk, identity, signedOut, receipts, revoked>>
  BY DEF Dispatch, GiveUp, Confirm, Send, Reconcile, OnlyRun, server
<1>2. CASE Dispatch
  <2>1. run # Idle /\ wire' = wire
    BY <1>2 DEF Dispatch, OnlyRun, Idle
  <2>2. run \in Working
    BY <2>1, AtWork
  <2>3. ThreadSays'
    BY <1>2, <2>2 DEF Dispatch, Done, Step, ThreadSays, Working
  <2> QED  BY <1>1, <2>1, <2>3, OutSame DEF LogoutOK, CopiesSay
<1>3. CASE GiveUp \/ Confirm
  <2>1. run # Idle /\ wire' = wire
    <3>1. run.step \in {"post", "confirm"} /\ OnlyRun
      BY <1>3 DEF GiveUp, Confirm
    <3> QED  BY <3>1 DEF OnlyRun, Idle
  <2>2. run \in Working
    BY <2>1, AtWork
  <2>3. /\ run'.step = "record" /\ run'.cmd = run.cmd
        /\ run'.out = "ok" => run.step = "confirm"
    BY <1>3, <2>2 DEF GiveUp, Confirm, Done, Working
  <2>4. ThreadSays'
    BY <2>3 DEF LogoutOK, ThreadSays
  <2> QED  BY <1>1, <2>1, <2>4, OutSame DEF LogoutOK, CopiesSay
<1>4. CASE Send
  <2>1. run' = run /\ wire' = wire \cup {<<identity, run.cmd,
                         IF run.step = "report" THEN "report" ELSE "write">>}
    BY <1>4 DEF Send
  <2>2. ThreadSays'
    BY <1>1, <2>1 DEF LogoutOK, ThreadSays
  <2>3. CopiesSay'
    BY <2>1 DEF LogoutOK, ThreadSays, CopiesSay
  <2> QED  BY <1>1, <2>2, <2>3, OutSame
<1>5. CASE \E c \in Command : Reconcile(c)
  <2>1. wire' = wire /\ run'.step = "look"
    BY <1>5 DEF Reconcile, OnlyRun, Idle
  <2>2. ThreadSays'
    BY <2>1 DEF ThreadSays
  <2> QED  BY <1>1, <2>1, <2>2, OutSame DEF LogoutOK, CopiesSay
<1> QED  BY <1>2, <1>3, <1>4, <1>5

\* A request is answered; a logout that went well signs out at once.
LEMMA OutRequest ==
  ASSUME Parts, LogoutOK, Report \/ \E answer \in AllAnswers \cup {"ok"} : Post(answer)
  PROVE  LogoutOK'
<1>1. /\ UNCHANGED <<ledger, disk, identity, wire>>
      /\ signedOut' = signedOut \/ signedOut' = TRUE
      /\ run.step \in {"report", "post"} /\ run # Idle
  <2>1. run.step \in {"report", "post"} /\ UNCHANGED <<ledger, disk, identity, wire>>
    BY DEF Report, Post, Step
  <2>2. signedOut' = signedOut \/ signedOut' = TRUE
    BY DEF Report, Post, SignOut
  <2> QED  BY <2>1, <2>2 DEF Idle
<1>2. run \in Working /\ run.cmd \in Command /\ identity \in Device
  BY <1>1, AtWork DEF Parts, RestOK
<1>3. \E path, answer : /\ Handle(identity, run.cmd, path, answer)
                        /\ path = "report" => KindOf[run.cmd] = "enter"
  BY DEF Report, Post, Step, LogoutOK, ThreadSays
<1>4. ReceiptsSay'
  BY <1>2, <1>3, HandleSays DEF LogoutOK
<1>5. OutStays(ledger)' /\ OutStays(disk)' /\ CopiesSay'
  BY <1>1 DEF LogoutOK, OutStays, CopiesSay
<1>6. ThreadSays'
  <2>1. CASE Report
    BY <2>1, <1>2 DEF Report, Step, ThreadSays, Working
  <2>2. ASSUME NEW answer, Post(answer), KindOf[run.cmd] = "logout" /\ answer \in {"ok", "denied"}
        PROVE  ThreadSays'
    <3>1. SignOut
      BY <2>2 DEF Post
    <3>2. run'.step = "record" /\ (run'.out = "ok" => signedOut' = TRUE)
      BY <3>1, <1>2 DEF SignOut, Done, Working
    <3> QED  BY <3>2 DEF ThreadSays
  <2>3. ASSUME NEW answer, Post(answer), ~(KindOf[run.cmd] = "logout" /\ answer \in {"ok", "denied"})
        PROVE  ThreadSays'
    <3>1. IF answer = "ok"
            THEN IF Confirms(run.cmd) THEN Step("post", "confirm") ELSE Done("ok", TRUE)
            ELSE Done(IF answer \in Final THEN "refused" ELSE "unknown", FALSE)
      BY <2>3 DEF Post
    <3>2. CASE answer = "ok" /\ Confirms(run.cmd)
      BY <3>1, <3>2, <1>2 DEF Confirms, Step, ThreadSays, Working
    <3>3. CASE answer = "ok" /\ ~Confirms(run.cmd)
      <4>1. run'.step = "record" /\ run'.cmd = run.cmd /\ KindOf[run.cmd] # "logout"
        BY <3>1, <3>3, <1>2, <2>3 DEF Done, Working
      <4> QED  BY <4>1 DEF ThreadSays
    <3>4. CASE answer # "ok"
      <4>1. run'.step = "record" /\ run'.out # "ok"
        BY <3>1, <3>4, <1>2 DEF Done, Working
      <4> QED  BY <4>1 DEF ThreadSays
    <3> QED  BY <3>2, <3>3, <3>4
  <2> QED  BY <2>1, <2>2, <2>3
<1> QED  BY <1>4, <1>5, <1>6 DEF LogoutOK

\* What is recorded at the end of a dispatch or of a replay, or closed without asking.
LEMMA OutRecorded ==
  ASSUME Parts, LogoutOK, Record \/ Replayed \/ Adopt \/ Look \/ \E c \in Command : Resolve(c)
  PROVE  LogoutOK'
<1>1. /\ UNCHANGED <<identity, signedOut, receipts, revoked, wire>>
      /\ ledger \in Table /\ OutStays(ledger) /\ OutStays(disk) /\ ThreadSays
  BY DEF Record, Replayed, Adopt, Look, Resolve, server, Parts, LedgerOK, LogoutOK
<1>2. ASSUME NEW c \in Command, ledger[c] # NoEntry
      PROVE  ledger[c] \in Entry /\ ledger[c].device <= identity
  BY <1>1, <1>2, EntryThere DEF Parts, OutStays
<1>3. ASSUME NEW c \in Command, Resolve(c)
      PROVE  LogoutOK'
  <2> DEFINE e == Cleared(ledger[c], "unresolved", ledger[c].known)
  <2>1. ledger[c] # NoEntry
    BY <1>3 DEF Resolve
  <2>2. e.state = "unresolved" /\ e.device <= identity
    BY <2>1, <1>2, SameDevice
  <2>3. OutStays([ledger EXCEPT ![c] = e])
    BY <1>1, <2>2, OutReplaced
  <2> QED  BY <1>1, <1>3, <2>3, OutSaved DEF Resolve, Save
<1> DEFINE c == run.cmd
<1>4. ASSUME run # Idle
      PROVE  /\ run \in Working /\ c \in Command /\ ledger[c] # NoEntry
             /\ ledger[c] \in Entry /\ ledger[c].device <= identity
  BY <1>4, <1>2, AtWork
<1>5. CASE Record
  <2> DEFINE e == Outcome(ledger[c])
             open == [e EXCEPT !.state = "reconciling"]
  <2>1. run.step = "record" /\ run # Idle /\ run' = Idle
    BY <1>5 DEF Record, Idle
  <2>2. e.device = ledger[c].device /\ (e.state = "succeeded" <=> run.out = "ok") /\ e \in Entry
    BY <2>1, <1>4, OutcomeSays, OutcomeEntry
  <2>3. OutStays([ledger EXCEPT ![c] = e])
    <3>1. KindOf[c] = "logout" /\ e.state = "succeeded" /\ e.device = identity => signedOut
      BY <1>1, <2>1, <2>2 DEF ThreadSays
    <3> QED  BY <1>1, <1>4, <2>1, <2>2, <3>1, OutReplaced
  <2>4. open.device = e.device /\ open.state = "reconciling"
    BY <2>2 DEF Entry
  <2>5. OutStays([ledger EXCEPT ![c] = open])
    BY <1>1, <1>4, <2>1, <2>2, <2>4, OutReplaced
  <2>6. \/ SaveBeforeSending([ledger EXCEPT ![c] = e])
        \/ /\ ledger' = [[ledger EXCEPT ![c] = e] EXCEPT ![c].state = "reconciling"]
           /\ disk' = disk
    BY <1>5 DEF Record
  <2>7. [[ledger EXCEPT ![c] = e] EXCEPT ![c].state = "reconciling"] = [ledger EXCEPT ![c] = open]
    BY <1>1, <1>4, <2>1 DEF Table
  <2>8. \/ ledger' = [ledger EXCEPT ![c] = e] /\ disk' = ledger'
        \/ ledger' = [ledger EXCEPT ![c] = open] /\ disk' = disk
    BY <2>6, <2>7 DEF SaveBeforeSending
  <2> HIDE DEF open, e
  <2> QED  BY <1>1, <2>1, <2>3, <2>5, <2>8, OutSaved
<1>6. CASE Replayed
  <2>1. run.step = "record" /\ run # Idle
    BY <1>6 DEF Replayed, Idle
  <2>2. CASE run.out = "ok" /\ Step("record", "adopt") /\ UNCHANGED <<ledger, disk>>
    <3>1. run'.step = "adopt" /\ run'.cmd = c /\ run'.out = run.out
      BY <2>1, <2>2, <1>4 DEF Step, Working
    <3>2. ThreadSays'
      BY <1>1, <2>1, <2>2, <3>1 DEF ThreadSays
    <3> QED  BY <1>1, <2>2, <3>2, OutSame DEF LogoutOK, CopiesSay
  <2> DEFINE e == IF run.out = "refused" THEN Cleared(ledger[c], "rejected", run.known)
                  ELSE KeepingRequest(ledger[c], ledger[c].state, run.known)
  <2>3. CASE Save([ledger EXCEPT ![c] = e]) /\ run' = Idle
    <3>1. e.device = ledger[c].device /\ (e.state = "succeeded" => ledger[c].state = "succeeded")
      BY <2>1, <1>4, SameDevice
    <3>2. OutStays([ledger EXCEPT ![c] = e])
      <4>1. KindOf[c] = "logout" /\ e.state = "succeeded" /\ e.device = identity => signedOut
        BY <2>1, <1>1, <1>4, <3>1 DEF OutStays
      <4> QED  BY <1>1, <1>4, <2>1, <3>1, <4>1, OutReplaced
    <3> QED  BY <1>1, <2>3, <3>2, OutSaved DEF Save
  <2> QED  BY <1>6, <2>2, <2>3 DEF Replayed
<1>7. CASE Adopt
  <2> DEFINE state == IF run.out = "ok" THEN "succeeded" ELSE "rejected"
             e == Cleared(ledger[c], state, run.out = "ok")
  <2>1. run.step = "adopt" /\ run # Idle /\ run' = Idle
    BY <1>7 DEF Adopt, Idle
  <2>2. e.device = ledger[c].device /\ (e.state = "succeeded" => run.out = "ok")
    BY <2>1, <1>4, SameDevice
  <2>3. OutStays([ledger EXCEPT ![c] = e])
    <3>1. KindOf[c] = "logout" /\ e.state = "succeeded" /\ e.device = identity => signedOut
      BY <2>1, <1>1, <2>2 DEF ThreadSays
    <3> QED  BY <1>1, <1>4, <2>1, <2>2, <3>1, OutReplaced
  <2>4. \/ ledger' = [ledger EXCEPT ![c] = e] /\ disk' \in {disk, [ledger EXCEPT ![c] = e]}
        \/ UNCHANGED <<ledger, disk>>
    BY <1>7 DEF Adopt, Save
  <2> HIDE DEF e
  <2> QED  BY <1>1, <2>1, <2>3, <2>4, OutSaved
<1>8. CASE Look
  <2>1. run.step = "look" /\ run # Idle
    BY <1>8 DEF Look, Idle
  <2>2. CASE /\ run' = [run EXCEPT !.step = "dispatch", !.replay = TRUE]
             /\ UNCHANGED <<ledger, disk>>
    <3>1. ThreadSays'
      BY <2>1, <2>2, <1>4 DEF ThreadSays, Working
    <3> QED  BY <1>1, <2>2, <3>1, OutSame DEF LogoutOK, CopiesSay
  <2>3. CASE /\ Save([ledger EXCEPT ![c] = Cleared(@, "unresolved", @.known)]) /\ run' = Idle
    <3> DEFINE e == Cleared(ledger[c], "unresolved", ledger[c].known)
    <3>1. e.state = "unresolved" /\ e.device <= identity
      BY <2>1, <1>4, SameDevice
    <3>2. OutStays([ledger EXCEPT ![c] = e])
      BY <1>1, <1>4, <2>1, <3>1, OutReplaced
    <3> QED  BY <1>1, <2>3, <3>2, OutSaved DEF Save
  <2>4. CASE /\ Granted /\ Receipt # "none"
             /\ run' = [run EXCEPT !.step = "adopt", !.out = OutcomeOf(Receipt)]
             /\ UNCHANGED <<ledger, disk>>
    <3>1. ledger[c].device \in Device
      BY <2>1, <1>4 DEF Entry
    <3>2. Receipt \in {"none", "report", "ok", "refused"}
      BY <2>1, <1>4, <3>1 DEF Receipt, Parts, ServerOK
    <3>3. Receipt \in {"report", "ok"} => KindOf[c] # "logout"
      BY <2>1, <1>4, <2>4, <3>1 DEF Receipt, Granted, LogoutOK, ReceiptsSay
    <3>4. run'.cmd = c /\ run'.step = "adopt" /\ run'.out = OutcomeOf(Receipt)
      BY <2>1, <1>4, <2>4 DEF Working
    <3>5. run'.out = "ok" => KindOf[c] # "logout"
      BY <2>4, <3>2, <3>3, <3>4 DEF OutcomeOf
    <3>6. ThreadSays'
      BY <3>4, <3>5 DEF ThreadSays
    <3> QED  BY <1>1, <2>4, <3>6, OutSame DEF LogoutOK, CopiesSay
  <2>5. CASE run' = Idle /\ UNCHANGED <<ledger, disk>>
    BY <1>1, <2>5, OutSaved
  <2> QED  BY <1>8, <2>2, <2>3, <2>4, <2>5 DEF Look
<1> QED  BY <1>3, <1>5, <1>6, <1>7, <1>8

\* The control plane, the accounts, the clock and the service's deaths.
LEMMA OutAround ==
  ASSUME Parts, LogoutOK,
         \/ \E copy \in wire : Deliver(copy)
         \/ Sweep \/ Switch \/ Crash \/ Tick \/ \E d \in Revocable : Revoke(d)
  PROVE  LogoutOK'
<1>1. ASSUME NEW copy \in wire, Deliver(copy)
      PROVE  LogoutOK'
  <2>1. copy[1] \in Device /\ copy[2] \in Command
    BY DEF Parts, WireOK
  <2>2. ReceiptsSay'
    BY <1>1, <2>1, HandleSays DEF Deliver, LogoutOK, CopiesSay
  <2> QED  BY <1>1, <2>2 DEF Deliver, LogoutOK, OutStays, CopiesSay, ThreadSays
<1>2. CASE Sweep
  <2>1. /\ UNCHANGED <<ledger, disk, run, identity, signedOut, revoked, wire>>
        /\ \A d \in Device, c \in Command : receipts'[d][c] \in {"none", receipts[d][c]}
    BY <1>2 DEF Sweep
  <2>2. ReceiptsSay'
    BY <2>1 DEF LogoutOK, ReceiptsSay
  <2> QED  BY <2>1, <2>2 DEF LogoutOK, OutStays, CopiesSay, ThreadSays
<1>3. CASE Switch
  <2>1. /\ UNCHANGED <<ledger, disk, run, receipts, revoked, wire>> /\ ~OpHeld
        /\ identity' = identity + 1 /\ identity \in Nat
    BY <1>3 DEF Switch, server, Parts, RestOK, Device
  <2>2. \A l \in {ledger, disk}, c \in Command : l[c].device \in Int /\ l[c].device <= identity
    BY DEF LogoutOK, OutStays, Parts, LedgerOK, Table, Entry, NoEntry, Device
  <2>3. OutStays(ledger)' /\ OutStays(disk)'
    BY <2>1, <2>2 DEF OutStays
  <2>4. ThreadSays'
    <3>1. run # Idle => run.cmd \in Command
      BY AtWork
    <3> QED  BY <2>1, <2>2, <3>1 DEF ThreadSays, OpHeld, Idle
  <2> QED  BY <2>1, <2>3, <2>4 DEF LogoutOK, ReceiptsSay, CopiesSay
<1>4. CASE Crash
  <2>1. /\ UNCHANGED <<disk, identity, signedOut, receipts, revoked, wire>>
        /\ run' = Idle /\ ledger' = [c \in Command |-> Loaded(c)]
    BY <1>4 DEF Crash, server
  <2>2. OutStays(ledger)'
    BY <2>1, LoadedSays DEF LogoutOK, OutStays
  <2>3. OutStays(disk)' /\ ThreadSays'
    BY <2>1 DEF LogoutOK, OutStays, ThreadSays, Idle
  <2> QED  BY <2>1, <2>2, <2>3 DEF LogoutOK, ReceiptsSay, CopiesSay
<1>5. CASE Tick \/ \E d \in Revocable : Revoke(d)
  <2>1. /\ UNCHANGED <<ledger, disk, run, identity, signedOut, receipts, wire>>
        /\ revoked \subseteq revoked'
    BY <1>5 DEF Tick, Revoke, server
  <2> QED  BY <2>1 DEF LogoutOK, OutStays, ReceiptsSay, CopiesSay, ThreadSays
<1> QED  BY <1>1, <1>2, <1>3, <1>4, <1>5

\* Every step keeps what makes a logout stay done.
LEMMA OutSteps == LedgerInv /\ LogoutOK /\ [Next]_vars => LogoutOK'
<1> SUFFICES ASSUME Parts, LogoutOK, [Next]_vars  PROVE LogoutOK'
  BY Sorted DEF Parts
<1>1. CASE UNCHANGED vars
  BY <1>1 DEF vars, server, LogoutOK, OutStays, ReceiptsSay, CopiesSay, ThreadSays
<1>2. CASE Next
  BY <1>2, OutIssue, OutMoves, OutRequest, OutRecorded, OutAround DEF Next, Proceed
<1> QED  BY <1>1, <1>2

\* A logout that the file calls done left its device signed out, through crashes, failing
\* saves, replays and changes of account.
THEOREM LogoutStaysDone == Spec => []SignedOutStays
<1>1. Init => LedgerInv /\ LogoutOK
  BY Start, OutStart
<1>2. LedgerInv /\ LogoutOK /\ [Next]_vars => LedgerInv' /\ LogoutOK'
  BY Steps, OutSteps
<1>3. LogoutOK => SignedOutStays
  BY DEF LogoutOK, OutStays, SignedOutStays
<1> QED  BY <1>1, <1>2, <1>3, PTL DEF Spec

-----------------------------------------------------------------------------
(***************************************************************************)
(* Recorded outcomes are true: for one device in good standing, of which   *)
(* no command is held back.  With a second identity, or a device revoked   *)
(* between two attempts, they need not be: a command is replayed as the    *)
(* device of the day, and a refusal says nothing of an earlier attempt.    *)
(***************************************************************************)

\* One identity, nobody revokes it, it does not log out, and no update holds it back.
Undisturbed ==
  /\ Devices = 1 /\ Revocable = {} /\ Held = {}
  /\ \A c \in Command : KindOf[c] # "logout"

\* The command took effect, or its key was used up by the version report.
Took(c) == \E d \in Device : applied[d][c] > 0 \/ receipts[d][c] = "report"

\* The command will never take effect: its key is used up without that.
Spent(c) == \A d \in Device : receipts[d][c] \in {"refused", "report"}

\* What an entry claims.
EntryTrue(e, c) ==
  /\ e.state = "succeeded" \/ e.known => Took(c)
  /\ e.state = "rejected" /\ ~e.known => Spent(c)
LedgerTrue(l) == \A c \in Command : ~Expired(c) => EntryTrue(l[c], c)

\* What the thread is about to record.
RunTrue ==
  /\ run.replay => run.cmd \in Open(ledger)
  /\ run.step = "record" => run.out # "unready"
  /\ run # Idle /\ ~Expired(run.cmd) =>
       /\ \/ run.step = "confirm"
          \/ run.step \in {"record", "adopt"} /\ run.out = "ok"
          \/ run.step = "record" /\ run.known
          => Took(run.cmd)
       /\ \/ run.step = "record" /\ run.out = "refused" /\ ~run.known
          \/ run.step = "adopt" /\ run.out # "ok"
          => Spent(run.cmd)

\* The device stands, and a receipt of success is of something that took effect.
ServerTrue ==
  /\ revoked = {} /\ ~signedOut
  /\ \A d \in Device, c \in Command : receipts[d][c] = "ok" => applied[d][c] > 0

\* Inductive next to LedgerInv.
Truth == ServerTrue /\ LedgerTrue(ledger) /\ LedgerTrue(disk) /\ RunTrue

\* Before the deadline nothing is undone, and no receipt changes or goes away.
Grows ==
  \A d \in Device, c \in Command : ~Expired(c)' =>
    /\ ~Expired(c)
    /\ applied[d][c] > 0 => applied'[d][c] > 0
    /\ receipts[d][c] # "none" => receipts'[d][c] = receipts[d][c]

\* So neither verdict is ever withdrawn.
LEMMA VerdictsStay ==
  ASSUME Grows, NEW c \in Command, ~Expired(c)'
  PROVE  (Took(c) => Took(c)') /\ (Spent(c) => Spent(c)')
<1>1. Took(c) => Took(c)'
  BY DEF Grows, Took
<1>2. Spent(c) => Spent(c)'
  BY DEF Grows, Spent
<1> QED  BY <1>1, <1>2

\* What the ledger and the file claim stays true while they are not written to.
LEMMA Stays ==
  ASSUME Grows, UNCHANGED <<ledger, disk>>, LedgerTrue(ledger), LedgerTrue(disk), Devices = 1
  PROVE  LedgerTrue(ledger)' /\ LedgerTrue(disk)'
<1>1. 1 \in Device
  BY DEF Device
<1>2. \A c \in Command : ~Expired(c)' => ~Expired(c)
  BY <1>1 DEF Grows
<1>3. ASSUME NEW c \in Command, ~Expired(c)', NEW e, EntryTrue(e, c)
      PROVE  (e.state = "succeeded" \/ e.known => Took(c)') /\ (e.state = "rejected" /\ ~e.known => Spent(c)')
  BY <1>3, VerdictsStay DEF EntryTrue
<1> QED  BY <1>2, <1>3 DEF LedgerTrue, EntryTrue

\* So does what a thread that stands still is about to record.
LEMMA RunStays ==
  ASSUME Parts, Grows, UNCHANGED <<ledger, run>>, RunTrue, Devices = 1
  PROVE  RunTrue'
<1>1. 1 \in Device
  BY DEF Device
<1>2. run # Idle => run.cmd \in Command
  BY AtWork
<1>3. run # Idle /\ ~Expired(run.cmd)' =>
        ~Expired(run.cmd) /\ (Took(run.cmd) => Took(run.cmd)') /\ (Spent(run.cmd) => Spent(run.cmd)')
  <2> SUFFICES ASSUME run # Idle, ~Expired(run.cmd)'
               PROVE  ~Expired(run.cmd) /\ (Took(run.cmd) => Took(run.cmd)')
                      /\ (Spent(run.cmd) => Spent(run.cmd)')
    OBVIOUS
  <2>1. run.cmd \in Command
    BY <1>2
  <2>2. ~Expired(run.cmd)
    BY <2>1, <1>1 DEF Grows
  <2>3. run' = run
    OBVIOUS
  <2> DEFINE c == run.cmd
  <2>4. c' = c
    BY <2>3
  <2>5. \E d \in Device : TRUE
    BY <1>1
  <2> QED  BY <2>1, <2>2, <2>4 DEF Grows, Took, Spent
<1>4. Open(ledger)' = Open(ledger)
  BY DEF Open
<1> QED  BY <1>3, <1>4 DEF RunTrue

\* The server keeps its records in every request, and what it answers to the write of a
\* command is what becomes of it.
LEMMA Answered ==
  ASSUME Parts, Undisturbed, ServerTrue, NEW d \in Device, NEW c \in Command,
         NEW path \in {"report", "write"}, NEW answer,
         Handle(d, c, path, answer), UNCHANGED <<clock, deadline>>
  PROVE  /\ Grows /\ revoked' = {}
         /\ \A e \in Device, x \in Command : receipts'[e][x] = "ok" => applied'[e][x] > 0
         /\ path = "write" /\ answer = "ok" => Took(c)'
         /\ path = "write" /\ answer \in Final /\ ~Expired(c) => Spent(c)'
<1>1. /\ receipts \in [Device -> [Command -> {"none", "report", "ok", "refused"}]]
      /\ applied \in [Device -> [Command -> Nat]]
  BY DEF Parts, ServerOK
<1>2. Device = {1}
  BY DEF Undisturbed, Device
<1>3. \A x \in Command : Expired(x)' <=> Expired(x)
  BY DEF Expired
<1>4. d \notin revoked /\ KindOf[c] # "logout"
  BY DEF ServerTrue, Undisturbed
<1>5. CASE Expired(c) /\ answer = "expired" /\ UNCHANGED server
  BY <1>3, <1>5 DEF Grows, ServerTrue, server
<1>6. CASE /\ receipts[d][c] # "none" /\ UNCHANGED server
           /\ answer = IF ~((receipts[d][c] = "report") <=> (path = "report")) THEN "conflict"
                       ELSE IF receipts[d][c] = "refused" THEN "refused" ELSE "ok"
  <2>1. receipts[d][c] \in {"report", "ok", "refused"}
    BY <1>1, <1>6
  <2>2. receipts' = receipts /\ applied' = applied /\ revoked' = revoked
    BY <1>6 DEF server
  <2>3. path = "write" /\ answer = "ok" => receipts[d][c] = "ok"
    BY <1>6, <2>1
  <2>4. path = "write" /\ answer \in Final => receipts[d][c] \in {"report", "refused"}
    BY <1>6, <2>1 DEF Final
  <2> QED  BY <1>2, <1>3, <2>2, <2>3, <2>4 DEF Grows, ServerTrue, Took, Spent
<1>7. CASE /\ receipts[d][c] = "none" /\ path = "report"
           /\ receipts' = [receipts EXCEPT ![d][c] = "report"]
           /\ UNCHANGED <<applied, revoked>>
  BY <1>1, <1>3, <1>7 DEF Grows, ServerTrue
<1>8. CASE /\ receipts[d][c] = "none" /\ path = "write" /\ answer \in {"ok", "refused"}
           /\ receipts' = [receipts EXCEPT ![d][c] = answer]
           /\ applied' = [applied EXCEPT ![d][c] = IF answer = "ok" THEN @ + 1 ELSE @]
           /\ revoked' = revoked
  <2>1. \A e \in Device, x \in Command :
          /\ applied'[e][x] = IF e = d /\ x = c /\ answer = "ok" THEN applied[d][c] + 1
                              ELSE applied[e][x]
          /\ receipts'[e][x] = IF e = d /\ x = c THEN answer ELSE receipts[e][x]
    BY <1>1, <1>8
  <2>2. applied[d][c] \in Nat /\ \A e \in Device, x \in Command : applied[e][x] \in Nat
    BY <1>1
  <2>3. answer = "ok" => applied'[d][c] > 0
    BY <2>1, <2>2
  <2> QED  BY <1>2, <1>3, <1>8, <2>1, <2>2, <2>3 DEF Grows, ServerTrue, Took, Spent, Final
<1>9. CASE answer = "failed" /\ UNCHANGED server
  BY <1>3, <1>9 DEF Grows, ServerTrue, server, Final
<1> QED  BY <1>4, <1>5, <1>6, <1>7, <1>8, <1>9 DEF Handle

\* Where nothing happens at the server, nothing is undone.
LEMMA ServerStays ==
  ASSUME ServerTrue, UNCHANGED <<clock, deadline, receipts, applied, reported, revoked, signedOut>>
  PROVE  ServerTrue' /\ Grows
BY DEF ServerTrue, Grows, Expired

\* One entry is replaced by a true one.
LEMMA TrueReplaced ==
  ASSUME NEW l \in Table, LedgerTrue(l), NEW c \in Command, NEW e, ~Expired(c) => EntryTrue(e, c)
  PROVE  LedgerTrue([l EXCEPT ![c] = e])
BY DEF LedgerTrue, Table

\* A true ledger is written.
LEMMA TrueSaved ==
  ASSUME Truth, NEW l, LedgerTrue(l), ledger' = l, disk' \in {disk, l}, run' = Idle,
         UNCHANGED <<clock, deadline, receipts, applied, reported, revoked, signedOut>>
  PROVE  Truth'
<1>1. LedgerTrue(ledger)' /\ LedgerTrue(disk)'
  BY DEF Truth, LedgerTrue, EntryTrue, Took, Spent, Expired
<1>2. RunTrue'
  BY DEF RunTrue, Idle
<1> QED  BY <1>1, <1>2, ServerStays DEF Truth

\* Only the thread moves.
LEMMA TrueMoves ==
  ASSUME Truth, RunTrue', Undisturbed,
         UNCHANGED <<clock, deadline, ledger, disk, receipts, applied, reported, revoked, signedOut>>
  PROVE  Truth'
BY ServerStays, Stays DEF Truth, Undisturbed

\* At the start nothing is claimed.
LEMMA TrueStart == Undisturbed /\ Init => Truth
<1> SUFFICES ASSUME Undisturbed, Init  PROVE Truth
  OBVIOUS
<1>1. ServerTrue
  BY DEF Init, ServerTrue
<1>2. LedgerTrue(ledger) /\ LedgerTrue(disk)
  BY DEF Init, LedgerTrue, EntryTrue, NoEntry
<1>3. RunTrue
  BY DEF Init, RunTrue, Idle
<1> QED  BY <1>1, <1>2, <1>3 DEF Truth

\* A new command claims nothing, and the others claim what they did.
LEMMA TrueIssue == ASSUME Parts, Undisturbed, Truth, NEW c \in Command, Issue(c)  PROVE Truth'
<1> DEFINE fresh == [state |-> "submitting", known |-> FALSE, request |-> TRUE, device |-> identity]
           l == [Remembered EXCEPT ![c] = fresh]
<1>1. /\ ledger' = l /\ disk' = l /\ run' = [Idle EXCEPT !.cmd = c, !.step = "dispatch"]
      /\ UNCHANGED <<clock, signedOut, receipts, applied, reported, revoked>>
      /\ deadline' = [deadline EXCEPT ![c] = ClientClock + Window]
  BY DEF Issue, SaveBeforeSending, server
<1>2. \A x \in Command : x # c => l[x] \in {ledger[x], NoEntry}
  BY DEF Remembered
<1>3. l[c] = fresh
  BY DEF Remembered
<1>4. \A x \in Command : x # c => (Expired(x)' <=> Expired(x))
  BY <1>1 DEF Expired, Parts, RestOK
<1>5. ASSUME NEW x \in Command, ~Expired(x)'
      PROVE  /\ l[x].state = "succeeded" \/ l[x].known => Took(x)
             /\ l[x].state = "rejected" /\ ~l[x].known => Spent(x)
  BY <1>2, <1>3, <1>4, <1>5 DEF Truth, LedgerTrue, EntryTrue, NoEntry
<1>6. LedgerTrue(ledger)' /\ LedgerTrue(disk)'
  BY <1>1, <1>5 DEF LedgerTrue, EntryTrue, Took, Spent
<1>7. RunTrue'
  BY <1>1 DEF RunTrue, Idle
<1>8. ServerTrue'
  BY <1>1 DEF Truth, ServerTrue
<1> QED  BY <1>6, <1>7, <1>8 DEF Truth

\* The thread moves, or a request goes out: an outcome is claimed only of what was
\* confirmed.
LEMMA TrueThread ==
  ASSUME Parts, Undisturbed, Truth,
         Dispatch \/ GiveUp \/ Confirm \/ Send \/ \E c \in Command : Reconcile(c)
  PROVE  Truth'
<1>1. UNCHANGED <<clock, deadline, ledger, disk, receipts, applied, reported, revoked, signedOut>>
  BY DEF Dispatch, GiveUp, Confirm, Send, Reconcile, OnlyRun, server
<1>2. /\ \A c \in Command : (Expired(c)' <=> Expired(c)) /\ (Took(c)' <=> Took(c))
      /\ Open(ledger)' = Open(ledger)
  BY <1>1 DEF Expired, Took, Open
<1>3. ~signedOut /\ run.cmd \notin Held /\ identity \notin revoked /\ RunTrue
  BY DEF Truth, ServerTrue, Undisturbed
<1>4. CASE Dispatch
  <2>1. run.step = "dispatch" /\ run # Idle
    BY <1>4 DEF Dispatch, Idle
  <2>2. run \in Working /\ \E s \in {"report", "post"} : Step("dispatch", s)
    BY <1>3, <1>4, <2>1, AtWork DEF Dispatch
  <2>3. run'.step \in {"report", "post"} /\ run'.cmd = run.cmd /\ run'.replay = run.replay
    BY <2>2 DEF Step, Working
  <2>4. RunTrue'
    BY <1>2, <1>3, <2>3 DEF RunTrue
  <2> QED  BY <1>1, <2>4, TrueMoves
<1>5. CASE GiveUp
  <2>1. run.step = "post" /\ run # Idle
    BY <1>5 DEF GiveUp, Idle
  <2>2. run \in Working
    BY <2>1, AtWork
  <2>3. /\ run'.step = "record" /\ run'.cmd = run.cmd /\ run'.replay = run.replay
        /\ run'.out = "unknown" /\ run'.known = FALSE
    BY <1>5, <2>2 DEF GiveUp, Done, Working
  <2>4. RunTrue'
    BY <1>2, <1>3, <2>3 DEF RunTrue
  <2> QED  BY <1>1, <2>4, TrueMoves
<1>6. CASE Confirm
  <2>1. run.step = "confirm" /\ run # Idle
    BY <1>6 DEF Confirm, Idle
  <2>2. run \in Working /\ run.cmd \in Command
    BY <2>1, AtWork
  <2>3. /\ run'.step = "record" /\ run'.cmd = run.cmd /\ run'.replay = run.replay
        /\ run'.out \in {"ok", "unknown"} /\ run'.known = TRUE
    BY <1>3, <1>6, <2>2 DEF Confirm, Done, Working
  <2>4. RunTrue'
    BY <1>2, <1>3, <2>1, <2>2, <2>3 DEF RunTrue
  <2> QED  BY <1>1, <2>4, TrueMoves
<1>7. CASE Send
  <2>1. run' = run
    BY <1>7 DEF Send
  <2>2. Grows
    BY <1>1, ServerStays DEF Truth
  <2> QED  BY <1>1, <1>3, <2>1, <2>2, RunStays, TrueMoves DEF Undisturbed
<1>8. CASE \E c \in Command : Reconcile(c)
  <2>1. run'.step = "look" /\ run'.replay = FALSE
    BY <1>8 DEF Reconcile, Idle
  <2>2. RunTrue'
    BY <2>1 DEF RunTrue
  <2> QED  BY <1>1, <2>2, TrueMoves
<1> QED  BY <1>4, <1>5, <1>6, <1>7, <1>8

\* A request is answered: what the thread will record is what the server says.
LEMMA TrueRequest ==
  ASSUME Parts, Undisturbed, Truth, Report \/ \E answer \in AllAnswers \cup {"ok"} : Post(answer)
  PROVE  Truth'
<1>1. run.step \in {"report", "post"} /\ UNCHANGED <<clock, deadline, ledger, disk>>
  BY DEF Report, Post, Step
<1>2. run # Idle
  BY <1>1 DEF Idle
<1>3. run \in Working /\ run.cmd \in Command /\ identity \in Device /\ KindOf[run.cmd] # "logout"
  BY <1>2, AtWork DEF Parts, RestOK, Undisturbed
<1>4. Open(ledger)' = Open(ledger) /\ \A c \in Command : Expired(c)' <=> Expired(c)
  BY <1>1 DEF Open, Expired
<1>5. ServerTrue /\ RunTrue /\ Devices = 1
  BY DEF Truth, Undisturbed
<1>6. CASE Report
  <2>1. \E answer : Handle(identity, run.cmd, "report", answer)
    BY <1>6 DEF Report
  <2>2. Grows /\ ServerTrue'
    BY <1>1, <1>3, <1>5, <1>6, <2>1, Answered DEF Report, ServerTrue
  <2>3. run'.step = "post" /\ run'.cmd = run.cmd /\ run'.replay = run.replay
    BY <1>3, <1>6 DEF Report, Step, Working
  <2>4. RunTrue'
    BY <1>4, <1>5, <2>3 DEF RunTrue
  <2> QED  BY <1>1, <1>5, <2>2, <2>4, Stays DEF Truth
<1>7. ASSUME NEW answer \in AllAnswers \cup {"ok"}, Post(answer)
      PROVE  Truth'
  <2>1. Handle(identity, run.cmd, "write", answer) /\ signedOut' = signedOut
    BY <1>3, <1>7 DEF Post
  <2>2. PICK c \in Command : c = run.cmd
    BY <1>3
  <2>3. /\ Grows /\ revoked' = {} /\ (answer = "ok" => Took(c)')
        /\ answer \in Final /\ ~Expired(c) => Spent(c)'
        /\ \A e \in Device, x \in Command : receipts'[e][x] = "ok" => applied'[e][x] > 0
    BY <1>1, <1>3, <1>5, <2>1, <2>2, Answered
  <2>4. run'.cmd = c /\ run'.replay = run.replay
    BY <1>3, <1>7, <2>2 DEF Post, Step, Done, Working
  <2>5. /\ run'.step = "confirm" => answer = "ok"
        /\ run'.step \in {"record", "confirm"}
        /\ run'.step = "record" =>
             /\ run'.out \in {"ok", "refused", "unknown"}
             /\ run'.out = "ok" \/ run'.known => answer = "ok"
             /\ run'.out = "refused" => answer \in Final
    BY <1>3, <1>7 DEF Post, Step, Done, Working
  <2>6. RunTrue'
    BY <1>4, <1>5, <2>2, <2>3, <2>4, <2>5 DEF RunTrue
  <2>7. ServerTrue'
    BY <1>5, <2>1, <2>3 DEF ServerTrue
  <2> QED  BY <1>1, <1>5, <2>3, <2>6, <2>7, Stays DEF Truth
<1> QED  BY <1>6, <1>7

\* What is recorded at the end of a dispatch or a replay, or is closed without asking.
LEMMA TrueRecorded ==
  ASSUME Parts, Undisturbed, Truth,
         Record \/ Replayed \/ Adopt \/ Look \/ \E c \in Command : Resolve(c)
  PROVE  Truth'
<1>1. /\ UNCHANGED <<clock, deadline, receipts, applied, reported, revoked, signedOut>>
      /\ ledger \in Table /\ LedgerTrue(ledger) /\ RunTrue
  BY DEF Record, Replayed, Adopt, Look, Resolve, server, Parts, LedgerOK, Truth
<1>2. ASSUME NEW c \in Command, ledger[c] # NoEntry
      PROVE  ledger[c] \in Entry
  BY <1>2, EntryThere DEF Parts
<1>3. ASSUME NEW c \in Command, Resolve(c)
      PROVE  Truth'
  <2> DEFINE e == Cleared(ledger[c], "unresolved", ledger[c].known)
  <2>1. ledger[c] \in Entry
    BY <1>2, <1>3 DEF Resolve
  <2>2. e.state = "unresolved" /\ e.known = ledger[c].known
    BY <2>1, SameDevice
  <2>3. ~Expired(c) => EntryTrue(e, c)
    BY <1>1, <2>2 DEF LedgerTrue, EntryTrue
  <2>4. LedgerTrue([ledger EXCEPT ![c] = e])
    BY <1>1, <2>3, TrueReplaced
  <2> QED  BY <1>1, <1>3, <2>4, TrueSaved DEF Resolve, Save
<1> DEFINE c == run.cmd
<1>4. ASSUME run # Idle
      PROVE  run \in Working /\ c \in Command /\ ledger[c] \in Entry
  BY <1>4, AtWork
<1>5. CASE Record
  <2> DEFINE e == Outcome(ledger[c])
             open == [e EXCEPT !.state = "reconciling"]
  <2>1. run.step = "record" /\ run # Idle /\ run' = Idle
    BY <1>5 DEF Record, Idle
  <2>2. /\ e.state = "succeeded" <=> run.out = "ok"
        /\ e.state = "rejected" <=> run.out \in {"refused", "unready"}
        /\ e.known = (run.out = "ok" \/ run.known) /\ e \in Entry
    BY <2>1, <1>4, OutcomeSays, OutcomeEntry
  <2>3. ~Expired(c) => EntryTrue(e, c) /\ EntryTrue(open, c)
    <3>1. open.state = "reconciling" /\ open.known = e.known
      BY <2>2 DEF Entry
    <3>2. ~Expired(c) => /\ run.out = "ok" \/ run.known => Took(c)
                         /\ run.out = "refused" /\ ~run.known => Spent(c)
                         /\ run.out # "unready"
      BY <1>1, <2>1 DEF RunTrue
    <3> HIDE DEF e, open
    <3> QED  BY <2>2, <3>1, <3>2 DEF EntryTrue
  <2>4. LedgerTrue([ledger EXCEPT ![c] = e]) /\ LedgerTrue([ledger EXCEPT ![c] = open])
    <3> HIDE DEF e, open
    <3> QED  BY <1>1, <1>4, <2>1, <2>3, TrueReplaced
  <2>5. \/ SaveBeforeSending([ledger EXCEPT ![c] = e])
        \/ /\ ledger' = [[ledger EXCEPT ![c] = e] EXCEPT ![c].state = "reconciling"]
           /\ disk' = disk
    BY <1>5 DEF Record
  <2>6. [[ledger EXCEPT ![c] = e] EXCEPT ![c].state = "reconciling"] = [ledger EXCEPT ![c] = open]
    BY <1>1, <1>4, <2>1 DEF Table
  <2>7. \/ ledger' = [ledger EXCEPT ![c] = e] /\ disk' = ledger'
        \/ ledger' = [ledger EXCEPT ![c] = open] /\ disk' = disk
    BY <2>5, <2>6 DEF SaveBeforeSending
  <2> HIDE DEF open, e
  <2> QED  BY <1>1, <2>1, <2>4, <2>7, TrueSaved
<1>6. CASE Replayed
  <2>1. run.step = "record" /\ run.replay /\ run # Idle
    BY <1>6 DEF Replayed, Idle
  <2>2. CASE run.out = "ok" /\ Step("record", "adopt") /\ UNCHANGED <<ledger, disk>>
    <3>1. run'.step = "adopt" /\ run'.cmd = c /\ run'.out = run.out /\ run'.replay = run.replay
      BY <2>1, <2>2, <1>4 DEF Step, Working
    <3>2. PICK x \in Command : x = run.cmd /\ x = run'.cmd
      BY <1>4, <2>1, <3>1
    <3>3. Open(ledger)' = Open(ledger) /\ (Expired(x)' <=> Expired(x)) /\ (Took(x)' <=> Took(x))
      BY <1>1, <2>2 DEF Open, Expired, Took
    <3>4. RunTrue'
      BY <1>1, <2>1, <2>2, <3>1, <3>2, <3>3 DEF RunTrue
    <3> QED  BY <1>1, <2>2, <3>4, TrueMoves
  <2> DEFINE e == IF run.out = "refused" THEN Cleared(ledger[c], "rejected", run.known)
                  ELSE KeepingRequest(ledger[c], ledger[c].state, run.known)
  <2>3. CASE Save([ledger EXCEPT ![c] = e]) /\ run' = Idle
    <3>1. /\ e.known = run.known
          /\ e.state = IF run.out = "refused" THEN "rejected" ELSE ledger[c].state
      BY <2>1, <1>4, SameDevice
    <3>2. ledger[c].state \in {"submitting", "reconciling"}
      BY <1>1, <2>1 DEF RunTrue, Open
    <3>3. ~Expired(c) => EntryTrue(e, c)
      <4> HIDE DEF e
      <4> QED  BY <1>1, <2>1, <3>1, <3>2 DEF RunTrue, EntryTrue
    <3>4. LedgerTrue([ledger EXCEPT ![c] = e])
      <4> HIDE DEF e
      <4> QED  BY <1>1, <1>4, <2>1, <3>3, TrueReplaced
    <3> QED  BY <1>1, <2>3, <3>4, TrueSaved DEF Save
  <2> QED  BY <1>6, <2>2, <2>3 DEF Replayed
<1>7. CASE Adopt
  <2> DEFINE state == IF run.out = "ok" THEN "succeeded" ELSE "rejected"
             e == Cleared(ledger[c], state, run.out = "ok")
  <2>1. run.step = "adopt" /\ run # Idle /\ run' = Idle
    BY <1>7 DEF Adopt, Idle
  <2>2. e.state = state /\ e.known = (run.out = "ok")
    BY <2>1, <1>4, SameDevice
  <2>3. ~Expired(c) => EntryTrue(e, c)
    <3> HIDE DEF e
    <3> QED  BY <1>1, <2>1, <2>2 DEF RunTrue, EntryTrue
  <2>4. LedgerTrue([ledger EXCEPT ![c] = e])
    <3> HIDE DEF e
    <3> QED  BY <1>1, <1>4, <2>1, <2>3, TrueReplaced
  <2>5. \/ ledger' = [ledger EXCEPT ![c] = e] /\ disk' \in {disk, [ledger EXCEPT ![c] = e]}
        \/ UNCHANGED <<ledger, disk>>
    BY <1>7 DEF Adopt, Save
  <2> HIDE DEF e
  <2> QED  BY <1>1, <2>1, <2>4, <2>5, TrueSaved DEF Truth
<1>8. CASE Look
  <2>1. run.step = "look" /\ run # Idle
    BY <1>8 DEF Look, Idle
  <2>2. CASE /\ MayReplay(ledger[c])
             /\ run' = [run EXCEPT !.step = "dispatch", !.replay = TRUE]
             /\ UNCHANGED <<ledger, disk>>
    <3>1. c \in Open(ledger)
      <4>1. ledger[c].request /\ ledger[c].state \notin Terminal
        BY <1>4, <2>1, <2>2 DEF MayReplay, Parts, LedgerOK
      <4> QED  BY <4>1, <1>4, <2>1 DEF Entry, Open, Terminal
    <3>2. run'.step = "dispatch" /\ run'.cmd = c /\ Open(ledger)' = Open(ledger)
      BY <1>4, <2>1, <2>2 DEF Working, Open
    <3>3. RunTrue'
      BY <3>1, <3>2 DEF RunTrue
    <3> QED  BY <1>1, <2>2, <3>3, TrueMoves
  <2>3. CASE /\ Save([ledger EXCEPT ![c] = Cleared(@, "unresolved", @.known)]) /\ run' = Idle
    <3> DEFINE e == Cleared(ledger[c], "unresolved", ledger[c].known)
    <3>1. e.state = "unresolved" /\ e.known = ledger[c].known
      BY <2>1, <1>4, SameDevice
    <3>2. ~Expired(c) => EntryTrue(e, c)
      BY <1>1, <1>4, <2>1, <3>1 DEF LedgerTrue, EntryTrue
    <3>3. LedgerTrue([ledger EXCEPT ![c] = e])
      BY <1>1, <1>4, <2>1, <3>2, TrueReplaced
    <3> QED  BY <1>1, <2>3, <3>3, TrueSaved DEF Save
  <2>4. CASE /\ Receipt # "none"
             /\ run' = [run EXCEPT !.step = "adopt", !.out = OutcomeOf(Receipt)]
             /\ UNCHANGED <<ledger, disk>>
    <3>1. Device = {1} /\ ledger[c].device \in Device
      BY <2>1, <1>4 DEF Entry, Undisturbed, Device
    <3>2. Receipt = receipts[1][c] /\ Receipt \in {"report", "ok", "refused"}
      BY <2>1, <1>4, <2>4, <3>1 DEF Receipt, Parts, ServerOK
    <3>3. PICK x \in Command : x = run.cmd
      BY <1>4, <2>1
    <3>4. /\ run'.cmd = x /\ run'.step = "adopt" /\ run'.out = OutcomeOf(Receipt)
          /\ run'.replay = run.replay
      BY <2>1, <1>4, <2>4, <3>3 DEF Working
    <3>5. IF run'.out = "ok" THEN Took(x) ELSE Spent(x)
      BY <3>1, <3>2, <3>3, <3>4 DEF OutcomeOf, Truth, ServerTrue, Took, Spent
    <3>6. (Took(x)' <=> Took(x)) /\ (Spent(x)' <=> Spent(x)) /\ Open(ledger)' = Open(ledger)
      BY <1>1, <2>4 DEF Took, Spent, Open
    <3>7. RunTrue'
      BY <1>1, <3>3, <3>4, <3>5, <3>6 DEF RunTrue
    <3> QED  BY <1>1, <2>4, <3>7, TrueMoves
  <2>5. CASE run' = Idle /\ UNCHANGED <<ledger, disk>>
    BY <1>1, <2>5, TrueSaved DEF Truth
  <2> QED  BY <1>8, <2>2, <2>3, <2>4, <2>5 DEF Look
<1> QED  BY <1>3, <1>5, <1>6, <1>7, <1>8

\* The control plane, the clock and the service's deaths: nobody revokes, and there is no
\* other account to change to.
LEMMA TrueAround ==
  ASSUME Parts, Undisturbed, Truth,
         \/ \E copy \in wire : Deliver(copy)
         \/ Sweep \/ Switch \/ Crash \/ Tick \/ \E d \in Revocable : Revoke(d)
  PROVE  Truth'
<1>1. ServerTrue /\ RunTrue /\ LedgerTrue(ledger) /\ LedgerTrue(disk) /\ Devices = 1
  BY DEF Truth, Undisturbed
<1>2. clock \in Nat /\ deadline \in [Command -> Int]
  BY DEF Parts, RestOK
<1>3. ASSUME NEW copy \in wire, Deliver(copy)
      PROVE  Truth'
  <2>1. copy[1] \in Device /\ copy[2] \in Command /\ copy[3] \in {"report", "write"}
    BY DEF Parts, WireOK
  <2>2. UNCHANGED <<clock, deadline, ledger, disk, run, signedOut>>
    BY <1>3 DEF Deliver
  <2>3. Grows /\ ServerTrue'
    BY <1>1, <1>3, <2>1, <2>2, Answered DEF Deliver, ServerTrue
  <2> QED  BY <1>1, <2>2, <2>3, Stays, RunStays DEF Truth
<1>4. CASE Sweep
  <2>1. /\ UNCHANGED <<clock, deadline, ledger, disk, run, signedOut, applied, revoked>>
        /\ \A d \in Device, c \in Command :
             receipts'[d][c] = IF deadline[c] < clock THEN "none" ELSE receipts[d][c]
    BY <1>4 DEF Sweep
  <2>2. Grows
    BY <1>2, <2>1 DEF Grows, Expired
  <2>3. ServerTrue'
    BY <1>1, <2>1 DEF ServerTrue
  <2> QED  BY <1>1, <2>1, <2>2, <2>3, Stays, RunStays DEF Truth
<1>5. CASE Crash
  <2>1. /\ UNCHANGED <<clock, deadline, disk, signedOut, receipts, applied, reported, revoked>>
        /\ run' = Idle /\ ledger' = [c \in Command |-> Loaded(c)]
    BY <1>5 DEF Crash, server
  <2> DEFINE l == [c \in Command |-> Loaded(c)]
  <2>2. LedgerTrue(l)
    BY <1>1, LoadedSays DEF LedgerTrue, EntryTrue
  <2>3. LedgerTrue(ledger)' /\ LedgerTrue(disk)'
    BY <1>1, <2>1, <2>2 DEF LedgerTrue, EntryTrue, Took, Spent, Expired
  <2>4. RunTrue'
    BY <2>1 DEF RunTrue, Idle
  <2> QED  BY <1>1, <2>1, <2>3, <2>4, ServerStays DEF Truth
<1>6. CASE Tick
  <2>1. UNCHANGED <<deadline, ledger, disk, run, signedOut, receipts, applied, reported, revoked>>
    BY <1>6 DEF Tick, server
  <2>2. clock' = clock + 1
    BY <1>6 DEF Tick
  <2>3. Grows
    BY <1>2, <2>1, <2>2 DEF Grows, Expired
  <2>4. ServerTrue'
    BY <1>1, <2>1 DEF ServerTrue
  <2> QED  BY <1>1, <2>1, <2>3, <2>4, Stays, RunStays DEF Truth
<1>7. ~Switch /\ ~\E d \in Revocable : Revoke(d)
  BY <1>1 DEF Switch, Undisturbed, Parts, RestOK, Device
<1> QED  BY <1>3, <1>4, <1>5, <1>6, <1>7

\* Every step keeps the claims true.
LEMMA TrueSteps == Undisturbed /\ LedgerInv /\ Truth /\ [Next]_vars => Truth'
<1> SUFFICES ASSUME Undisturbed, Parts, Truth, [Next]_vars  PROVE Truth'
  BY Sorted DEF Parts
<1>1. CASE UNCHANGED vars
  BY <1>1, ServerStays, Stays, RunStays DEF vars, server, Truth, Undisturbed
<1>2. CASE Next
  BY <1>2, TrueIssue, TrueThread, TrueRequest, TrueRecorded, TrueAround DEF Next, Proceed
<1> QED  BY <1>1, <1>2

\* What the ledger says of a command is what became of it, until its deadline.
THEOREM OutcomesAreTrue ==
  ASSUME Devices = 1, Revocable = {}, Held = {}, \A c \in Command : KindOf[c] # "logout"
  PROVE  Spec => []OutcomesTrue
<1>1. Undisturbed
  BY DEF Undisturbed
<1>2. Init => LedgerInv /\ Truth
  BY <1>1, Start, TrueStart
<1>3. LedgerInv /\ Truth /\ [Next]_vars => LedgerInv' /\ Truth'
  BY <1>1, Steps, TrueSteps
<1>4. LedgerInv /\ Truth => OutcomesTrue
  <2> SUFFICES ASSUME LedgerInv, Truth, NEW c \in Command, ~Expired(c)
               PROVE  /\ ledger[c].state = "succeeded" \/ ledger[c].known =>
                           \E d \in Device : applied[d][c] > 0 \/ receipts[d][c] = "report"
                      /\ ledger[c].state = "rejected" /\ ~ledger[c].known =>
                           \A d \in Device : applied[d][c] = 0
    BY DEF OutcomesTrue
  <2>1. EntryTrue(ledger[c], c)
    BY DEF Truth, LedgerTrue
  <2>2. \A d \in Device : applied[d][c] \in Nat /\ (applied[d][c] > 0 => receipts[d][c] = "ok")
    BY DEF LedgerInv, TypeOK, ReceiptKept
  <2> QED  BY <2>1, <2>2 DEF EntryTrue, Took, Spent
<1> QED  BY <1>2, <1>3, <1>4, PTL DEF Spec
=============================================================================
