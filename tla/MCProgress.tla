----------------------------- MODULE MCProgress -----------------------------
(***************************************************************************)
(* Components that wait, retry, expire or are interrupted, side by side: a *)
(* behaviour is one of a single component, chosen at the start, while the  *)
(* others stay in their initial state.  The writes of Idempotency are      *)
(* those of the EXTENDS; the rest are instances of their modules.  A name  *)
(* that two of them use gets a prefix here.                                *)
(***************************************************************************)
EXTENDS Idempotency

CONSTANTS
  c1, c2, k1,
  Room, noRoom, MaxJoins, MaxRoster, NetworkFaults,       \* the network
  Browser, Subject, Known, LoginRoom, LoginFaults, MaxRevision,    \* the login
  MaxVersion, JobFaults, MaxOffers, MaxManual,            \* the update job
  WindowsUser, nobody, MaxPackage, MaxAdapters, SetupFaults\* the setup

ASSUME NetworkAssumption ==
  /\ MaxJoins \in Nat /\ MaxRoster \in Nat /\ NetworkFaults \in Nat
  /\ noRoom \notin Room
ASSUME LoginAssumption == LoginFaults \in Nat /\ MaxRevision \in Nat \ {0}
ASSUME JobAssumption ==
  MaxVersion \in Nat /\ JobFaults \in Nat /\ MaxOffers \in Nat /\ MaxManual \in Nat
ASSUME SetupAssumption ==
  /\ MaxPackage \in Nat /\ MaxAdapters \in Nat /\ SetupFaults \in Nat
  /\ nobody \notin WindowsUser /\ WindowsUser # {}

MCKeyOf == [c \in Command |-> k1]
MCLead == [c \in Command |-> IF c = c2 THEN -1 ELSE 0]
MCCommand == {c1}
MCKindOf == [c \in MCCommand |-> "enter"]
MCNone == {}

VARIABLES
  part,
  ledgerClock, issued, ledger, ledgerDisk, run, ledgerIdentity, signedOut, answered, done,
    ledgerReported, ledgerRevoked, wire,
  seat, control, roster, barred, remembered, required, paused, pauseFile, engine, lease,
    shown, watch, stray, wake, loop, command, retry, stopper, stale, seen, heard, held,
    networkFaults,
  revision, tx, expired, identities, registered, device, member, left, revoked, callback,
    loginFile, published, loginDisk, selected, loginStep, loginFaults,
  offered, installed, service, job, aged, packages, ui, requested, step, unit, queued,
    approved, faults, offers, manual,
  files, attached, running, owner, adapters, record, op, setupFaults

ledgerVars == <<ledgerClock, issued, ledger, ledgerDisk, run, ledgerIdentity, signedOut,
                answered, done, ledgerReported, ledgerRevoked, wire>>
networkVars == <<seat, control, roster, barred, remembered, required, paused, pauseFile, engine,
                 lease, shown, watch, stray, wake, loop, command, retry, stopper, stale, seen,
                 heard, held, networkFaults>>
loginVars == <<revision, tx, expired, identities, registered, device, member, left, revoked,
               callback, loginFile, published, loginDisk, selected, loginStep, loginFaults>>
jobVars == <<offered, installed, service, job, aged, packages, ui, requested, step, unit,
             queued, approved, faults, offers, manual>>
setupVars == <<files, attached, running, owner, adapters, record, op, setupFaults>>
all == <<part, vars, ledgerVars, networkVars, loginVars, jobVars, setupVars>>

-----------------------------------------------------------------------------
Ledger == INSTANCE CommandLedger WITH
  clock <- ledgerClock, deadline <- issued, disk <- ledgerDisk, identity <- ledgerIdentity,
  receipts <- answered, applied <- done, reported <- ledgerReported,
  revoked <- ledgerRevoked,
  Devices <- 2, Command <- MCCommand, KindOf <- MCKindOf, Held <- MCCommand,
  Revocable <- MCNone, Window <- 1, Lag <- 0, MaxClock <- 2

Net == INSTANCE AgentNetwork WITH
  member <- seat, rooms <- control, identity <- remembered, file <- pauseFile,
  told <- heard, faults <- networkFaults,
  None <- noRoom, MaxFaults <- NetworkFaults

Login(linked) == INSTANCE OidcLogin WITH
  file <- loginFile, disk <- loginDisk, step <- loginStep, faults <- loginFaults,
  Link <- linked, Room <- LoginRoom, MaxFaults <- LoginFaults

Job == INSTANCE UpdateJob WITH
  MaxFaults <- JobFaults

Setup == INSTANCE WindowsSetup WITH
  User <- WindowsUser, registered <- attached, faults <- setupFaults,
  Nobody <- nobody, TornWrites <- FALSE, MaxVersion <- MaxPackage, MaxFaults <- SetupFaults

-----------------------------------------------------------------------------

InWrites(A) == part = "writes" /\ A
  /\ UNCHANGED <<part, ledgerVars, networkVars, loginVars, jobVars, setupVars>>
InLedger(A) == part = "ledger" /\ A
  /\ UNCHANGED <<part, vars, networkVars, loginVars, jobVars, setupVars>>
InNetwork(A) == part = "network" /\ A
  /\ UNCHANGED <<part, vars, ledgerVars, loginVars, jobVars, setupVars>>
InLogin(p, A) == part = p /\ A
  /\ UNCHANGED <<part, vars, ledgerVars, networkVars, jobVars, setupVars>>
InJob(A) == part = "job" /\ A
  /\ UNCHANGED <<part, vars, ledgerVars, networkVars, loginVars, setupVars>>
InSetup(A) == part = "setup" /\ A
  /\ UNCHANGED <<part, vars, ledgerVars, networkVars, loginVars, jobVars>>

PartsInit ==
  /\ part \in {"writes", "ledger", "network", "login", "link", "job", "setup"}
  /\ Init /\ Ledger!Init /\ Net!Init /\ Job!Init /\ Setup!Init
  /\ IF part = "link" THEN Login(TRUE)!Init ELSE Login(FALSE)!Init

PartsNext ==
  \/ InWrites(Next) \/ InLedger(Ledger!Next) \/ InNetwork(Net!Next)
  \/ InLogin("login", Login(FALSE)!Next) \/ InLogin("link", Login(TRUE)!Next)
  \/ InJob(Job!Next) \/ InSetup(Setup!Next)

\* The fairness of each component, as its module states it.  The link of a
\* guest account has none: its login is the subject of a run of its own.
\* A component that does not run does not change: its variables are left out
\* of the subscript then.
Fair(p, A) == part = p /\ part' = part /\ A
Of(p, v) == IF part = p THEN v ELSE << >>
ledgerView == Of("ledger", ledgerVars)
networkView == Of("network", networkVars)
loginView == Of("login", loginVars)
jobView == Of("job", jobVars)
Calls == Net!Account \/ Net!Heartbeat \/ Net!Snapshot \/ Net!Refresh
           \/ Net!Renew \/ Net!Apply
Fairness ==
  /\ WF_ledgerView(Fair("ledger", Ledger!Proceed))
  /\ WF_ledgerView(Fair("ledger", Ledger!Tick))
  /\ SF_ledgerView(Fair("ledger", Ledger!Resolve(c1)))
  /\ SF_networkView(Fair("network", Net!Begin))
  /\ WF_networkView(Fair("network", Calls))
  /\ WF_networkView(Fair("network", Net!Ticker))
  /\ WF_networkView(Fair("network", Net!SavePaused))
  /\ WF_networkView(Fair("network", Net!StopPaused))
  /\ WF_networkView(Fair("network", Net!CommitRetry))
  /\ WF_networkView(Fair("network", Net!ApplyActionResult))
  /\ WF_loginView(Fair("login", Login(FALSE)!Agent))
  /\ WF_loginView(Fair("login", Login(FALSE)!Expires))
  /\ WF_jobView(Fair("job", Job!Begin /\ Job!IsStuck))
  /\ WF_jobView(Fair("job", Job!Recover))
  /\ WF_jobView(Fair("job", Job!Decide \/ Job!Download \/ Job!Recheck))
  /\ WF_jobView(Fair("job", Job!Installer))
  /\ WF_jobView(Fair("job", Job!Age))
  /\ WF_jobView(Fair("job", Job!ServiceStarts))

\* The network runs only with what the agent may use (Net!Inv), a pause or a stop is
\* not undone by a step that was under way, and no step in flight starts the network of a
\* membership again after the watch has seen it end: Runtime.step, stopNetworkLocked.
NetworkInv == part = "network" => Net!Inv /\ Net!StopHolds /\ Net!EndedStays
\* The agent switches identity only when the new key is authorized, and in a login only
\* when the room it remembers has been left under the login's own operation
\* (SwitchIsSound), wherever it crashed, however often its calls were lost and whatever
\* rooms were joined or left between two polls: Runtime.accountAction.
LoginInv == (part = "login" => Login(FALSE)!Inv) /\ (part = "link" => Login(TRUE)!Inv)
\* The installer works only on releases somebody asked for and that were still on offer
\* when their download had ended (OnlyApproved), and never without the package to go
\* back to, though the service prunes the cache meanwhile (CanRollBack):
\* Runtime.updateStep, update.Apply.
JobInv == part = "job" => Job!Inv
\* After any interruption of a setup or removal the complete package can be run again
\* (Repairable), and no file is replaced under a running service (RunsInstalled):
\* runWindowsSetup, removeWindowsBundle, Install.
SetupInv == Setup!Inv
\* Setup and removal delete no network adapter but those they made (removeTAP), and while
\* the service is registered no file is replaced by an older one, also across interrupted
\* setups (overwriteBundle).
SetupSteps == Setup!OnlyOwnAdapters /\ Setup!NeverOlder
\* An identity of the provider that belongs to an account never moves to another, though
\* a guest links to it: completeIdentity.
AccountsKept == [][Login(FALSE)!BoundStep]_loginVars
\* A command does not stay open for ever, though the account has changed meanwhile:
\* Runtime.reconcileCommand.
PendingEnds == Ledger!PendingEnds
\* A member whose agent may run is connected in the end, after failed calls, a restart,
\* a pause that was lifted: Runtime.Run.
Reconnects == Net!Reconnects
\* A login that was begun does not stay begun for ever (OidcLogin's LoginEnds, for the
\* login alone), unless its leave of the room the agent remembers is refused for good:
\* Runtime.accountAction.
LoginEnds ==
  (part = "login" /\ loginFile.phase # Login(FALSE)!None)
    ~> (loginFile.phase = Login(FALSE)!None \/ Login(FALSE)!LeaveStuck)
\* A job whose installer was interrupted, by a crash or a loss of power, does not stay
\* "installing" for ever: Runtime.updateStep.
InterruptedEnds == Job!InterruptedEnds

PartsSpec == PartsInit /\ [][PartsNext]_all /\ Fairness
=============================================================================
