-------------------------- MODULE MCLedgers_proofs --------------------------
(***************************************************************************)
(* Proofs about module MCLedgers: its second instance, with two identities *)
(* and an administrator, is one of those that the invariants of            *)
(* CommandLedger_proofs are about, for any commands.  The first instance   *)
(* is the one of the EXTENDS, whose theorems need no translation.          *)
(***************************************************************************)
EXTENDS MCLedgers, TLAPS

\* The proofs of CommandLedger_proofs, of the agent with two accounts.
AccountsProofs == INSTANCE CommandLedger_proofs WITH
  Devices <- 2, KindOf <- LogoutAndLeave, Held <- {}, Revocable <- FirstIdentity,
  Window <- 1, Lag <- 0, MaxClock <- 3,
  clock <- now, deadline <- due, ledger <- entries, disk <- file, run <- thread,
  identity <- account, signedOut <- loggedOut, receipts <- answers, applied <- effects,
  reported <- reports, revoked <- withdrawn, wire <- copies

\* The constants of the instance are what LedgerAssumption asks for.
LEMMA AccountsConstants ==
  /\ 2 \in Nat \ {0} /\ NoCommand \notin Command
  /\ LogoutAndLeave \in [Command -> {"enter", "leave", "manage", "logout"}]
  /\ {} \subseteq {c \in Command : LogoutAndLeave[c] = "enter"}
  /\ FirstIdentity \subseteq AccountsProofs!Device
  /\ 1 \in Nat /\ 0 \in 0..1 /\ 3 \in Nat
BY LedgerAssumption DEF LogoutAndLeave, FirstIdentity, AccountsProofs!Device

\* What is inductive of any ledger is inductive of this one.
LEMMA AccountsInductive ==
  /\ AccountsProofs!Init => AccountsProofs!LedgerInv /\ AccountsProofs!LogoutOK
  /\ /\ AccountsProofs!LedgerInv /\ AccountsProofs!LogoutOK
     /\ [AccountsProofs!Next]_AccountsProofs!vars
     => AccountsProofs!LedgerInv' /\ AccountsProofs!LogoutOK'
<1>1. /\ AccountsProofs!Init => AccountsProofs!LedgerInv
      /\ AccountsProofs!Init => AccountsProofs!LogoutOK
  BY AccountsConstants, AccountsProofs!Start, AccountsProofs!OutStart
<1>2. AccountsProofs!LedgerInv /\ [AccountsProofs!Next]_AccountsProofs!vars
      => AccountsProofs!LedgerInv'
  BY AccountsConstants, AccountsProofs!Steps
<1>3. /\ AccountsProofs!LedgerInv /\ AccountsProofs!LogoutOK
      /\ [AccountsProofs!Next]_AccountsProofs!vars
      => AccountsProofs!LogoutOK'
  BY AccountsConstants, AccountsProofs!OutSteps
<1> QED  BY <1>1, <1>2, <1>3

\* The ledger whose proofs are used is the one of MCLedgers.
LEMMA SameLedger ==
  /\ Accounts!Init <=> AccountsProofs!Init
  /\ Accounts!Next <=> AccountsProofs!Next
  /\ Accounts!AtMostOnce <=> AccountsProofs!AtMostOnce
  /\ Accounts!SignedOutStays <=> AccountsProofs!SignedOutStays
<1>1. Accounts!Init <=> AccountsProofs!Init
  BY Zenon DEF Accounts!Device, AccountsProofs!Device, Accounts!Unsent, AccountsProofs!Unsent,
       Accounts!NoEntry, AccountsProofs!NoEntry, Accounts!Idle, AccountsProofs!Idle,
       Accounts!Init, AccountsProofs!Init
<1>2. Accounts!Next <=> AccountsProofs!Next
  BY Zenon DEF Accounts!Device, AccountsProofs!Device, Accounts!Unsent, AccountsProofs!Unsent,
       Accounts!server, AccountsProofs!server, Accounts!NoEntry, AccountsProofs!NoEntry,
       Accounts!Idle, AccountsProofs!Idle, Accounts!Expired, AccountsProofs!Expired,
       Accounts!Handle, AccountsProofs!Handle, Accounts!Deliver, AccountsProofs!Deliver,
       Accounts!Sweep, AccountsProofs!Sweep, Accounts!Revoke, AccountsProofs!Revoke,
       Accounts!ClientClock, AccountsProofs!ClientClock, Accounts!Late, AccountsProofs!Late,
       Accounts!Open, AccountsProofs!Open, Accounts!Settled, AccountsProofs!Settled,
       Accounts!Save, AccountsProofs!Save,
       Accounts!SaveBeforeSending, AccountsProofs!SaveBeforeSending,
       Accounts!Remembered, AccountsProofs!Remembered, Accounts!Issue, AccountsProofs!Issue,
       Accounts!Step, AccountsProofs!Step, Accounts!Done, AccountsProofs!Done,
       Accounts!OnlyRun, AccountsProofs!OnlyRun, Accounts!Dispatch, AccountsProofs!Dispatch,
       Accounts!Send, AccountsProofs!Send, Accounts!Report, AccountsProofs!Report,
       Accounts!AllAnswers, AccountsProofs!AllAnswers, Accounts!Final, AccountsProofs!Final,
       Accounts!Confirms, AccountsProofs!Confirms, Accounts!SignOut, AccountsProofs!SignOut,
       Accounts!Post, AccountsProofs!Post, Accounts!GiveUp, AccountsProofs!GiveUp,
       Accounts!Confirm, AccountsProofs!Confirm, Accounts!Outcome, AccountsProofs!Outcome,
       Accounts!Record, AccountsProofs!Record,
       Accounts!KeepingRequest, AccountsProofs!KeepingRequest,
       Accounts!Cleared, AccountsProofs!Cleared, Accounts!Overdue, AccountsProofs!Overdue,
       Accounts!Resolve, AccountsProofs!Resolve, Accounts!Reconcile, AccountsProofs!Reconcile,
       Accounts!Receipt, AccountsProofs!Receipt, Accounts!Granted, AccountsProofs!Granted,
       Accounts!OutcomeOf, AccountsProofs!OutcomeOf,
       Accounts!MayReplay, AccountsProofs!MayReplay, Accounts!Look, AccountsProofs!Look,
       Accounts!Replayed, AccountsProofs!Replayed,
       Accounts!Adoptable, AccountsProofs!Adoptable, Accounts!Adopt, AccountsProofs!Adopt,
       Accounts!OpHeld, AccountsProofs!OpHeld, Accounts!Switch, AccountsProofs!Switch,
       Accounts!Loaded, AccountsProofs!Loaded, Accounts!Crash, AccountsProofs!Crash,
       Accounts!InFirstDispatch, AccountsProofs!InFirstDispatch,
       Accounts!Tick, AccountsProofs!Tick, Accounts!Proceed, AccountsProofs!Proceed,
       Accounts!Next, AccountsProofs!Next
<1>3. Accounts!AtMostOnce <=> AccountsProofs!AtMostOnce
  BY DEF Accounts!AtMostOnce, AccountsProofs!AtMostOnce, Accounts!Device, AccountsProofs!Device
<1>4. Accounts!SignedOutStays <=> AccountsProofs!SignedOutStays
  BY DEF Accounts!SignedOutStays, AccountsProofs!SignedOutStays
<1> QED  BY <1>1, <1>2, <1>3, <1>4

\* What the ledger keeps, in whichever part of MCLedgers.
AccountsKept == AccountsProofs!LedgerInv /\ AccountsProofs!LogoutOK

\* No step of either part disturbs it.
LEMMA AccountsKeep == AccountsKept /\ [PartsNext]_<<part, vars, accountsVars>> => AccountsKept'
<1> SUFFICES ASSUME AccountsKept, [PartsNext]_<<part, vars, accountsVars>>  PROVE AccountsKept'
  OBVIOUS
<1>1. Accounts!Next \/ UNCHANGED accountsVars
  BY DEF PartsNext
<1>2. UNCHANGED accountsVars => UNCHANGED AccountsProofs!vars
  BY DEF accountsVars, AccountsProofs!vars, AccountsProofs!server
<1> QED  BY <1>1, <1>2, SameLedger, AccountsInductive DEF AccountsKept

\* With two identities, one of which may be revoked, no command takes effect twice as one
\* device, and a logout that the file calls done is not undone by what is left in the
\* ledger: for any commands, in whatever order the accounts change, saves fail, the agent
\* dies and late copies arrive (runCommand, reconcileCommand, logout).
THEOREM AccountsKeptApart == PartsSpec => []AccountsInv
<1>1. PartsInit => AccountsKept
  BY SameLedger, AccountsInductive DEF PartsInit, AccountsKept
<1>2. AccountsKept => AccountsInv
  <2>1. AccountsProofs!LedgerInv => AccountsProofs!AtMostOnce
    BY DEF AccountsProofs!LedgerInv
  <2>2. AccountsProofs!LogoutOK => AccountsProofs!SignedOutStays
    BY DEF AccountsProofs!LogoutOK, AccountsProofs!OutStays, AccountsProofs!SignedOutStays
  <2> QED  BY <2>1, <2>2, SameLedger DEF AccountsKept, AccountsInv
<1> QED  BY <1>1, <1>2, AccountsKeep, PTL DEF PartsSpec
=============================================================================
