------------------------------ MODULE MCLedgers -----------------------------
(***************************************************************************)
(* Two instances of CommandLedger, one of which a behaviour chooses at the *)
(* start while the other stays in its initial state: the commands of one   *)
(* identity (the constants of the EXTENDS: an entry and a write of another *)
(* kind, from a client whose clock is behind), and two identities, one of  *)
(* which may be revoked, with a logout and a departure.                    *)
(***************************************************************************)
EXTENDS CommandLedger, TLC

CONSTANTS c1, c2

MCKindOf == [c \in Command |-> IF c = c1 THEN "enter" ELSE "manage"]
LogoutAndLeave == [c \in Command |-> IF c = c1 THEN "logout" ELSE "leave"]
FirstIdentity == {1}

VARIABLES part, now, due, entries, file, thread, account, loggedOut, answers, effects,
          reports, withdrawn, copies

accountsVars == <<now, due, entries, file, thread, account, loggedOut, answers, effects,
                  reports, withdrawn, copies>>

Accounts == INSTANCE CommandLedger WITH
  Devices <- 2, KindOf <- LogoutAndLeave, Held <- {}, Revocable <- FirstIdentity,
  Window <- 1, Lag <- 0, MaxClock <- 3,
  clock <- now, deadline <- due, ledger <- entries, disk <- file, run <- thread,
  identity <- account, signedOut <- loggedOut, receipts <- answers, applied <- effects,
  reported <- reports, revoked <- withdrawn, wire <- copies

PartsInit == part \in {"outcomes", "accounts"} /\ Init /\ Accounts!Init
PartsNext ==
  \/ part = "outcomes" /\ Next /\ UNCHANGED <<part, accountsVars>>
  \/ part = "accounts" /\ Accounts!Next /\ UNCHANGED <<part, vars>>
PartsSpec == PartsInit /\ [][PartsNext]_<<part, vars, accountsVars>>

\* No command takes effect twice although the account changes between two attempts, and
\* a completed logout is not undone by what is left in the ledger (CommandLedger).
AccountsInv == Accounts!AtMostOnce /\ Accounts!SignedOutStays
=============================================================================
