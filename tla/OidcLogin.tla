----------------------------- MODULE OidcLogin -----------------------------
(***************************************************************************)
(* A login through an identity provider: the agent begins an attempt and   *)
(* keeps it in login.bin, browsers authorize, return and confirm, and the  *)
(* agent claims the result, leaves its old room and switches identity.     *)
(* Answers get lost, the agent and the control plane crash, the attempt    *)
(* expires, the provider's settings change.                                *)
(*                                                                         *)
(* Link = FALSE: a new device for the account of a subject; TRUE: the      *)
(* device's guest account becomes registered, and keeps its room.          *)
(* Abstracted: tokens, hashes and signatures to who holds them; time to    *)
(* whether the five minutes of the attempt and the hour of the leave are   *)
(* over; the provider to a choice of its answer.                           *)
(***************************************************************************)
EXTENDS Integers, FiniteSets

CONSTANTS
  Link, Browser, Room,
  Subject,      \* persons at the provider
  Known,        \* those that have an account already
  MaxFaults,    \* bound on lost answers, failing saves and crashes
  MaxRevision   \* bound on changes of the provider's settings

None == "none"
Failures == {"failed", "account_identity_conflict", "auth_login_config_changed"}
Phases == {None, "pending", "authorizing", "exchanging", "verified", "ready", "consumed"}
            \cup Failures
Identity == {"old", "new"}
NoFile == [phase |-> None, attempt |-> FALSE, leave |-> FALSE, late |-> FALSE]

VARIABLES
  revision,    \* oidc_settings.revision
  tx,          \* login_transactions: phase, revision, browser and subject
  expired,     \* the attempt's expires_at is past
  identities,  \* user_identities: the user of a subject
  registered,  \* users whose kind is registered
  device,      \* user_devices: the user of the attempt's device
  member,      \* the room each of the agent's devices is a member of
  left,        \* the room whose leave is recorded under the file's LeaveID, for each device
  revoked,     \* the old device's access is revoked
  callback,    \* browsers that the provider sends back
  file,        \* login.bin; leave: LeaveID is set, late: LeaveDeadline is past
  published,   \* the agent has given the address of the attempt to the desktop
  disk,        \* the identity in the agent's file: old or new
  selected,    \* identity.RoomID, the room that the agent remembers
  step,        \* what accountAction does next, under r.op
  faults
server == <<revision, tx, expired, identities, registered, device>>
rooms == <<member, left, revoked>>
agent == <<file, published, disk, selected, step>>
vars == <<server, rooms, callback, agent, faults>>

User == {"guest", "fresh", "other"}
Steps == {"idle", "begin", "claim", "lost", "terminal", "claimed", "leave", "persist", "clear"}
Tx == [phase : Phases, revision : 0..MaxRevision, browser : Browser \cup {None},
       subject : Subject \cup {None}]
File == [phase : {None, "starting", "waiting", "leaving_old_room", "saving_identity"},
         attempt : BOOLEAN, leave : BOOLEAN, late : BOOLEAN]
TypeOK ==
  /\ tx \in Tx
  /\ revision \in 1..MaxRevision /\ expired \in BOOLEAN
  /\ identities \in [Subject -> User \cup {None}]
  /\ registered \subseteq User /\ device \in User \cup {None}
  /\ member \in [Identity -> Room \cup {None}] /\ left \in [Identity -> Room \cup {None}]
  /\ revoked \in BOOLEAN /\ callback \subseteq Browser
  /\ file \in File /\ published \in BOOLEAN /\ selected \in Room \cup {None}
  /\ disk \in {"old", "new"} /\ step \in Steps /\ faults \in 0..MaxFaults

Init ==
  /\ revision = 1
  /\ tx = [phase |-> None, revision |-> 0, browser |-> None, subject |-> None]
  /\ expired = FALSE
  /\ identities = [s \in Subject |-> IF s \in Known THEN "other" ELSE None]
  /\ registered = IF Known = {} THEN {} ELSE {"other"}
  /\ device = IF Link THEN "guest" ELSE None
  /\ member = [i \in Identity |-> None] /\ left = [i \in Identity |-> None]
  /\ revoked = FALSE /\ selected = None
  /\ callback = {} /\ file = NoFile /\ published = FALSE /\ disk = "old" /\ step = "idle"
  /\ faults = 0

Fault == faults < MaxFaults /\ faults' = faults + 1

-----------------------------------------------------------------------------
(* The control plane. *)

Expires == tx.phase # None /\ ~expired /\ expired' = TRUE
           /\ UNCHANGED <<revision, tx, identities, registered, device, rooms, callback, agent,
                          faults>>

\* saveOIDC ends every attempt that was not claimed, one that is ready included.
SettingsChange ==
  /\ revision < MaxRevision /\ revision' = revision + 1
  /\ tx' = IF tx.phase \in {None, "consumed"} THEN tx
           ELSE [tx EXCEPT !.phase = "auth_login_config_changed", !.subject = None]
  /\ UNCHANGED <<expired, identities, registered, device, rooms, callback, agent, faults>>

\* startLogin: repeated with the same proof it finds the same transaction.  The settings
\* were read before the transaction began, and may have changed since.
MayStart == IF Link THEN device \notin registered ELSE device = None
Started ==
  IF tx.phase # None THEN UNCHANGED tx
  ELSE \E r \in 1..revision :
         tx' = [phase |-> "pending", revision |-> r, browser |-> None, subject |-> None]

Current == ~expired /\ tx.revision = revision

\* authorizeLogin: the first browser to come gets the cookie.
Authorize(b) ==
  /\ published /\ tx.phase = "pending" /\ Current
  /\ tx' = [tx EXCEPT !.phase = "authorizing", !.browser = b]
  /\ callback' = callback \cup {b}
  /\ UNCHANGED <<revision, expired, identities, registered, device, rooms, agent, faults>>

\* completeLogin claims the callback before it uses the code, so that a second one is
\* refused; then the provider answers.
Claimable == tx.phase = "authorizing"
Callback(b) ==
  /\ b \in callback /\ b = tx.browser /\ Claimable /\ ~expired
  /\ tx' = [tx EXCEPT !.phase = "exchanging"]
  /\ UNCHANGED <<revision, expired, identities, registered, device, rooms, callback, agent,
                 faults>>
Exchange(s) ==
  /\ tx.phase = "exchanging"
  /\ tx' = IF Current THEN [tx EXCEPT !.phase = "verified", !.subject = s]
           ELSE [tx EXCEPT !.phase = "failed"]
  /\ UNCHANGED <<revision, expired, identities, registered, device, rooms, callback, agent,
                 faults>>
\* Denied, refused or not understood.
ExchangeFails ==
  /\ tx.phase = "exchanging" /\ tx' = [tx EXCEPT !.phase = "failed"]
  /\ UNCHANGED <<revision, expired, identities, registered, device, rooms, callback, agent,
                 faults>>

\* completeIdentity: a guest keeps its user, an identity keeps its account.
UserFor(s) == IF Link THEN "guest" ELSE IF identities[s] # None THEN identities[s] ELSE "fresh"
ConflictNever(s) == FALSE
Conflict(s) == Link /\ identities[s] \notin {None, "guest"}
Identified(s) ==
  IF Conflict(s)
    THEN /\ tx' = [tx EXCEPT !.phase = "account_identity_conflict"]
         /\ UNCHANGED <<identities, registered, device>>
    ELSE /\ tx' = [tx EXCEPT !.phase = "ready"]
         /\ identities' = [identities EXCEPT ![s] = UserFor(s)]
         /\ registered' = registered \cup {UserFor(s)}
         /\ device' = UserFor(s)

\* confirmLogin, by the browser that authorized; the account may be full or deleted, the
\* session that began the link may have ended.
Confirm(b) ==
  /\ b = tx.browser /\ tx.phase = "verified"
  /\ \/ Current /\ (Link => device \notin registered) /\ Identified(tx.subject)
     \/ /\ tx' = [tx EXCEPT !.phase = "failed"]
        /\ UNCHANGED <<identities, registered, device>>
  /\ UNCHANGED <<revision, expired, rooms, callback, agent, faults>>

\* claimLogin
ClaimAnswer ==
  CASE expired -> "auth_login_expired"
    [] ~expired /\ tx.phase = "consumed" -> "auth_login_unusable"
    [] ~expired /\ tx.phase \in Failures -> "failed"
    [] ~expired /\ tx.phase = "ready" -> "ready"
    [] OTHER -> "pending"
Claimed == tx' = IF ClaimAnswer = "ready" THEN [tx EXCEPT !.phase = "consumed"] ELSE tx

-----------------------------------------------------------------------------
(* The agent. *)

Idle == step' = "idle"
Cleared == file' = NoFile

\* account-login, account-link; an attempt that is in the file keeps others out.
Login ==
  /\ step = "idle" /\ disk = "old" /\ file.phase = None /\ tx.phase = None
  /\ file' = [NoFile EXCEPT !.phase = "starting"] /\ step' = "begin"
  /\ UNCHANGED <<server, rooms, callback, published, disk, selected, faults>>

\* BeginLogin
Begin ==
  /\ step = "begin" /\ Idle
  /\ \/ /\ MayStart /\ Started
        /\ \/ /\ file' = [file EXCEPT !.phase = "waiting", !.attempt = TRUE]
              /\ published' = TRUE /\ UNCHANGED faults
           \/ Fault /\ UNCHANGED <<file, published>>    \* the answer is lost, or not saved
     \/ Fault /\ Cleared /\ UNCHANGED <<tx, published>>    \* refused for good
     \/ Fault /\ UNCHANGED <<tx, file, published>>
  /\ UNCHANGED <<revision, expired, identities, registered, device, rooms, callback, disk,
                 selected>>

\* account-poll
Poll ==
  /\ step = "idle" /\ file.phase # None
  /\ step' = IF file.attempt THEN "claim" ELSE "begin"
  /\ UNCHANGED <<server, rooms, callback, file, published, disk, selected, faults>>

\* ClaimLogin and, after an error, Reauthenticate with the attempt's key.
Claim ==
  /\ step = "claim"
  /\ \/ /\ ClaimAnswer \in {"ready", "pending", "failed"}
        /\ step' = IF ClaimAnswer = "ready" THEN "claimed" ELSE "idle"
        /\ IF ClaimAnswer = "failed" THEN Cleared ELSE UNCHANGED file
        /\ UNCHANGED faults
     \/ /\ ClaimAnswer \in {"auth_login_expired", "auth_login_unusable"}
        /\ step' = "terminal" /\ UNCHANGED <<file, faults>>
     \/ Fault /\ step' = "lost" /\ UNCHANGED file
  /\ Claimed
  /\ UNCHANGED <<revision, expired, identities, registered, device, rooms, callback, published,
                 disk, selected>>
GivesUpUnexpired == ~expired /\ step = "terminal"
\* The attempt is forgotten when it has expired or its answer was final.
GivesUp == expired \/ step = "terminal"

Recover ==
  /\ step \in {"lost", "terminal"}
  /\ \/ /\ device # None       \* the key is authorized
        /\ step' = IF Link /\ device \notin registered THEN "idle" ELSE "claimed"
        /\ UNCHANGED <<file, faults>>
     \/ /\ IF device = None THEN UNCHANGED faults ELSE Fault
        /\ Idle /\ IF GivesUp THEN Cleared ELSE UNCHANGED file
  /\ UNCHANGED <<server, rooms, callback, published, disk, selected>>

\* The room that the agent remembers is left first, under an operation of its own that is
\* in the file before it is sent.  Its deadline is set once, an hour ahead.
LeavesOnce == ~Link /\ selected # None /\ ~file.leave
Leaves == ~Link /\ selected # None
Prepare ==
  /\ step = "claimed"
  /\ IF Leaves
       THEN file' = [file EXCEPT !.phase = "leaving_old_room", !.leave = TRUE] /\ step' = "leave"
       ELSE file' = [file EXCEPT !.phase = "saving_identity"] /\ step' = "persist"
  /\ UNCHANGED <<server, rooms, callback, published, disk, selected, faults>>

\* The clock passes LeaveDeadline: after an hour, or at once when it is set back.
Late ==
  /\ file.leave /\ ~file.late /\ file' = [file EXCEPT !.late = TRUE]
  /\ UNCHANGED <<server, rooms, callback, published, disk, selected, step, faults>>

\* What POST /leave comes to under that operation: authority is checked first, then the
\* deadline, then the receipt, which is of one room.
LeaveAnswer ==
  CASE revoked /\ disk = "old" -> "auth_device_revoked"
    [] ~(revoked /\ disk = "old") /\ file.late -> "operation_expired"
    [] ~(revoked /\ disk = "old") /\ ~file.late /\ left[disk] \notin {None, selected} ->
         "request_idempotency_conflict"
    [] OTHER -> "ok"
LeaveServed ==
  IF LeaveAnswer = "ok" /\ left[disk] = None
    THEN /\ left' = [left EXCEPT ![disk] = selected]
         /\ member' = [member EXCEPT ![disk] = IF @ = selected THEN None ELSE @]
    ELSE UNCHANGED <<left, member>>
Leave ==
  /\ step = "leave"
  /\ \/ /\ LeaveServed
        /\ IF LeaveAnswer \in {"ok", "auth_device_revoked"}
             THEN file' = [file EXCEPT !.phase = "saving_identity"] /\ step' = "persist"
             ELSE Idle /\ UNCHANGED file
        /\ UNCHANGED faults
     \/ Fault /\ (LeaveServed \/ UNCHANGED <<left, member>>) /\ Idle /\ UNCHANGED file
  /\ UNCHANGED <<server, revoked, callback, published, disk, selected>>
Persist ==
  /\ step = "persist"
  /\ \/ /\ disk' = "new" /\ selected' = IF Link THEN selected ELSE None
        /\ step' = "clear" /\ UNCHANGED faults
     \/ Fault /\ Idle /\ UNCHANGED <<disk, selected>>
  /\ UNCHANGED <<server, rooms, callback, file, published>>
Clear ==
  /\ step = "clear" /\ Idle /\ Cleared
  /\ UNCHANGED <<server, rooms, callback, published, disk, selected, faults>>

\* account-cancel only forgets.
Cancel ==
  /\ step = "idle" /\ file.phase # None /\ Cleared
  /\ UNCHANGED <<server, rooms, callback, published, disk, selected, step, faults>>
Crash ==
  /\ step # "idle" /\ Fault /\ Idle
  /\ UNCHANGED <<server, rooms, callback, file, published, disk, selected>>

-----------------------------------------------------------------------------
(* Rooms, between the polls of a login; a link leaves them alone. *)

\* Action joins, a login in the file or not; the answer may be lost on the way.
Join(r) ==
  /\ ~Link /\ step = "idle" /\ member[disk] = None /\ ~(revoked /\ disk = "old")
  /\ member' = [member EXCEPT ![disk] = r]
  /\ \/ selected' = r /\ UNCHANGED faults
     \/ Fault /\ UNCHANGED selected
  /\ UNCHANGED <<server, left, revoked, callback, file, published, disk, step>>

\* The device is kicked, its room ends, it leaves and the answer is lost.
Removed(i) ==
  /\ member[i] # None /\ member' = [member EXCEPT ![i] = None]
  /\ UNCHANGED <<server, left, revoked, callback, agent, faults>>
Revoke ==
  /\ ~Link /\ ~revoked /\ revoked' = TRUE /\ member' = [member EXCEPT !["old"] = None]
  /\ UNCHANGED <<server, left, callback, agent, faults>>

\* A heartbeat that finds the membership ended, or the answer to a further action, makes
\* the agent remember the room that it is in.
Notice ==
  /\ step = "idle" /\ selected # member[disk] /\ selected' \in {member[disk], None} \ {selected}
  /\ UNCHANGED <<server, rooms, callback, file, published, disk, step, faults>>

Agent == Begin \/ Poll \/ Claim \/ Recover \/ Prepare \/ Leave \/ Persist \/ Clear
Next ==
  \/ Expires \/ SettingsChange
  \/ \E b \in Browser : Authorize(b) \/ Callback(b) \/ Confirm(b)
  \/ \E s \in Subject : Exchange(s)
  \/ ExchangeFails
  \/ Login \/ Cancel \/ Crash \/ Late
  \/ \E r \in Room : Join(r)
  \/ \E i \in Identity : Removed(i)
  \/ Revoke \/ Notice
  \/ Agent

Spec == Init /\ [][Next]_vars

\* The desktop polls as long as a login is in the file; time passes.
Fairness == WF_vars(Agent) /\ WF_vars(Expires)
FairSpec == Spec /\ Fairness

-----------------------------------------------------------------------------

\* The agent switches identity only when the new key is authorized, and a login does so
\* only when the room that the agent remembers has been left under the login's own
\* operation, wherever it crashed and whatever was lost, unless the old device is out of
\* every room because its access is revoked.
SwitchIsSound ==
  /\ disk = "new" => device # None
  /\ step = "persist" /\ ~Link =>
       selected = None \/ left[disk] = selected \/ (disk = "old" /\ revoked)
Inv == TypeOK /\ SwitchIsSound

\* What this rests on: an attempt that has succeeded has a device, whose key the agent has
\* found authorized before it switches.  Until the settings change, that is, when the
\* transaction no longer says so.
Switching == {"claimed", "leave", "persist", "clear"}
Attempt ==
  /\ tx.phase = "verified" => tx.subject \in Subject
  /\ tx.phase \in {"ready", "consumed"} => device # None
  /\ IF Link THEN device = "guest"
     ELSE device # None => tx.phase \in {"ready", "consumed", "auth_login_config_changed"}
  /\ step \in Switching => device # None
Supported == TypeOK /\ Attempt /\ SwitchIsSound

\* An identity never changes its account, a device never its user, and no account goes
\* back to being a guest: linking does not merge accounts.
BoundStep ==
  /\ \A s \in Subject : identities[s] # None => identities'[s] = identities[s]
  /\ device # None => device' = device
  /\ registered \subseteq registered'
AccountsKept == [][BoundStep]_vars

\* The leave of a login is refused for as long as the agent remembers this room: its
\* deadline is past and nothing renews it, or it is recorded for a room left before.
LeaveStuck ==
  /\ file.leave /\ ~Link /\ selected # None
  /\ LeaveAnswer \in {"operation_expired", "request_idempotency_conflict"}

\* A login does not stay in the file for ever, but for one that cannot leave its room:
\* every further one is refused as local_busy as long as it does.  For a link this does
\* not hold: once the attempt has expired, the guest's key still authenticates, and the
\* poll returns before it clears the file.
LoginEnds == (file.phase # None) ~> (file.phase = None \/ LeaveStuck)
=============================================================================
