---------------------------- MODULE Idempotency ----------------------------
(***************************************************************************)
(* Idempotent writes: what mutateChecked and the table `idempotency` make  *)
(* of a command that a client sends as often as it likes.                  *)
(*                                                                         *)
(* The client fixes key, body and deadline and repeats the same bytes when *)
(* it hears nothing.  Any copy may reach the server, in any order, and any *)
(* answer may be lost.  The server keeps a receipt of the first definite   *)
(* outcome until the deadline, and Sweep deletes receipts whose deadline   *)
(* is past.  As everywhere in the store, a transaction's now() is the time *)
(* it began, up to MaxWait before it got the write lock.                   *)
(*                                                                         *)
(* Failures that are not recorded (lost authority, 5xx, a rolled back      *)
(* transaction) change nothing and are left out, as is what a command does.*)
(***************************************************************************)
EXTENDS Integers, FiniteSets

CONSTANTS
  Command,     \* requests that differ in subject, path, body or deadline
  Key,         \* a subject's Idempotency-Keys
  KeyOf,       \* the key of each command; a careless client may use one twice
  Lead,        \* by how much the clock of the client of a command is ahead
  Window,      \* the hour that a deadline may lie ahead
  MaxWait,     \* longest wait for the write lock after BEGIN
  Tolerance,   \* the clock difference the documentation allows, 30 seconds
  MaxRuns,     \* bound on executions of one command, for model checking
  MaxClock,    \* bound on time, for model checking
  NoCommand    \* the request_hash of a receipt that does not exist

Unsent == -1

ASSUME CommandAssumption ==
  /\ KeyOf \in [Command -> Key] /\ Lead \in [Command -> Int]
  /\ NoCommand \notin Command
  /\ Window \in Nat /\ MaxWait \in Nat /\ Tolerance \in Nat
  /\ MaxRuns \in Nat /\ MaxClock \in Nat
  /\ \A c \in Command : Window + Lead[c] >= 0

VARIABLES
  clock,     \* the database's clock
  deadline,  \* X-NodeLane-Operation-Deadline of each command sent, or Unsent
  receipts,  \* table idempotency: the row of each key, or NoReceipt
  applied,   \* how often each command took effect
  told       \* the answers that reached the client of each command

vars == <<clock, deadline, receipts, applied, told>>

\* What a copy of a request is answered with, and what a question about its key is.
Answer == {"ok", "refused", "redacted", "conflict", "expired", "out_of_range"}
            \cup {"succeeded", "rejected", "not_found", "expired"}
Receipt == [command : Command, status : {"ok", "refused"}, expires : Nat]
NoReceipt == [command |-> NoCommand, status |-> "refused", expires |-> Unsent]

TypeOK ==
  /\ clock \in Nat
  /\ deadline \in [Command -> Nat \cup {Unsent}]
  /\ receipts \in [Key -> Receipt \cup {NoReceipt}]
  /\ applied \in [Command -> Nat]
  /\ told \in [Command -> SUBSET Answer]

Init ==
  /\ clock = 0
  /\ deadline = [c \in Command |-> Unsent]
  /\ receipts = [k \in Key |-> NoReceipt]
  /\ applied = [c \in Command |-> 0]
  /\ told = [c \in Command |-> {}]

-----------------------------------------------------------------------------

Sent(c) == deadline[c] # Unsent

\* WithOperation fixes key and deadline of every request made in its context, which is
\* one if CallResult is the one to call it.  The deadline is an hour ahead on the client's
\* clock.
Send(S) ==
  /\ \A c \in S : ~Sent(c)
  /\ deadline' = [c \in Command |-> IF c \in S THEN clock + Lead[c] + Window ELSE deadline[c]]
  /\ UNCHANGED <<clock, receipts, applied, told>>

\* The values of now() when a copy of c is processed: no earlier than it was sent.
SentAt(c) == deadline[c] - Lead[c] - Window
TxTime(c) == {t \in SentAt(c)..clock : clock - t <= MaxWait}

\* The answer reaches the client, or is lost on the way.
Reply(c, answer) == told' \in {told, [told EXCEPT ![c] = @ \cup {answer}]}

\* The checks of mutateChecked on the deadline, and the receipt that it finds.
OutOfRange(c, t) == deadline[c] > t + Window
Expired(c, t) == deadline[c] <= t
AnyReceipt(c, t) == receipts[KeyOf[c]] # NoReceipt
OwnReceipt(c, t) == receipts[KeyOf[c]].command = c /\ receipts[KeyOf[c]].expires > t
LiveReceipt(c, t) == receipts[KeyOf[c]] # NoReceipt /\ receipts[KeyOf[c]].expires > t

\* A copy that is answered without being executed.
Refuse(c, t) ==
  /\ Sent(c)
  /\ \/ OutOfRange(c, t) /\ Reply(c, "out_of_range")
     \/ ~OutOfRange(c, t) /\ Expired(c, t) /\ Reply(c, "expired")
  /\ UNCHANGED <<clock, deadline, receipts, applied>>

\* visibleReceipt: the recorded outcome of this very request, stripped of its content
\* if the caller has lost the right to it; or a conflict.
Shown(c) ==
  LET row == receipts[KeyOf[c]]
  IN IF row.command # c THEN {"conflict"}
     ELSE IF row.status = "refused" THEN {"refused"} ELSE {"ok", "redacted"}

Replay(c, t) ==
  /\ Sent(c) /\ ~OutOfRange(c, t) /\ ~Expired(c, t)
  /\ LiveReceipt(c, t)
  /\ \E answer \in Shown(c) : Reply(c, answer)
  /\ UNCHANGED <<clock, deadline, receipts, applied>>

\* The receipt that is stored with the outcome.
Recorded(c, t, status) ==
  [receipts EXCEPT ![KeyOf[c]] = [command |-> c, status |-> status, expires |-> deadline[c]]]

\* The first copy: the handler runs; a definite refusal is rolled back to the savepoint
\* and recorded like a success.
Execute(c, t, status) ==
  /\ Sent(c) /\ ~OutOfRange(c, t) /\ ~Expired(c, t)
  /\ ~LiveReceipt(c, t)
  /\ applied[c] < MaxRuns
  /\ receipts' = Recorded(c, t, status)
  /\ applied' = [applied EXCEPT ![c] = IF status = "ok" THEN @ + 1 ELSE @]
  /\ Reply(c, status)
  /\ UNCHANGED <<clock, deadline>>

\* The state of the operation whose receipt a key has, whichever request it is of.
State(k) == IF receipts[k].status = "ok" THEN "succeeded" ELSE "rejected"

\* operationReceipt, GET /v2/me/operations/{id}: a read, which waits for nobody.  It has
\* the key and no request to compare, so it tells of the request that was recorded.
Query(c) ==
  /\ Sent(c)
  /\ \/ ~AnyReceipt(c, clock) /\ Reply(c, "not_found")
     \/ AnyReceipt(c, clock) /\ ~LiveReceipt(c, clock) /\ Reply(c, "expired")
     \/ LiveReceipt(c, clock) /\ Reply(c, State(KeyOf[c]))
  /\ UNCHANGED <<clock, deadline, receipts, applied>>

\* DELETE FROM idempotency WHERE expires_at < now()
SweptEarly(k, t) == receipts[k].expires <= t + 1
Swept(k, t) == receipts[k].expires < t
Sweep(t) ==
  /\ receipts' = [k \in Key |-> IF Swept(k, t) THEN NoReceipt ELSE receipts[k]]
  /\ UNCHANGED <<clock, deadline, applied, told>>

Tick ==
  /\ clock < MaxClock
  /\ clock' = clock + 1
  /\ UNCHANGED <<deadline, receipts, applied, told>>

Serve(c) ==
  \/ Query(c)
  \/ \E t \in TxTime(c) :
       \/ Refuse(c, t) \/ Replay(c, t)
       \/ \E status \in {"ok", "refused"} : Execute(c, t, status)

Next ==
  \/ \E S \in SUBSET Command : Send(S)
  \/ \E c \in Command : Serve(c)
  \/ \E t \in 0..clock : clock - t <= MaxWait /\ Sweep(t)
  \/ Tick

Spec == Init /\ [][Next]_vars

-----------------------------------------------------------------------------

\* Until its deadline a command takes effect at most once, however many copies of it
\* arrive and however long each of them waited for the lock.
OnceInTime == \A c \in Command : Sent(c) /\ clock < deadline[c] => applied[c] <= 1

\* Two requests that share a key do not both take effect before either's deadline:
\* the second one is a conflict.
OneMeaningPerKey ==
  \A c, e \in Command : c # e /\ KeyOf[c] = KeyOf[e] =>
    ~(clock < deadline[c] /\ clock < deadline[e] /\ applied[c] > 0 /\ applied[e] > 0)

\* No other request was sent under the key of this one.
Alone(c) == \A e \in Command : e # c /\ KeyOf[e] = KeyOf[c] => ~Sent(e)

\* The client takes its command for done, or for refused.  A question about a key says
\* so only of a request that has the key to itself.
ToldDone(c) == told[c] \cap {"ok", "redacted"} # {} \/ ("succeeded" \in told[c] /\ Alone(c))
ToldRefused(c) == "refused" \in told[c] \/ ("rejected" \in told[c] /\ Alone(c))

\* What a client was told is so: a command that it was told is done has taken effect,
\* and one that it was told is refused has not, nor will it by another copy before the
\* deadline.
AnswersHold ==
  \A c \in Command :
    /\ ToldDone(c) => applied[c] > 0
    /\ ToldRefused(c) /\ clock < deadline[c] => applied[c] = 0

\* Every outcome that somebody may still ask about is in the table.
ReceiptsKept ==
  \A c \in Command :
    Sent(c) /\ clock < deadline[c] /\ (applied[c] > 0 \/ ToldRefused(c)) =>
      receipts[KeyOf[c]] = [command |-> c, expires |-> deadline[c],
                            status |-> IF applied[c] > 0 THEN "ok" ELSE "refused"]

\* A receipt is that of a command sent under its key, with its deadline, and "ok" is
\* recorded only for a command that took effect.
ReceiptsTrue ==
  \A k \in Key : receipts[k] # NoReceipt =>
    LET c == receipts[k].command
    IN /\ Sent(c) /\ KeyOf[c] = k /\ receipts[k].expires = deadline[c]
       /\ receipts[k].status = "ok" => applied[c] > 0

\* Nothing happens for a command that was not sent.
UnsentUntouched == \A c \in Command : ~Sent(c) => applied[c] = 0 /\ told[c] = {}

\* The inductive invariant: a second execution is prevented only by the receipt of
\* the first, so it has to be known that the receipt is still there and whose it is.
Inv ==
  /\ TypeOK
  /\ UnsentUntouched
  /\ ReceiptsTrue
  /\ ReceiptsKept
  /\ OnceInTime
  /\ AnswersHold

\* A clock that is off by no more than 30 seconds is tolerated, as it is by the
\* agent's own check on snapshots (docs/architecture.md:93).
TolerableClockServed ==
  \A c \in Command : Lead[c] <= Tolerance => "out_of_range" \notin told[c]
=============================================================================
