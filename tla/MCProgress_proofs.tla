------------------------- MODULE MCProgress_proofs -------------------------
(***************************************************************************)
(* Proofs about module MCProgress: what its components promise on small    *)
(* instances they promise for every set of requests, rooms, browsers,      *)
(* subjects and users and every bound on faults, revisions and versions.   *)
(*                                                                         *)
(* The idempotent writes come first, and by themselves.  Each of the other *)
(* four has an inductive invariant, Supported, stated in its own module    *)
(* beside the properties; here every action is shown to keep it.  In the   *)
(* network it ties every lease, the engine's and the one a step holds, to  *)
(* a membership in the remembered room that the watch has not seen end,    *)
(* and a pause to an engine that is off.  In the login it says which phase *)
(* of the transaction each step of the attempt has seen.  In the update    *)
(* job it says what is still to come of a release that was asked for.  In  *)
(* the setup it says what each place of an operation has already done,     *)
(* that BUILD.txt is never older than another file, and whose the recorded *)
(* adapter is.                                                             *)
(*                                                                         *)
(* A step of the composition is a step of one component (OneComponent), so *)
(* the four are invariants of it together; fairness plays no part.         *)
(***************************************************************************)
EXTENDS MCProgress, SequenceTheorems, TLAPS

-----------------------------------------------------------------------------
(* Idempotent writes.  They are those of the EXTENDS, and the theorems are    *)
(* about their own specification.                                             *)

\* Nothing has been sent at the start.
LEMMA WritesInit == Init => Inv
<1> SUFFICES ASSUME Init PROVE Inv OBVIOUS
<1> USE CommandAssumption DEF Init
<1>1. TypeOK BY DEF TypeOK
<1>2. UnsentUntouched BY DEF UnsentUntouched
<1>3. ReceiptsTrue BY DEF ReceiptsTrue
<1>4. ReceiptsKept BY DEF ReceiptsKept, Sent, ToldRefused
<1>5. OnceInTime BY DEF OnceInTime, Sent
<1>6. AnswersHold BY DEF AnswersHold, ToldDone, ToldRefused
<1> QED BY <1>1, <1>2, <1>3, <1>4, <1>5, <1>6 DEF Inv

\* Sending fixes a deadline and changes nothing of what was recorded or told.
LEMMA WritesSend == ASSUME Inv, NEW S \in SUBSET Command, Send(S) PROVE Inv'
<1> USE CommandAssumption DEF Inv, Send, Sent
<1>1. \A c \in Command : clock + Lead[c] + Window \in Nat
  <2>1. ASSUME NEW c \in Command PROVE Lead[c] \in Int /\ Window \in Nat /\ Window + Lead[c] >= 0
    OBVIOUS
  <2>2. clock \in Nat BY DEF TypeOK
  <2> QED BY <2>1, <2>2
<1>2. TypeOK' BY <1>1 DEF TypeOK
<1>3. \A c \in S : c \in Command /\ applied[c] = 0 /\ told[c] = {} BY DEF UnsentUntouched
<1>4. /\ \A c \in S : deadline'[c] # Unsent
      /\ \A e \in Command \ S : deadline'[e] = deadline[e]
  BY <1>1 DEF Unsent
<1>5. UnsentUntouched' BY <1>4 DEF UnsentUntouched
<1>6. ReceiptsTrue'
  <2> SUFFICES ASSUME NEW k \in Key, receipts[k] # NoReceipt
               PROVE LET e == receipts[k].command
                     IN /\ deadline'[e] # Unsent /\ KeyOf[e] = k
                        /\ receipts[k].expires = deadline'[e]
                        /\ receipts[k].status = "ok" => applied[e] > 0
      BY DEF ReceiptsTrue
  <2>1. receipts[k].command \in Command BY DEF TypeOK, Receipt
  <2>2. receipts[k].command \notin S BY DEF ReceiptsTrue
  <2> QED BY <1>4, <2>1, <2>2 DEF ReceiptsTrue
<1>10. \A e \in Command : Alone(e)' => Alone(e) BY <1>3, <1>4 DEF Alone
<1>11. /\ \A e \in Command : ToldDone(e)' => ToldDone(e)
       /\ \A e \in Command : ToldRefused(e)' => ToldRefused(e)
  BY <1>10 DEF ToldDone, ToldRefused
<1>12. \A e \in S : ~ToldRefused(e)' BY <1>3 DEF ToldRefused
<1>7. ReceiptsKept' BY <1>3, <1>4, <1>11, <1>12 DEF ReceiptsKept
<1>8. OnceInTime' BY <1>3, <1>4 DEF OnceInTime
<1>9. AnswersHold' BY <1>3, <1>4, <1>11, <1>12 DEF AnswersHold
<1> QED BY <1>2, <1>5, <1>6, <1>7, <1>8, <1>9

\* The answer of a step goes to one command and adds one element.
LEMMA WritesReply ==
  ASSUME TypeOK, NEW c \in Command, NEW answer \in Answer, Reply(c, answer)
  PROVE  /\ told' \in [Command -> SUBSET Answer]
         /\ \A e \in Command : e # c => told'[e] = told[e]
         /\ told'[c] \subseteq told[c] \cup {answer}
BY DEF TypeOK, Reply

\* An answer about c that matches what has happened to it keeps the invariant.
LEMMA WritesAnswer ==
  ASSUME Inv, NEW c \in Command, NEW answer \in Answer, Sent(c), Reply(c, answer),
         UNCHANGED <<clock, deadline, receipts, applied>>,
         answer \in {"ok", "redacted"} \/ (answer = "succeeded" /\ Alone(c)) => applied[c] > 0,
         (answer = "refused" \/ (answer = "rejected" /\ Alone(c))) /\ clock < deadline[c] =>
           receipts[KeyOf[c]] = [command |-> c, expires |-> deadline[c], status |-> "refused"]
             /\ applied[c] = 0
  PROVE  Inv'
<1> USE CommandAssumption DEF Inv, Sent
<1>1. /\ told' \in [Command -> SUBSET Answer]
      /\ \A e \in Command : e # c => told'[e] = told[e]
      /\ told'[c] \subseteq told[c] \cup {answer}
  BY WritesReply
<1>2. TypeOK' BY <1>1 DEF TypeOK
<1>3. UnsentUntouched' BY <1>1 DEF UnsentUntouched
<1>4. ReceiptsTrue' BY DEF ReceiptsTrue
<1>5. \A e \in Command : Alone(e)' <=> Alone(e) BY DEF Alone
<1>6. \A e \in Command : e # c =>
        /\ ToldDone(e)' => ToldDone(e)
        /\ ToldRefused(e)' => ToldRefused(e)
  BY <1>1, <1>5 DEF ToldDone, ToldRefused
<1>7. /\ ToldDone(c)' => \/ ToldDone(c)
                          \/ answer \in {"ok", "redacted"} \/ (answer = "succeeded" /\ Alone(c))
      /\ ToldRefused(c)' => \/ ToldRefused(c)
                             \/ answer = "refused" \/ (answer = "rejected" /\ Alone(c))
  BY <1>1, <1>5 DEF ToldDone, ToldRefused
<1>8. ReceiptsKept'
  <2> SUFFICES ASSUME NEW e \in Command, deadline[e] # Unsent, clock < deadline[e],
                      applied[e] > 0 \/ ToldRefused(e)'
               PROVE receipts[KeyOf[e]] = [command |-> e, expires |-> deadline[e],
                        status |-> IF applied[e] > 0 THEN "ok" ELSE "refused"]
      BY DEF ReceiptsKept
  <2>1. CASE applied[e] > 0 \/ ToldRefused(e) BY <2>1 DEF ReceiptsKept
  <2>2. CASE ~(applied[e] > 0) /\ ~ToldRefused(e)
    <3>1. e = c /\ (answer = "refused" \/ (answer = "rejected" /\ Alone(c))) BY <1>6, <1>7, <2>2
    <3> QED BY <3>1, <2>2
  <2> QED BY <2>1, <2>2
<1>9. OnceInTime' BY DEF OnceInTime
<1>10. AnswersHold'
  <2> SUFFICES ASSUME NEW e \in Command
               PROVE /\ ToldDone(e)' => applied[e] > 0
                     /\ ToldRefused(e)' /\ clock < deadline[e] => applied[e] = 0
      BY DEF AnswersHold
  <2>1. /\ ToldDone(e) => applied[e] > 0
        /\ ToldRefused(e) /\ clock < deadline[e] => applied[e] = 0
    BY DEF AnswersHold
  <2> QED BY <1>6, <1>7, <2>1
<1> QED BY <1>2, <1>3, <1>4, <1>8, <1>9, <1>10

\* What is shown of a live receipt is so.
LEMMA WritesShown ==
  ASSUME Inv, NEW c \in Command, Sent(c), NEW answer \in Shown(c),
         receipts[KeyOf[c]] # NoReceipt
  PROVE  /\ answer \in Answer
         /\ answer \notin {"succeeded", "rejected"}
         /\ answer \in {"ok", "redacted"} => applied[c] > 0
         /\ answer = "refused" /\ clock < deadline[c] =>
              receipts[KeyOf[c]] = [command |-> c, expires |-> deadline[c], status |-> "refused"]
                /\ applied[c] = 0
<1> USE CommandAssumption DEF Inv, Sent
<1> DEFINE row == receipts[KeyOf[c]]
<1>1. KeyOf[c] \in Key OBVIOUS
<1>2. row \in Receipt BY <1>1 DEF TypeOK
<1>3. answer \in Answer /\ answer \notin {"succeeded", "rejected"} BY DEF Shown, Answer
<1>4. row.status = "ok" => applied[row.command] > 0 BY <1>1 DEF ReceiptsTrue
<1>5. ASSUME answer \in {"ok", "redacted"} PROVE applied[c] > 0
  BY <1>2, <1>4, <1>5 DEF Shown, Receipt
<1>6. ASSUME answer = "refused", clock < deadline[c]
      PROVE row = [command |-> c, expires |-> deadline[c], status |-> "refused"]
              /\ applied[c] = 0
  <2>1. row.command = c /\ row.status = "refused" BY <1>6 DEF Shown
  <2>2. row.expires = deadline[c] BY <1>1, <2>1 DEF ReceiptsTrue
  <2>3. ASSUME applied[c] > 0 PROVE FALSE
    <3>1. row = [command |-> c, expires |-> deadline[c], status |-> "ok"]
      BY <1>6, <2>3 DEF ReceiptsKept
    <3> QED BY <2>1, <3>1
  <2>4. applied[c] = 0 BY <2>3 DEF TypeOK
  <2> QED BY <1>2, <2>1, <2>2, <2>4 DEF Receipt
<1> QED BY <1>3, <1>5, <1>6

\* Copies that are turned away or answered from the table change only what was told.
LEMMA WritesRefuse == ASSUME Inv, NEW c \in Command, NEW t \in TxTime(c), Refuse(c, t) PROVE Inv'
<1>1. CASE Reply(c, "out_of_range") BY <1>1, WritesAnswer DEF Refuse, Answer
<1>2. CASE Reply(c, "expired") BY <1>2, WritesAnswer DEF Refuse, Answer
<1> QED BY <1>1, <1>2 DEF Refuse

\* A repetition is answered with what was recorded.
LEMMA WritesReplay == ASSUME Inv, NEW c \in Command, NEW t \in TxTime(c), Replay(c, t) PROVE Inv'
<1>1. PICK answer \in Shown(c) : Reply(c, answer) BY DEF Replay
<1>2. receipts[KeyOf[c]] # NoReceipt /\ Sent(c) BY DEF Replay, LiveReceipt
<1> QED BY <1>1, <1>2, WritesShown, WritesAnswer DEF Replay

\* A question about a key that one request has to itself is answered with what became
\* of that request.
LEMMA WritesState ==
  ASSUME Inv, NEW c \in Command, Sent(c), Alone(c), receipts[KeyOf[c]] # NoReceipt
  PROVE  /\ State(KeyOf[c]) = "succeeded" => applied[c] > 0
         /\ State(KeyOf[c]) = "rejected" /\ clock < deadline[c] =>
              receipts[KeyOf[c]] = [command |-> c, expires |-> deadline[c], status |-> "refused"]
                /\ applied[c] = 0
<1> USE CommandAssumption DEF Inv, Sent
<1> DEFINE row == receipts[KeyOf[c]]
<1>1. KeyOf[c] \in Key OBVIOUS
<1>2. row \in Receipt BY <1>1 DEF TypeOK
<1>3. row.command \in Command BY <1>2 DEF Receipt
<1>4. Sent(row.command) /\ KeyOf[row.command] = KeyOf[c] /\ row.expires = deadline[row.command]
  BY <1>1 DEF ReceiptsTrue
<1>5. row.command = c BY <1>3, <1>4 DEF Alone
<1>6. row.status = "ok" => applied[c] > 0 BY <1>1, <1>5 DEF ReceiptsTrue
<1>7. row.status \in {"ok", "refused"} BY <1>2 DEF Receipt
<1>8. ASSUME row.status = "refused", clock < deadline[c]
      PROVE row = [command |-> c, expires |-> deadline[c], status |-> "refused"]
              /\ applied[c] = 0
  <2>1. ASSUME applied[c] > 0 PROVE FALSE
    <3>1. row = [command |-> c, expires |-> deadline[c], status |-> "ok"]
      BY <1>8, <2>1 DEF ReceiptsKept
    <3> QED BY <1>8, <3>1
  <2>2. applied[c] = 0 BY <2>1 DEF TypeOK
  <2> QED BY <1>2, <1>4, <1>5, <1>8, <2>2 DEF Receipt
<1> QED BY <1>6, <1>7, <1>8 DEF State

\* A question about a key is answered with its receipt, or with what binds nobody.
LEMMA WritesQuery == ASSUME Inv, NEW c \in Command, Query(c) PROVE Inv'
<1>1. CASE Reply(c, "not_found") BY <1>1, WritesAnswer DEF Query, Answer
<1>2. CASE Reply(c, "expired") BY <1>2, WritesAnswer DEF Query, Answer
<1>3. CASE LiveReceipt(c, clock) /\ Reply(c, State(KeyOf[c]))
  <2>1. State(KeyOf[c]) \in {"succeeded", "rejected"} BY DEF State
  <2>2. receipts[KeyOf[c]] # NoReceipt /\ Sent(c) BY <1>3 DEF Query, LiveReceipt
  <2>3. UNCHANGED <<clock, deadline, receipts, applied>> BY DEF Query
  <2> HIDE DEF State
  <2> QED BY <1>3, <2>1, <2>2, <2>3, WritesState, WritesAnswer DEF Answer
<1> QED BY <1>1, <1>2, <1>3 DEF Query

\* The heart of it: while the deadline is ahead, a command without a live receipt has
\* not been executed, so executing and recording it is the first time.
LEMMA WritesExecute ==
  ASSUME Inv, NEW c \in Command, NEW t \in TxTime(c), NEW status \in {"ok", "refused"},
         Execute(c, t, status)
  PROVE  Inv'
<1> USE CommandAssumption DEF Inv, Sent
<1> DEFINE new == [command |-> c, status |-> status, expires |-> deadline[c]]
<1>1. t \in Int /\ t <= clock /\ clock \in Nat BY DEF TxTime, TypeOK
<1>2. KeyOf[c] \in Key OBVIOUS
<1>3. deadline[c] \in Nat /\ deadline[c] # Unsent BY DEF TypeOK, Execute
<1>4. new \in Receipt BY <1>3 DEF Receipt
<1>5. new # NoReceipt BY DEF NoReceipt
<1>6. /\ receipts'[KeyOf[c]] = new
      /\ \A k \in Key : k # KeyOf[c] => receipts'[k] = receipts[k]
      /\ receipts' \in [Key -> Receipt \cup {NoReceipt}]
  BY <1>2, <1>4 DEF Execute, Recorded, TypeOK
<1>7. /\ applied' \in [Command -> Nat]
      /\ \A e \in Command : e # c => applied'[e] = applied[e]
      /\ applied'[c] = IF status = "ok" THEN applied[c] + 1 ELSE applied[c]
  BY DEF Execute, TypeOK
<1>8. /\ told' \in [Command -> SUBSET Answer]
      /\ \A e \in Command : e # c => told'[e] = told[e]
      /\ told'[c] \subseteq told[c] \cup {status}
  BY WritesReply DEF Execute, Answer
<1>9. UNCHANGED <<clock, deadline>> BY DEF Execute
<1>17. \A e \in Command : e # c =>
         /\ ToldDone(e)' => ToldDone(e)
         /\ ToldRefused(e)' => ToldRefused(e)
  BY <1>8, <1>9 DEF ToldDone, ToldRefused, Alone
<1>18. /\ ToldDone(c)' => ToldDone(c) \/ status = "ok"
       /\ ToldRefused(c)' => ToldRefused(c) \/ status = "refused"
  BY <1>8, <1>9 DEF ToldDone, ToldRefused, Alone
<1>10. \A e \in Command : KeyOf[e] = KeyOf[c] /\ deadline[e] # Unsent /\ clock < deadline[e]
         => applied[e] = 0 /\ ~ToldRefused(e)
  <2> SUFFICES ASSUME NEW e \in Command, KeyOf[e] = KeyOf[c], deadline[e] # Unsent,
                      clock < deadline[e], applied[e] # 0 \/ ToldRefused(e)
               PROVE FALSE
      OBVIOUS
  <2>1. applied[e] > 0 \/ ToldRefused(e) BY DEF TypeOK
  <2>2. receipts[KeyOf[c]] = [command |-> e, expires |-> deadline[e],
                              status |-> IF applied[e] > 0 THEN "ok" ELSE "refused"]
    BY <2>1 DEF ReceiptsKept
  <2>3. receipts[KeyOf[c]] # NoReceipt /\ receipts[KeyOf[c]].expires = deadline[e]
    BY <2>2 DEF NoReceipt
  <2>4. deadline[e] > t BY <1>1 DEF TypeOK
  <2> QED BY <2>3, <2>4 DEF Execute, LiveReceipt
<1>11. TypeOK' BY <1>6, <1>7, <1>8, <1>9 DEF TypeOK
<1>12. UnsentUntouched' BY <1>3, <1>7, <1>8, <1>9 DEF UnsentUntouched
<1>13. ReceiptsTrue'
  <2> SUFFICES ASSUME NEW k \in Key, receipts'[k] # NoReceipt
               PROVE LET e == receipts'[k].command
                     IN /\ deadline[e] # Unsent /\ KeyOf[e] = k
                        /\ receipts'[k].expires = deadline[e]
                        /\ receipts'[k].status = "ok" => applied'[e] > 0
      BY <1>9 DEF ReceiptsTrue
  <2>1. CASE k = KeyOf[c]
    <3>1. status = "ok" => applied'[c] > 0 BY <1>7 DEF TypeOK
    <3> QED BY <1>3, <1>6, <2>1, <3>1
  <2>2. CASE k # KeyOf[c]
    <3>1. receipts'[k] = receipts[k] BY <1>6, <2>2
    <3>2. receipts[k].command \in Command BY <3>1 DEF TypeOK, Receipt
    <3>3. receipts[k].command # c BY <2>2, <3>1 DEF ReceiptsTrue
    <3> QED BY <1>7, <3>1, <3>2, <3>3 DEF ReceiptsTrue
  <2> QED BY <2>1, <2>2
<1>14. ReceiptsKept'
  <2> SUFFICES ASSUME NEW e \in Command, deadline[e] # Unsent, clock < deadline[e],
                      applied'[e] > 0 \/ ToldRefused(e)'
               PROVE receipts'[KeyOf[e]] = [command |-> e, expires |-> deadline[e],
                        status |-> IF applied'[e] > 0 THEN "ok" ELSE "refused"]
      BY <1>9 DEF ReceiptsKept
  <2>1. CASE e = c
    <3>1. applied[c] = 0 BY <1>10, <2>1
    <3>2. status = IF applied'[c] > 0 THEN "ok" ELSE "refused" BY <1>7, <3>1
    <3> QED BY <1>6, <2>1, <3>2
  <2>2. CASE e # c
    <3>1. applied'[e] = applied[e] /\ (ToldRefused(e)' => ToldRefused(e)) BY <1>7, <1>17, <2>2
    <3>2. KeyOf[e] # KeyOf[c] BY <1>10, <3>1 DEF TypeOK
    <3> QED BY <1>6, <3>1, <3>2 DEF ReceiptsKept
  <2> QED BY <2>1, <2>2
<1>15. OnceInTime' BY <1>7, <1>9, <1>10 DEF OnceInTime, TypeOK
<1>16. AnswersHold'
  <2> SUFFICES ASSUME NEW e \in Command
               PROVE /\ ToldDone(e)' => applied'[e] > 0
                     /\ ToldRefused(e)' /\ clock < deadline[e] => applied'[e] = 0
      BY <1>9 DEF AnswersHold
  <2>1. CASE e # c BY <1>7, <1>17, <2>1 DEF AnswersHold
  <2>2. CASE e = c
    <3>1. ToldDone(c) => applied[c] > 0 BY DEF AnswersHold
    <3>2. applied[c] \in Nat BY DEF TypeOK
    <3>3. ToldDone(c)' => applied'[c] > 0 BY <1>7, <1>18, <3>1, <3>2
    <3>4. ASSUME ToldRefused(c)', clock < deadline[c] PROVE applied'[c] = 0
      <4>1. applied[c] = 0 /\ ~ToldRefused(c) BY <1>3, <1>10, <3>4
      <4>2. status = "refused" BY <1>18, <3>4, <4>1
      <4> QED BY <1>7, <4>1, <4>2
    <3> QED BY <2>2, <3>3, <3>4
  <2> QED BY <2>1, <2>2
<1> QED BY <1>11, <1>12, <1>13, <1>14, <1>15, <1>16

\* Sweep deletes only receipts whose deadline is past for everybody.
LEMMA WritesSweep == ASSUME Inv, NEW t \in 0..clock, Sweep(t) PROVE Inv'
<1> USE CommandAssumption DEF Inv, Sweep, Sent
<1>7. \A e \in Command : (ToldDone(e)' <=> ToldDone(e)) /\ (ToldRefused(e)' <=> ToldRefused(e))
  BY DEF ToldDone, ToldRefused, Alone
<1>1. TypeOK' BY DEF TypeOK
<1>2. UnsentUntouched' BY DEF UnsentUntouched
<1>3. ReceiptsTrue' BY DEF ReceiptsTrue
<1>4. ReceiptsKept'
  <2> SUFFICES ASSUME NEW e \in Command, deadline[e] # Unsent, clock < deadline[e],
                      applied[e] > 0 \/ ToldRefused(e)
               PROVE receipts'[KeyOf[e]] = receipts[KeyOf[e]]
      BY <1>7 DEF ReceiptsKept
  <2>1. receipts[KeyOf[e]].expires = deadline[e]
    <3>1. receipts[KeyOf[e]] = [command |-> e, expires |-> deadline[e],
                                status |-> IF applied[e] > 0 THEN "ok" ELSE "refused"]
      BY DEF ReceiptsKept
    <3> QED BY <3>1
  <2>2. deadline[e] \in Nat /\ clock \in Nat /\ t \in Int /\ t <= clock BY DEF TypeOK
  <2>3. ~Swept(KeyOf[e], t) BY <2>1, <2>2 DEF Swept
  <2> QED BY <2>3
<1>5. OnceInTime' BY DEF OnceInTime
<1>6. AnswersHold' BY <1>7 DEF AnswersHold
<1> QED BY <1>1, <1>2, <1>3, <1>4, <1>5, <1>6

\* Time only takes promises away.
LEMMA WritesTick == ASSUME Inv, Tick PROVE Inv'
<1> USE DEF Inv, Tick, Sent
<1>1. TypeOK' BY DEF TypeOK
<1>2. UnsentUntouched' BY DEF UnsentUntouched
<1>3. ReceiptsTrue' BY DEF ReceiptsTrue
<1>4. \A e \in Command : clock' < deadline[e] => clock < deadline[e]
  <2>1. \A e \in Command : deadline[e] \in Int BY DEF TypeOK, Unsent
  <2>2. clock \in Nat BY DEF TypeOK
  <2> QED BY <2>1, <2>2
<1>8. \A e \in Command : (ToldDone(e)' <=> ToldDone(e)) /\ (ToldRefused(e)' <=> ToldRefused(e))
  BY DEF ToldDone, ToldRefused, Alone
<1>5. ReceiptsKept' BY <1>4, <1>8 DEF ReceiptsKept
<1>6. OnceInTime' BY <1>4 DEF OnceInTime
<1>7. AnswersHold' BY <1>4, <1>8 DEF AnswersHold
<1> QED BY <1>1, <1>2, <1>3, <1>5, <1>6, <1>7

\* The invariant is inductive.
LEMMA WritesNext == Inv /\ [Next]_vars => Inv'
<1> SUFFICES ASSUME Inv, [Next]_vars PROVE Inv' OBVIOUS
<1>1. CASE UNCHANGED vars
  BY <1>1 DEF vars, Inv, TypeOK, UnsentUntouched, ReceiptsTrue, ReceiptsKept, OnceInTime,
              AnswersHold, ToldDone, ToldRefused, Alone, Sent
<1>2. ASSUME NEW c \in Command, Serve(c) PROVE Inv'
  BY <1>2, WritesQuery, WritesRefuse, WritesReplay, WritesExecute DEF Serve
<1>3. ASSUME NEW t \in 0..clock, Sweep(t) PROVE Inv' BY <1>3, WritesSweep
<1>4. CASE Tick BY <1>4, WritesTick
<1>5. ASSUME NEW S \in SUBSET Command, Send(S) PROVE Inv' BY <1>5, WritesSend
<1> QED BY <1>1, <1>2, <1>3, <1>4, <1>5 DEF Next

\* The invariant holds in every reachable state.
THEOREM WritesInvariant == Spec => []Inv
BY WritesInit, WritesNext, PTL DEF Spec

\* No matter how many copies of a command arrive, in which order, with which delays and
\* lost answers, it takes effect at most once before its deadline (mutateChecked).
THEOREM AtMostOnceInTime == Spec => []OnceInTime
<1>1. Inv => OnceInTime BY DEF Inv
<1> QED BY <1>1, WritesInvariant, PTL

\* What a client was told of a command is so: by the answers to its copies always, and by
\* an answer about its key (operationReceipt) as long as no other request used the key.
THEOREM AnswersAreTrue == Spec => []AnswersHold
<1>1. Inv => AnswersHold BY DEF Inv
<1> QED BY <1>1, WritesInvariant, PTL

\* A key stands for one request as long as its deadline is ahead.
THEOREM KeysAreUnambiguous == Spec => []OneMeaningPerKey
<1>1. Inv => OneMeaningPerKey
  <2> SUFFICES ASSUME Inv, NEW c \in Command, NEW e \in Command, c # e, KeyOf[c] = KeyOf[e],
                      clock < deadline[c], clock < deadline[e], applied[c] > 0, applied[e] > 0
               PROVE FALSE
      BY DEF OneMeaningPerKey
  <2>1. clock \in Nat BY DEF Inv, TypeOK
  <2>2. Sent(c) /\ Sent(e) BY DEF Inv, UnsentUntouched, Sent, TypeOK
  <2>3. receipts[KeyOf[c]] = [command |-> c, expires |-> deadline[c], status |-> "ok"]
    BY <2>2 DEF Inv, ReceiptsKept
  <2>4. receipts[KeyOf[e]] = [command |-> e, expires |-> deadline[e], status |-> "ok"]
    BY <2>2 DEF Inv, ReceiptsKept
  <2> QED BY <2>3, <2>4
<1> QED BY <1>1, WritesInvariant, PTL

-----------------------------------------------------------------------------
(* The network of the agent.                                                *)

USE NetworkAssumption
  DEF Net!server, Net!net, Net!switch, Net!watching, Net!Holding

\* The values at rest are of their types.
LEMMA NetworkRests ==
  /\ Net!Off \in Net!Engine /\ Net!NoLease \in Net!Lease /\ Net!Idle \in Net!Loop
     /\ Net!NoWatch \in Net!Watch
  /\ Net!Off.on = FALSE /\ Net!NoLease.of = 0 /\ Net!NoLease.age = "none"
  /\ Net!Idle.pc = "idle" /\ Net!Idle.lease = Net!NoLease
<1>1. Net!NoLease \in Net!Lease /\ Net!NoLease.of = 0 /\ Net!NoLease.age = "none"
  BY DEF Net!NoLease, Net!Lease
<1>2. Net!Idle \in Net!Loop /\ Net!Idle.pc = "idle" /\ Net!Idle.lease = Net!NoLease
  BY <1>1 DEF Net!Idle, Net!Loop, Net!Pc
<1>3. Net!Off \in Net!Engine /\ Net!Off.on = FALSE /\ Net!NoWatch \in Net!Watch
  BY DEF Net!Off, Net!Engine, Net!Watch
<1> QED BY <1>1, <1>2, <1>3

\* At the start nothing runs and nothing is held.
LEMMA NetworkInit == Net!Init => Net!Supported
<1> SUFFICES ASSUME Net!Init PROVE Net!Supported
  OBVIOUS
<1>1. Net!TypeOK
  <2>1. watch = Net!NoWatch /\ wake \in BOOLEAN /\ barred \in BOOLEAN
    BY DEF Net!Init
  <2>2. required \in BOOLEAN /\ paused \in BOOLEAN /\ pauseFile \in BOOLEAN
    BY DEF Net!Init
  <2> QED BY <2>1, <2>2, NetworkRests DEF Net!Init, Net!TypeOK, Net!Engine
<1> QED BY <1>1, NetworkRests DEF Net!Init, Net!Supported, Net!OneOperation, Net!Leases,
  Net!LeaseOK, Net!Memberships, Net!Pauses, Net!Rosters

\* Stopping the network or leaving it alone keeps the engine and the lease typed.
LEMMA NetTyped ==
  ASSUME Net!TypeOK, Net!Stop \/ Net!Keep
  PROVE  engine' \in Net!Engine /\ lease' \in Net!Lease /\ stale' \subseteq Net!Threads
<1>1. CASE Net!Stop
  BY <1>1, NetworkRests DEF Net!Stop
<1>2. CASE Net!Keep
  BY <1>2 DEF Net!Keep, Net!TypeOK, Net!Engine
<1> QED BY <1>1, <1>2

\* A step that ends leaves the loop idle.
LEMMA EndsIdle ==
  ASSUME Net!Ends PROVE loop' \in Net!Loop /\ loop'.pc = "idle"
BY NetworkRests DEF Net!Ends

\* A step that goes on keeps its lease and its policy.
LEMMA GoesThere ==
  ASSUME Net!TypeOK, NEW pc \in Net!Pc, Net!Goes(pc)
  PROVE  /\ loop' \in Net!Loop /\ loop'.pc = pc
         /\ loop'.lease = loop.lease /\ loop'.policy = loop.policy
BY DEF Net!Goes, Net!TypeOK, Net!Loop, Net!Pc

\* The snapshot gives the step the roster.
LEMMA TakesSnapshot ==
  ASSUME Net!TypeOK, loop' = [loop EXCEPT !.pc = "refresh", !.policy = roster]
  PROVE  loop' \in Net!Loop /\ loop'.pc = "refresh" /\ loop'.policy = roster
BY DEF Net!TypeOK, Net!Loop, Net!Pc

\* A step takes the lease that it will use.
LEMMA TakesLease ==
  ASSUME Net!TypeOK, NEW pc \in Net!Pc, NEW l \in Net!Lease,
         loop' = [loop EXCEPT !.pc = pc, !.lease = l]
  PROVE  loop' \in Net!Loop /\ loop'.pc = pc /\ loop'.lease = l /\ loop'.policy = loop.policy
BY DEF Net!TypeOK, Net!Loop, Net!Pc

\* The types after a step of the loop, from the types of what it may change.
LEMMA NetworkTyped ==
  ASSUME Net!TypeOK, Net!Outside, engine' \in Net!Engine, lease' \in Net!Lease,
         stale' \subseteq Net!Threads,
         loop' \in Net!Loop, remembered' \in {remembered, noRoom}, shown' \in {shown, remembered,
                                                                               noRoom},
         wake' \in BOOLEAN, seen' \in {seen, roster}, heard' = heard,
         networkFaults' \in 0..NetworkFaults,
         UNCHANGED Net!watching
  PROVE  Net!TypeOK'
BY DEF Net!TypeOK, Net!Engine, Net!Outside

\* A step of the loop that ends here keeps the invariant, if it has stopped the network
\* or left it alone.
LEMMA NetworkEnds ==
  ASSUME Net!Supported, Net!TypeOK', Net!Ends, Net!Outside, heard' = heard,
         Net!Stop \/ (Net!Keep /\ remembered' = remembered)
  PROVE  Net!Supported'
<1> USE DEF Net!Supported
<1>1. Net!OneOperation'
  BY EndsIdle DEF Net!OneOperation, Net!Outside
<1>2. Net!Leases'
  <2>1. CASE Net!Stop
    BY <2>1, EndsIdle, NetworkRests DEF Net!Stop, Net!Leases, Net!LeaseOK, Net!TypeOK,
       Net!Membership
  <2>2. CASE Net!Keep /\ remembered' = remembered
    BY <2>2, EndsIdle DEF Net!Keep, Net!Leases, Net!LeaseOK, Net!Outside
  <2> QED BY <2>1, <2>2
<1>3. Net!Memberships'
  BY DEF Net!Memberships, Net!Outside
<1>4. Net!Pauses'
  <2>1. CASE Net!Stop
    BY <2>1, NetworkRests DEF Net!Stop, Net!Pauses, Net!Outside, Net!Threads
  <2>2. CASE Net!Keep
    BY <2>2 DEF Net!Keep, Net!Pauses, Net!Outside
  <2> QED BY <2>1, <2>2
<1>5. Net!Rosters'
  BY EndsIdle DEF Net!Rosters
<1> QED BY <1>1, <1>2, <1>3, <1>4, <1>5

\* Begin takes r.op, and stops the network when an update is required.
LEMMA NetworkBegin ==
  ASSUME Net!Supported, Net!Begin PROVE Net!Supported'
<1> USE DEF Net!Supported
<1>1. wake' \in BOOLEAN
  BY Zenon DEF Net!Begin, Net!TypeOK
<1>2. CASE required
  <2>1. Net!Stop /\ Net!Ends /\ Net!Outside
        /\ UNCHANGED <<remembered, shown, Net!watching, seen, heard, networkFaults>>
    BY <1>2 DEF Net!Begin
  <2>2. Net!TypeOK'
    BY <1>1, <2>1, NetTyped, EndsIdle, NetworkTyped DEF Net!TypeOK
  <2> QED BY <2>1, <2>2, NetworkEnds
<1>3. CASE ~required
  <2>1. /\ stale' = stale \ {"loop"} /\ Net!Goes("account") /\ Net!OpFree
        /\ UNCHANGED <<engine, lease>>
        /\ Net!Outside
           /\ UNCHANGED <<remembered, shown, Net!watching, seen, heard, networkFaults>>
    BY <1>3 DEF Net!Begin
  <2>2. loop' \in Net!Loop /\ loop'.pc = "account"
    BY <2>1, GoesThere DEF Net!Pc
  <2>3. Net!TypeOK'
    BY <1>1, <2>1, <2>2, NetworkTyped DEF Net!TypeOK, Net!Engine
  <2>4. Net!OneOperation' /\ Net!Leases' /\ Net!Memberships' /\ Net!Pauses' /\ Net!Rosters'
    BY <2>1, <2>2 DEF Net!OpFree, Net!OneOperation, Net!Leases, Net!LeaseOK, Net!Memberships,
       Net!Pauses, Net!Rosters, Net!Outside
  <2> QED BY <2>3, <2>4
<1> QED BY <1>2, <1>3

\* A step of the loop that only goes on keeps the invariant.
LEMMA NetworkGoes ==
  ASSUME Net!Supported, Net!TypeOK', Net!Keep, Net!Outside, loop.pc # "idle",
         UNCHANGED <<remembered, heard>>,
         loop'.pc \in {"heartbeat", "snapshot"}
  PROVE  Net!Supported'
BY DEF Net!Supported, Net!OneOperation, Net!Leases, Net!LeaseOK, Net!Memberships, Net!Pauses,
   Net!Rosters, Net!Keep, Net!Outside

\* A device that is barred or remembers no room stops its network; the watch
\* follows the room.
LEMMA NetworkAccount ==
  ASSUME Net!Supported, Net!Account PROVE Net!Supported'
<1> USE DEF Net!Supported
<1>1. /\ loop.pc = "account" /\ Net!Outside
      /\ UNCHANGED <<remembered, wake, seen, heard, networkFaults>>
  BY DEF Net!Account
<1>2. watch' \in Net!Watch
  BY DEF Net!Account, Net!TypeOK, Net!Watch
<1>3. stray' \subseteq Room
  BY DEF Net!Account, Net!TypeOK, Net!Cancelled, Net!Watch, Net!NoWatch
<1>4. CASE Net!Stop /\ Net!Ends /\ shown' = noRoom
  <2>1. Net!TypeOK'
    BY <1>1, <1>2, <1>3, <1>4, NetTyped, EndsIdle DEF Net!TypeOK, Net!Engine, Net!Outside
  <2> QED BY <1>1, <1>4, <2>1, NetworkEnds
<1>5. CASE Net!Keep /\ Net!Goes("heartbeat") /\ UNCHANGED shown
  <2>1. loop' \in Net!Loop /\ loop'.pc = "heartbeat"
    BY <1>5, GoesThere DEF Net!Pc
  <2>2. Net!TypeOK'
    BY <1>1, <1>2, <1>3, <1>5, <2>1, NetTyped DEF Net!TypeOK, Net!Engine, Net!Outside
  <2> QED BY <1>1, <1>5, <2>1, <2>2, NetworkGoes
<1> QED BY <1>4, <1>5 DEF Net!Account

\* Forgetting the identity stops the network first.
LEMMA NetworkForget ==
  ASSUME Net!Supported, Net!Forget, Net!Outside, UNCHANGED <<Net!watching, wake, heard>>,
         seen' = seen
  PROVE  Net!Supported'
<1> USE DEF Net!Supported
<1>1. Net!Stop /\ Net!Ends /\ shown' = remembered /\ remembered' \in {remembered, noRoom}
      /\ networkFaults' \in 0..NetworkFaults
  BY DEF Net!Forget, Net!Sound, Net!Fault, Net!TypeOK
<1>2. Net!TypeOK'
  BY <1>1, NetTyped, EndsIdle, NetworkTyped DEF Net!TypeOK
<1> QED BY <1>1, <1>2, NetworkEnds

\* A heartbeat that finds no membership forgets the room.
LEMMA NetworkHeartbeat ==
  ASSUME Net!Supported, Net!Heartbeat PROVE Net!Supported'
<1> USE DEF Net!Supported
<1>1. CASE Net!IsMember
  <2>1. /\ loop.pc = "heartbeat" /\ Net!Outside /\ Net!Keep /\ Net!Goes("snapshot")
        /\ UNCHANGED <<remembered, shown, Net!watching, wake, seen, heard, networkFaults>>
    BY <1>1 DEF Net!Heartbeat
  <2>2. loop' \in Net!Loop /\ loop'.pc = "snapshot"
    BY <2>1, GoesThere DEF Net!Pc
  <2>3. Net!TypeOK'
    BY <2>1, <2>2, NetTyped, NetworkTyped DEF Net!TypeOK
  <2> QED BY <2>1, <2>2, <2>3, NetworkGoes
<1>2. CASE ~Net!IsMember
  BY <1>2, NetworkForget DEF Net!Heartbeat
<1> QED BY <1>1, <1>2

\* A snapshot gives the step the roster, or stops the network.
LEMMA NetworkSnapshot ==
  ASSUME Net!Supported, Net!Snapshot PROVE Net!Supported'
<1> USE DEF Net!Supported
<1>1. CASE ~Net!IsMember
  BY <1>1, NetworkForget DEF Net!Snapshot
<1>2. CASE Net!IsMember
  <2>1. /\ loop.pc = "snapshot" /\ Net!Outside
           /\ UNCHANGED <<remembered, Net!watching, wake, heard>>
    BY <1>2 DEF Net!Snapshot
  <2>2. CASE Net!Keep /\ Net!Ends /\ shown' = remembered /\ seen' = roster /\ Net!Sound
    <3>1. Net!TypeOK'
      BY <2>1, <2>2, NetTyped, EndsIdle, NetworkTyped DEF Net!TypeOK, Net!Sound
    <3> QED BY <2>1, <2>2, <3>1, NetworkEnds
  <2>3. CASE /\ Net!Keep /\ seen' = roster /\ UNCHANGED shown /\ Net!Sound
             /\ loop' = [loop EXCEPT !.pc = "refresh", !.policy = roster]
    <3>1. loop' \in Net!Loop /\ loop'.pc = "refresh" /\ loop'.policy = roster
      BY <2>3, TakesSnapshot
    <3>2. Net!TypeOK'
      BY <2>1, <2>3, <3>1, NetTyped, NetworkTyped DEF Net!TypeOK, Net!Sound
    <3> QED
      BY <2>1, <2>3, <3>1, <3>2 DEF Net!OneOperation, Net!Leases, Net!LeaseOK, Net!Memberships,
         Net!Pauses, Net!Rosters, Net!Keep, Net!Outside
  <2>4. CASE Net!Stop /\ Net!Ends /\ Net!Fault /\ UNCHANGED <<shown, seen>>
    <3>1. Net!TypeOK'
      BY <2>1, <2>4, NetTyped, EndsIdle, NetworkTyped DEF Net!TypeOK, Net!Fault
    <3> QED BY <2>1, <2>4, <3>1, NetworkEnds
  <2> QED BY <1>2, <2>2, <2>3, <2>4 DEF Net!Snapshot
<1> QED BY <1>1, <1>2

\* A refresh leaves the running engine with the roster of the snapshot, or stops it.
LEMMA NetworkRefresh ==
  ASSUME Net!Supported, Net!Refresh PROVE Net!Supported'
<1> USE DEF Net!Supported
<1>1. loop.pc = "refresh" /\ Net!Outside
      /\ UNCHANGED <<remembered, Net!watching, wake, seen, heard>>
  BY DEF Net!Refresh
<1>2. CASE Net!Ends /\ Net!Keep /\ UNCHANGED shown /\ Net!Sound
  <2>1. Net!TypeOK'
    BY <1>1, <1>2, NetTyped, EndsIdle, NetworkTyped DEF Net!TypeOK, Net!Sound
  <2> QED BY <1>1, <1>2, <2>1, NetworkEnds
<1>3. CASE /\ Net!Sound /\ ~Net!Halted
           /\ IF engine.on THEN engine' = Net!Refreshed /\ shown' = remembered
                           ELSE UNCHANGED <<engine, shown>>
           /\ loop' = [loop EXCEPT !.pc = "renew", !.lease = lease]
           /\ UNCHANGED <<lease, stale>>
  <2>1. loop' \in Net!Loop /\ loop'.pc = "renew" /\ loop'.lease = lease
        /\ loop'.policy = loop.policy
    BY <1>3, TakesLease DEF Net!TypeOK, Net!Pc
  <2>2. /\ engine' \in Net!Engine /\ engine'.on = engine.on /\ engine'.of = engine.of
        /\ engine.on => engine'.policy = loop.policy
    BY <1>3 DEF Net!Refreshed, Net!TypeOK, Net!Loop, Net!Engine
  <2>3. Net!TypeOK'
    BY <1>1, <1>3, <2>1, <2>2, NetworkTyped DEF Net!TypeOK, Net!Sound
  <2>4. Net!Leases'
    BY <1>1, <1>3, <2>1, <2>2 DEF Net!Leases, Net!LeaseOK, Net!Outside
  <2> QED
    BY <1>1, <1>3, <2>1, <2>2, <2>3, <2>4 DEF Net!OneOperation, Net!Memberships, Net!Pauses,
       Net!Rosters, Net!Outside
<1>4. CASE Net!Stop /\ Net!Ends /\ Net!Fault /\ UNCHANGED shown
  <2>1. Net!TypeOK'
    BY <1>1, <1>4, NetTyped, EndsIdle, NetworkTyped DEF Net!TypeOK, Net!Fault
  <2> QED BY <1>1, <1>4, <2>1, NetworkEnds
<1> QED BY <1>2, <1>3, <1>4 DEF Net!Refresh

\* A lease that is due is renewed for the membership of the remembered room, or the
\* network stops.
LEMMA NetworkRenew ==
  ASSUME Net!Supported, Net!Renew PROVE Net!Supported'
<1> USE DEF Net!Supported
<1>1. /\ loop.pc = "renew" /\ Net!Outside
      /\ UNCHANGED <<remembered, shown, Net!watching, wake, seen, heard, networkFaults>>
  BY DEF Net!Renew
<1>2. CASE Net!Stop /\ Net!Ends
  <2>1. Net!TypeOK'
    BY <1>1, <1>2, NetTyped, EndsIdle, NetworkTyped DEF Net!TypeOK
  <2> QED BY <1>1, <1>2, <2>1, NetworkEnds
<1>3. ASSUME NEW l \in Net!Lease, Net!Keep, loop' = [loop EXCEPT !.pc = "apply", !.lease = l],
             Net!LeaseOK(l), l.of # 0, l.of \in heard => "loop" \in stale
      PROVE  Net!Supported'
  <2>1. loop' \in Net!Loop /\ loop'.pc = "apply" /\ loop'.lease = l /\ loop'.policy = loop.policy
    BY <1>3, TakesLease DEF Net!Pc
  <2>2. Net!TypeOK'
    BY <1>1, <1>3, <2>1, NetTyped, NetworkTyped DEF Net!TypeOK
  <2>3. Net!Leases'
    BY <1>1, <1>3, <2>1 DEF Net!Leases, Net!LeaseOK, Net!Outside, Net!Keep
  <2> QED
    BY <1>1, <1>3, <2>1, <2>2, <2>3 DEF Net!OneOperation, Net!Memberships, Net!Pauses,
       Net!Rosters, Net!Outside, Net!Keep
<1>4. CASE ~Net!NeedsLease /\ Net!Keep /\ Net!Goes("apply")
  <2>1. loop.lease \in Net!Lease /\ loop' = [loop EXCEPT !.pc = "apply", !.lease = loop.lease]
    BY <1>4 DEF Net!Goes, Net!TypeOK, Net!Loop
  <2>2. /\ Net!LeaseOK(loop.lease) /\ loop.lease.of # 0
        /\ loop.lease.of \in heard => "loop" \in stale
    BY <1>1, <1>4 DEF Net!NeedsLease, Net!Leases, Net!LeaseOK
  <2> QED BY <1>3, <1>4, <2>1, <2>2
<1>5. CASE /\ Net!IsMember /\ Net!Keep
           /\ loop' = [loop EXCEPT !.pc = "apply", !.lease = [of |-> seat, age |-> "fresh"]]
  <2> DEFINE l == [of |-> seat, age |-> "fresh"]
  <2>1. l \in Net!Lease /\ l.of = seat /\ l.age = "fresh"
    BY DEF Net!TypeOK, Net!Lease
  <2>2. Net!LeaseOK(l) /\ l.of # 0 /\ (l.of \in heard => "loop" \in stale)
    BY <1>5, <2>1 DEF Net!IsMember, Net!RoomOf, Net!LeaseOK, Net!Memberships, Net!TypeOK,
       Net!Membership
  <2>3. loop' = [loop EXCEPT !.pc = "apply", !.lease = l]
    BY <1>5
  <2> HIDE DEF l
  <2> QED BY <1>3, <1>5, <2>1, <2>2, <2>3
<1> QED BY <1>1, <1>2, <1>4, <1>5 DEF Net!Renew

\* The engine starts only with the lease in hand, unless the watch has outdated it.
LEMMA NetworkApply ==
  ASSUME Net!Supported, Net!Apply PROVE Net!Supported'
<1> USE DEF Net!Supported
<1>1. loop.pc = "apply" /\ Net!Ends /\ Net!Outside
      /\ UNCHANGED <<remembered, Net!watching, seen, heard>>
  BY DEF Net!Apply
<1>2. CASE Net!Stop /\ UNCHANGED <<shown, wake, networkFaults>>
  <2>1. Net!TypeOK'
    BY <1>1, <1>2, NetTyped, EndsIdle, NetworkTyped DEF Net!TypeOK
  <2> QED BY <1>1, <1>2, <2>1, NetworkEnds
<1>3. CASE UNCHANGED <<engine, lease, stale, shown, wake, networkFaults>>
  <2>1. Net!TypeOK'
    BY <1>1, <1>3, EndsIdle, NetworkTyped DEF Net!TypeOK, Net!Engine
  <2> QED BY <1>1, <1>3, <2>1, NetworkEnds DEF Net!Keep
<1>4. CASE /\ ~Net!Halted /\ stale' = stale
           /\ engine' = [on |-> TRUE, of |-> loop.lease.of, policy |-> loop.policy]
           /\ lease' = loop.lease /\ shown' = remembered
           /\ wake' = (wake \/ ~engine.on) /\ Net!Sound
  <2>1. /\ engine' \in Net!Engine /\ engine'.of = loop.lease.of /\ lease' \in Net!Lease
        /\ loop.lease.of # 0 /\ Net!LeaseOK(loop.lease) /\ loop.lease.of \notin heard
    BY <1>1, <1>4 DEF Net!TypeOK, Net!Loop, Net!Lease, Net!Engine, Net!Leases, Net!Halted
  <2>2. wake' \in BOOLEAN
    BY <1>4
  <2>3. Net!TypeOK'
    BY <1>1, <1>4, <2>1, <2>2, EndsIdle, NetworkTyped DEF Net!TypeOK, Net!Sound
  <2>4. Net!Leases'
    BY <1>1, <1>4, <2>1, EndsIdle DEF Net!Leases, Net!LeaseOK, Net!Outside
  <2>5. Net!Pauses'
    BY <1>1, <1>4 DEF Net!Pauses, Net!Outside, Net!Halted
  <2> QED
    BY <1>1, <2>3, <2>4, <2>5, EndsIdle DEF Net!OneOperation, Net!Memberships, Net!Rosters,
       Net!Outside
<1>5. CASE /\ Net!Fault /\ stale' = stale
           /\ engine' \in {engine, Net!Off} /\ UNCHANGED <<lease, shown, wake>>
  <2>1. Net!TypeOK'
    BY <1>1, <1>5, NetworkRests, EndsIdle, NetworkTyped DEF Net!TypeOK, Net!Engine, Net!Fault
  <2>2. Net!Leases' /\ Net!Pauses'
    BY <1>1, <1>5, NetworkRests, EndsIdle DEF Net!Leases, Net!LeaseOK, Net!Pauses, Net!Outside
  <2> QED
    BY <1>1, <2>1, <2>2, EndsIdle DEF Net!OneOperation, Net!Memberships, Net!Rosters,
       Net!Outside
<1> QED BY <1>1, <1>2, <1>3, <1>4, <1>5 DEF Net!Apply

\* The membership ends at the server only.
LEMMA NetworkMembershipEnds ==
  ASSUME Net!Supported, Net!MembershipEnds PROVE Net!Supported'
<1> USE DEF Net!Supported
<1>1. barred' \in BOOLEAN
  BY Zenon DEF Net!MembershipEnds, Net!TypeOK
<1>2. Net!TypeOK'
  BY <1>1 DEF Net!MembershipEnds, Net!TypeOK
<1> QED
  BY <1>2 DEF Net!MembershipEnds, Net!OneOperation, Net!Leases, Net!LeaseOK, Net!Memberships,
     Net!Pauses, Net!Rosters, Net!TypeOK, Net!Membership

\* The pause goes to the file, or cannot be saved.
LEMMA NetworkSavePaused ==
  ASSUME Net!Supported, Net!SavePaused PROVE Net!Supported'
<1> USE DEF Net!Supported
<1>1. pauseFile' \in BOOLEAN
  BY Zenon DEF Net!SavePaused, Net!TypeOK
<1>2. Net!TypeOK'
  BY <1>1 DEF Net!SavePaused, Net!TypeOK, Net!Fault, Net!Sound
<1> QED
  BY <1>2 DEF Net!SavePaused, Net!OneOperation, Net!Leases, Net!LeaseOK, Net!Memberships,
     Net!Pauses, Net!Rosters

\* A retry lifts the pause only when no pause has come after it.
LEMMA NetworkCommitRetry ==
  ASSUME Net!Supported, Net!CommitRetry PROVE Net!Supported'
<1> USE DEF Net!Supported
<1>1. /\ retry = "asked" /\ retry' = "idle" /\ networkFaults' \in 0..NetworkFaults
      /\ UNCHANGED <<Net!server, remembered, required, shown, stopper, held, Net!watching, loop,
                     command,
                     seen, heard>>
  BY DEF Net!CommitRetry, Net!Fault, Net!Sound, Net!TypeOK
<1>2. CASE Net!Keep /\ UNCHANGED <<pauseFile, paused, wake>>
  <2>1. Net!TypeOK'
    BY <1>1, <1>2, NetTyped DEF Net!TypeOK, Net!Engine
  <2> QED
    BY <1>1, <1>2, <2>1 DEF Net!OneOperation, Net!Leases, Net!LeaseOK, Net!Memberships,
       Net!Pauses, Net!Rosters, Net!Keep
<1>3. CASE stopper = "idle" /\ Net!Resumable /\ Net!Stop /\ pauseFile' = FALSE
           /\ paused' = FALSE /\ wake' = TRUE
  <2>1. Net!TypeOK'
    <3>1. pauseFile' \in BOOLEAN /\ paused' \in BOOLEAN /\ wake' \in BOOLEAN
      BY <1>3
    <3> QED BY <1>1, <1>3, <3>1, NetTyped DEF Net!TypeOK, Net!Engine
  <2>2. held = "no"
    BY <1>1, <1>3 DEF Net!Pauses, Net!Resumable
  <2> QED
    BY <1>1, <1>3, <2>1, <2>2, NetworkRests DEF Net!OneOperation, Net!Leases, Net!LeaseOK,
       Net!Memberships, Net!Pauses, Net!Rosters, Net!Stop, Net!TypeOK, Net!Membership
<1> QED BY <1>1, <1>2, <1>3 DEF Net!CommitRetry

\* The result of a command moves the identity and stops the network of the old room.
LEMMA NetworkApplyActionResult ==
  ASSUME Net!Supported, Net!ApplyActionResult PROVE Net!Supported'
<1> USE DEF Net!Supported
<1>1. /\ command = "applying" /\ command' = "idle"
      /\ UNCHANGED <<Net!server, required, Net!switch, Net!watching, loop, seen, heard>>
      /\ Net!RoomOf(seat) \in Room \cup {noRoom} /\ wake' \in BOOLEAN
  <2>1. wake' \in BOOLEAN
    BY DEF Net!ApplyActionResult, Net!TypeOK
  <2> QED BY <2>1 DEF Net!ApplyActionResult, Net!TypeOK, Net!RoomOf, Net!Membership
<1>2. /\ remembered' \in {remembered, Net!RoomOf(seat)} /\ shown' \in {shown, Net!RoomOf(seat)}
      /\ networkFaults' \in 0..NetworkFaults
  BY DEF Net!ApplyActionResult, Net!Fault, Net!Sound, Net!TypeOK
<1>3. Net!Stop \/ (Net!Keep /\ remembered' = remembered)
  BY DEF Net!ApplyActionResult
<1>4. Net!TypeOK'
  BY <1>1, <1>2, <1>3, NetTyped DEF Net!TypeOK, Net!Engine
<1>5. Net!OneOperation' /\ Net!Memberships'
  BY <1>1 DEF Net!OneOperation, Net!Memberships
<1>6. loop.pc = "idle"
  BY <1>1 DEF Net!OneOperation
<1>7. CASE Net!Stop
  BY <1>1, <1>4, <1>5, <1>6, <1>7, NetworkRests DEF Net!Stop, Net!Leases, Net!LeaseOK,
     Net!Pauses, Net!Rosters, Net!TypeOK, Net!Membership, Net!Threads
<1>8. CASE Net!Keep /\ remembered' = remembered
  BY <1>1, <1>4, <1>5, <1>6, <1>8 DEF Net!Keep, Net!Leases, Net!LeaseOK, Net!Pauses, Net!Rosters
<1> QED BY <1>3, <1>7, <1>8

\* The watch that hears the end stops the network and outdates the steps in flight.
LEMMA NetworkWatchStops ==
  ASSUME Net!Supported, NEW room \in Room, Net!WatchStops(room) PROVE Net!Supported'
<1> USE DEF Net!Supported
<1>1. /\ UNCHANGED <<Net!server, remembered, required, shown, Net!switch, loop, command, seen,
                     networkFaults>>
      /\ wake' \in BOOLEAN /\ stray' \subseteq Room /\ watch' \in Net!Watch
  <2>1. watch' \in Net!Watch
    BY DEF Net!WatchStops, Net!TypeOK, Net!Watch
  <2> QED BY <2>1 DEF Net!WatchStops, Net!TypeOK
<1>2. CASE Net!Stop /\ heard' = heard \cup {n \in Net!Membership : control[n] = room /\ n # seat}
  <2>1. Net!TypeOK'
    BY <1>1, <1>2, NetTyped DEF Net!TypeOK, Net!Engine
  <2>2. stale' = Net!Threads /\ "loop" \in Net!Threads /\ "retry" \in Net!Threads
    BY <1>2 DEF Net!Stop, Net!Threads
  <2>3. Net!Leases'
    BY <1>1, <1>2, <2>1, <2>2, NetworkRests DEF Net!Stop, Net!Leases, Net!LeaseOK, Net!TypeOK,
       Net!Membership
  <2>4. Net!Memberships'
    BY <1>1, <1>2, NetworkAssumption DEF Net!Memberships
  <2>5. Net!Pauses' /\ Net!Rosters' /\ Net!OneOperation'
    BY <1>1, <1>2, <2>2, NetworkRests DEF Net!Stop, Net!Pauses, Net!Rosters, Net!OneOperation
  <2> QED BY <2>1, <2>3, <2>4, <2>5
<1>3. CASE Net!Keep /\ UNCHANGED heard
  <2>1. Net!TypeOK'
    BY <1>1, <1>3, NetTyped DEF Net!TypeOK, Net!Engine
  <2> QED
    BY <1>1, <1>3, <2>1 DEF Net!Keep, Net!OneOperation, Net!Leases, Net!LeaseOK,
       Net!Memberships, Net!Pauses, Net!Rosters
<1> QED BY <1>2, <1>3 DEF Net!WatchStops

\* The roster grows at the server only.
LEMMA NetworkRosterChanges ==
  ASSUME Net!Supported, Net!RosterChanges PROVE Net!Supported'
<1> USE DEF Net!Supported
<1>1. Net!TypeOK'
  BY DEF Net!RosterChanges, Net!TypeOK
<1> QED
  BY <1>1 DEF Net!RosterChanges, Net!OneOperation, Net!Leases, Net!LeaseOK, Net!Memberships,
     Net!Pauses, Net!Rosters

\* The policy requires an update, or no longer does.
LEMMA NetworkPolicyChanges ==
  ASSUME Net!Supported, Net!PolicyChanges PROVE Net!Supported'
<1> USE DEF Net!Supported
<1>1. Net!TypeOK'
  BY DEF Net!PolicyChanges, Net!Fault, Net!TypeOK
<1> QED
  BY <1>1 DEF Net!PolicyChanges, Net!OneOperation, Net!Leases, Net!LeaseOK, Net!Memberships,
     Net!Pauses, Net!Rosters

\* A lease grows old, or expires.
LEMMA NetworkLeaseAges ==
  ASSUME Net!Supported, Net!LeaseAges PROVE Net!Supported'
<1> USE DEF Net!Supported
<1>1. Net!TypeOK'
  BY DEF Net!LeaseAges, Net!Sound, Net!Fault, Net!TypeOK, Net!Lease, Net!Loop, Net!Watch,
     Net!Threads, Net!Membership
<1> QED
  BY <1>1 DEF Net!LeaseAges, Net!Sound, Net!Fault, Net!OneOperation, Net!Leases, Net!LeaseOK,
     Net!Memberships, Net!Pauses, Net!Rosters, Net!TypeOK, Net!Lease, Net!Loop, Net!Membership,
     Net!Threads

\* The machine sleeps until the lease in hand is over.
LEMMA NetworkLeaseInHandEnds ==
  ASSUME Net!Supported, Net!LeaseInHandEnds PROVE Net!Supported'
<1> USE DEF Net!Supported
<1>1. loop' \in Net!Loop
  BY DEF Net!LeaseInHandEnds, Net!TypeOK, Net!Loop, Net!Lease
<1>2. lease' \in Net!Lease
  BY DEF Net!LeaseInHandEnds, Net!TypeOK, Net!Lease
<1>3. Net!TypeOK'
  BY <1>1, <1>2 DEF Net!LeaseInHandEnds, Net!Fault, Net!TypeOK
<1> QED
  BY <1>3 DEF Net!LeaseInHandEnds, Net!Fault, Net!OneOperation, Net!Leases, Net!LeaseOK,
     Net!Memberships, Net!Pauses, Net!Rosters, Net!TypeOK, Net!Lease, Net!Loop, Net!Membership,
     Net!Threads

\* A call that fails ends the step where it stands.
LEMMA NetworkCallFails ==
  ASSUME Net!Supported, Net!CallFails PROVE Net!Supported'
<1> USE DEF Net!Supported
<1>1. Net!TypeOK'
  BY NetTyped, EndsIdle, NetworkTyped DEF Net!CallFails, Net!Fault, Net!Keep, Net!TypeOK
<1> QED
  BY <1>1 DEF Net!CallFails, Net!Ends, Net!Outside, Net!Idle, Net!OneOperation, Net!Leases,
     Net!LeaseOK, Net!Memberships, Net!Pauses, Net!Rosters

\* The ticker stops an engine whose lease has expired.
LEMMA NetworkTicker ==
  ASSUME Net!Supported, Net!Ticker PROVE Net!Supported'
<1> USE DEF Net!Supported
<1>1. Net!TypeOK'
  BY NetTyped DEF Net!Ticker, Net!TypeOK
<1> QED
  BY <1>1 DEF Net!Ticker, Net!Off, Net!NoLease, Net!Stop, Net!OneOperation, Net!Leases,
     Net!LeaseOK, Net!Memberships, Net!Pauses, Net!Rosters, Net!TypeOK, Net!Membership

\* The watch hears of an end before it acts on it.
LEMMA NetworkWatchHears ==
  ASSUME Net!Supported, Net!WatchHears PROVE Net!Supported'
<1> USE DEF Net!Supported
<1>1. watch' \in Net!Watch
  BY DEF Net!WatchHears, Net!TypeOK, Net!Watch, Net!NoWatch
<1>2. Net!TypeOK'
  BY <1>1 DEF Net!WatchHears, Net!TypeOK
<1> QED
  BY <1>2 DEF Net!WatchHears, Net!OneOperation, Net!Leases, Net!LeaseOK, Net!Memberships,
     Net!Pauses, Net!Rosters

\* network-stop marks the pause before it waits for r.op.
LEMMA NetworkMarkPaused ==
  ASSUME Net!Supported, Net!MarkPaused PROVE Net!Supported'
<1> USE DEF Net!Supported
<1>1. Net!TypeOK'
  BY DEF Net!MarkPaused, Net!TypeOK
<1> QED
  BY <1>1 DEF Net!MarkPaused, Net!OneOperation, Net!Leases, Net!LeaseOK, Net!Memberships,
     Net!Pauses, Net!Rosters, Net!TypeOK

\* network-stop stops the engine once r.op is free.
LEMMA NetworkStopPaused ==
  ASSUME Net!Supported, Net!StopPaused PROVE Net!Supported'
<1> USE DEF Net!Supported
<1>1. Net!TypeOK'
  BY NetTyped DEF Net!StopPaused, Net!TypeOK
<1> QED
  BY <1>1 DEF Net!StopPaused, Net!Stop, Net!Off, Net!NoLease, Net!Threads, Net!OneOperation,
     Net!Leases, Net!LeaseOK, Net!Memberships, Net!Pauses, Net!Rosters, Net!TypeOK,
     Net!Membership

\* A retry is asked for; it lifts only what was paused before it.
LEMMA NetworkAskRetry ==
  ASSUME Net!Supported, Net!AskRetry PROVE Net!Supported'
<1> USE DEF Net!Supported
<1>1. Net!TypeOK'
  BY DEF Net!AskRetry, Net!TypeOK
<1> QED
  BY <1>1 DEF Net!AskRetry, Net!OpFree, Net!OneOperation, Net!Leases, Net!LeaseOK,
     Net!Memberships, Net!Pauses, Net!Rosters

\* Leaving the room ends the membership before the identity follows.
LEMMA NetworkLeave ==
  ASSUME Net!Supported, Net!Leave PROVE Net!Supported'
<1> USE DEF Net!Supported
<1>1. Net!TypeOK'
  BY DEF Net!Leave, Net!TypeOK
<1> QED
  BY <1>1 DEF Net!Leave, Net!OpFree, Net!OneOperation, Net!Leases, Net!LeaseOK, Net!Memberships,
     Net!Pauses, Net!Rosters, Net!TypeOK, Net!Membership

\* After a crash only what was saved is left.
LEMMA NetworkCrash ==
  ASSUME Net!Supported, Net!Crash PROVE Net!Supported'
<1> USE DEF Net!Supported
<1>1. Net!Stop /\ Net!Ends /\ watch' = Net!NoWatch /\ stray' = {} /\ wake' \in BOOLEAN
  BY DEF Net!Crash, Net!Ends
<1>2. paused' \in BOOLEAN /\ held' \in {"no", "disk"}
  BY DEF Net!Crash, Net!TypeOK
<1>3. Net!TypeOK'
  BY <1>1, <1>2, NetTyped, EndsIdle, NetworkRests DEF Net!Crash, Net!Fault, Net!TypeOK
<1> QED
  BY <1>3 DEF Net!Crash, Net!Stop, Net!Idle, Net!Off, Net!NoLease, Net!OneOperation, Net!Leases,
     Net!LeaseOK, Net!Memberships, Net!Pauses, Net!Rosters, Net!TypeOK, Net!Membership

\* Joining a room is a new membership; the identity follows with the result.
LEMMA NetworkJoin ==
  ASSUME Net!Supported, NEW room \in Room, Net!Join(room) PROVE Net!Supported'
<1> USE DEF Net!Supported
<1>1. Net!TypeOK'
  BY DEF Net!Join, Net!Membership, Net!TypeOK
<1> QED
  BY <1>1 DEF Net!Join, Net!OpFree, Net!OneOperation, Net!Leases, Net!LeaseOK, Net!Memberships,
     Net!Pauses, Net!Rosters, Net!TypeOK

\* Every step of the agent's network keeps the invariant.
LEMMA NetworkNext ==
  ASSUME Net!Supported, Net!Next PROVE Net!Supported'
BY NetworkBegin, NetworkAccount, NetworkForget, NetworkHeartbeat, NetworkSnapshot,
   NetworkRefresh, NetworkRenew, NetworkApply, NetworkMembershipEnds, NetworkSavePaused,
   NetworkCommitRetry, NetworkApplyActionResult, NetworkWatchStops, NetworkRosterChanges,
   NetworkPolicyChanges, NetworkLeaseAges, NetworkLeaseInHandEnds, NetworkCallFails,
   NetworkTicker, NetworkWatchHears, NetworkMarkPaused, NetworkStopPaused, NetworkAskRetry,
   NetworkLeave, NetworkCrash, NetworkJoin DEF Net!Next, Net!Step

\* So does a step that leaves the network alone.
LEMMA NetworkStutters ==
  ASSUME Net!Supported, UNCHANGED Net!vars PROVE Net!Supported'
BY DEF Net!Supported, Net!TypeOK, Net!OneOperation, Net!Leases, Net!LeaseOK, Net!Memberships,
   Net!Pauses, Net!Rosters, Net!vars

\* The properties follow.
LEMMA NetworkHolds ==
  ASSUME Net!Supported PROVE Net!Inv /\ Net!StopHolds /\ Net!EndedStays
BY DEF Net!Supported, Net!TypeOK, Net!Inv, Net!Consistent, Net!RoomOf, Net!OneOperation,
   Net!Leases, Net!LeaseOK, Net!Memberships, Net!Pauses, Net!Rosters, Net!StopHolds,
   Net!EndedStays

HIDE NetworkAssumption
  DEF Net!server, Net!net, Net!switch, Net!watching, Net!Holding

-----------------------------------------------------------------------------
(* The login, of an account and of a guest that links to one.               *)

USE LoginAssumption

\* A transaction that moves to another phase keeps its subject.
LEMMA LoginMoves ==
  ASSUME NEW linked \in BOOLEAN, Login(linked)!TypeOK, NEW p \in Login(linked)!Phases
  PROVE  LET t == [tx EXCEPT !.phase = p] IN
         t \in Login(linked)!Tx /\ t.phase = p /\ t.subject = tx.subject
BY DEF Login!TypeOK, Login!Tx

\* The cleared file is a file.
LEMMA NoFileInFile ==
  ASSUME NEW linked \in BOOLEAN
  PROVE  Login(linked)!NoFile \in Login(linked)!File
  /\ [Login(linked)!NoFile EXCEPT !.phase = "starting"] \in Login(linked)!File
BY DEF Login!NoFile, Login!File

\* At the start no transaction is open.
LEMMA LoginInit == ASSUME NEW linked \in BOOLEAN, Login(linked)!Init PROVE Login(linked)!Supported
<1>1. Login(linked)!TypeOK
  <2>1. tx \in Login(linked)!Tx
    BY DEF Login!Init, Login!Tx, Login!Phases
  <2>2. /\ member \in [Login(linked)!Identity -> LoginRoom \cup {Login(linked)!None}]
        /\ left \in [Login(linked)!Identity -> LoginRoom \cup {Login(linked)!None}]
    BY DEF Login!Init
  <2>3. identities \in [Subject -> Login(linked)!User \cup {Login(linked)!None}]
        /\ device \in Login(linked)!User \cup {Login(linked)!None}
    BY DEF Login!Init, Login!User
  <2>4. registered \subseteq Login(linked)!User
    BY DEF Login!Init, Login!User
  <2>5. loginFile \in Login(linked)!File
    BY NoFileInFile DEF Login!Init
  <2>7. revision = 1 /\ loginFaults = 0
    BY DEF Login!Init
  <2>8. revision \in 1..MaxRevision /\ loginFaults \in 0..LoginFaults
    BY <2>7
  <2>6. /\ expired \in BOOLEAN /\ revoked \in BOOLEAN /\ published \in BOOLEAN
        /\ callback \subseteq Browser /\ selected \in LoginRoom \cup {Login(linked)!None}
        /\ loginDisk \in {"old", "new"} /\ loginStep \in Login(linked)!Steps
    BY DEF Login!Init, Login!Steps
  <2> QED BY <2>1, <2>2, <2>3, <2>4, <2>5, <2>6, <2>8 DEF Login!TypeOK
<1> QED BY <1>1 DEF Login!Init, Login!Supported, Login!Attempt, Login!Switching,
   Login!SwitchIsSound, Login!None, Login!server, Login!rooms, Login!agent

\* The transaction expires at the server.
LEMMA LoginExpires ==
  ASSUME NEW linked \in BOOLEAN, Login(linked)!Supported,
         Login(linked)!Expires PROVE Login(linked)!Supported'
<1> USE DEF Login!Supported
<1>1. Login(linked)!TypeOK'
  BY DEF Login!Expires, Login!TypeOK, Login!server, Login!rooms, Login!agent
<1> QED BY <1>1 DEF Login!Expires, Login!Attempt, Login!SwitchIsSound, Login!server,
   Login!rooms, Login!agent

\* A change of the provider's settings ends the attempt, and leaves the device that it may
\* already have.
LEMMA LoginSettingsChange ==
  ASSUME NEW linked \in BOOLEAN, Login(linked)!Supported,
         Login(linked)!SettingsChange PROVE Login(linked)!Supported'
<1> USE DEF Login!Supported
<1>1. /\ tx' \in Login(linked)!Tx
      /\ \/ tx' = tx /\ tx.phase \in {Login(linked)!None, "consumed"}
         \/ tx'.phase = "auth_login_config_changed"
  BY DEF Login!SettingsChange, Login!TypeOK, Login!Tx, Login!Phases, Login!Failures
<1>2. Login(linked)!TypeOK'
  BY <1>1 DEF Login!SettingsChange, Login!TypeOK, Login!server, Login!rooms, Login!agent
<1> QED BY <1>1, <1>2 DEF Login!SettingsChange, Login!Attempt, Login!SwitchIsSound,
   Login!server, Login!rooms, Login!agent

\* The browser takes the transaction to the provider.
LEMMA LoginAuthorize ==
  ASSUME NEW linked \in BOOLEAN, Login(linked)!Supported, NEW b \in Browser,
         Login(linked)!Authorize(b) PROVE Login(linked)!Supported'
<1> USE DEF Login!Supported
<1>1. tx' \in Login(linked)!Tx /\ tx'.phase = "authorizing"
  BY DEF Login!Authorize, Login!TypeOK, Login!Tx, Login!Phases
<1>2. Login(linked)!TypeOK'
  BY <1>1 DEF Login!Authorize, Login!TypeOK, Login!server, Login!rooms, Login!agent
<1> QED BY <1>1, <1>2 DEF Login!Authorize, Login!Attempt, Login!SwitchIsSound, Login!server,
   Login!rooms, Login!agent

\* The provider's answer comes back to the browser.
LEMMA LoginCallback ==
  ASSUME NEW linked \in BOOLEAN, Login(linked)!Supported, NEW b \in Browser,
         Login(linked)!Callback(b) PROVE Login(linked)!Supported'
<1> USE DEF Login!Supported
<1>1. tx' \in Login(linked)!Tx /\ tx'.phase = "exchanging"
  BY LoginMoves DEF Login!Callback, Login!Phases
<1>2. Login(linked)!TypeOK'
  BY <1>1 DEF Login!Callback, Login!TypeOK, Login!server, Login!rooms, Login!agent
<1> QED BY <1>1, <1>2 DEF Login!Callback, Login!Claimable, Login!Attempt, Login!SwitchIsSound,
   Login!server, Login!rooms, Login!agent

\* Confirming binds the verified subject: for a link to the guest itself, or not at all
\* when the subject belongs to another.
LEMMA LoginConfirm ==
  ASSUME NEW linked \in BOOLEAN, Login(linked)!Supported, NEW b \in Browser,
         Login(linked)!Confirm(b) PROVE Login(linked)!Supported'
<1> USE DEF Login!Supported
<1>1. /\ tx.phase = "verified" /\ tx.subject \in Subject
      /\ UNCHANGED <<revision, expired, Login(linked)!rooms, callback, Login(linked)!agent,
                     loginFaults>>
      /\ \E p \in {"ready", "failed", "account_identity_conflict"} : tx' = [tx EXCEPT !.phase = p]
  BY DEF Login!Confirm, Login!Identified, Login!Attempt
<1>2. tx' \in Login(linked)!Tx /\ tx'.phase \in {"ready", "failed", "account_identity_conflict"}
  BY <1>1, LoginMoves DEF Login!Phases, Login!Failures
<1>3. /\ tx'.phase = "ready" => device' = Login(linked)!UserFor(tx.subject)
      /\ tx'.phase # "ready" => device' = device
      /\ tx'.phase = "account_identity_conflict" => linked
      /\ tx'.phase = "ready" => ~Login(linked)!Conflict(tx.subject)
  BY <1>1, LoginMoves DEF Login!Confirm, Login!Identified, Login!Conflict, Login!Phases,
     Login!Failures
<1>4. Login(linked)!UserFor(tx.subject) \in Login(linked)!User
      /\ Login(linked)!UserFor(tx.subject) # Login(linked)!None
         /\ (linked => Login(linked)!UserFor(tx.subject) = "guest")
  BY <1>1 DEF Login!UserFor, Login!User, Login!None, Login!TypeOK
<1>5. identities' \in [Subject -> Login(linked)!User \cup {Login(linked)!None}]
      /\ registered' \subseteq Login(linked)!User
  BY <1>4 DEF Login!Confirm, Login!Identified, Login!TypeOK
<1>6. Login(linked)!TypeOK'
  BY <1>1, <1>2, <1>3, <1>4, <1>5 DEF Login!TypeOK, Login!server, Login!rooms, Login!agent
<1> QED BY <1>1, <1>2, <1>3, <1>4, <1>6 DEF Login!Attempt, Login!SwitchIsSound, Login!server,
   Login!rooms, Login!agent

\* The exchange verifies the subject.
LEMMA LoginExchange ==
  ASSUME NEW linked \in BOOLEAN, Login(linked)!Supported, NEW s \in Subject,
         Login(linked)!Exchange(s) PROVE Login(linked)!Supported'
<1> USE DEF Login!Supported
<1>1. /\ tx' \in Login(linked)!Tx /\ tx'.phase \in {"verified", "failed"}
      /\ tx'.phase = "verified" => tx'.subject \in Subject
  BY DEF Login!Exchange, Login!TypeOK, Login!Tx, Login!Phases, Login!Failures
<1>2. Login(linked)!TypeOK'
  BY <1>1 DEF Login!Exchange, Login!TypeOK, Login!server, Login!rooms, Login!agent
<1> QED BY <1>1, <1>2 DEF Login!Exchange, Login!Attempt, Login!SwitchIsSound, Login!server,
   Login!rooms, Login!agent

\* The exchange fails.
LEMMA LoginExchangeFails ==
  ASSUME NEW linked \in BOOLEAN, Login(linked)!Supported,
         Login(linked)!ExchangeFails PROVE Login(linked)!Supported'
<1> USE DEF Login!Supported
<1>1. tx' \in Login(linked)!Tx /\ tx'.phase = "failed"
  BY LoginMoves DEF Login!ExchangeFails, Login!Phases, Login!Failures
<1>2. Login(linked)!TypeOK'
  BY <1>1 DEF Login!ExchangeFails, Login!TypeOK, Login!server, Login!rooms, Login!agent
<1> QED BY <1>1, <1>2 DEF Login!ExchangeFails, Login!Attempt, Login!SwitchIsSound, Login!server,
   Login!rooms, Login!agent

\* A login begins only when none is in the file.
LEMMA LoginLogin ==
  ASSUME NEW linked \in BOOLEAN, Login(linked)!Supported,
         Login(linked)!Login PROVE Login(linked)!Supported'
<1> USE DEF Login!Supported
<1>1. loginFile' \in Login(linked)!File
  BY NoFileInFile DEF Login!Login
<1>2. Login(linked)!TypeOK'
  BY <1>1 DEF Login!Login, Login!TypeOK, Login!Steps, Login!server, Login!rooms, Login!agent
<1> QED BY <1>2 DEF Login!Login, Login!Attempt, Login!Switching, Login!SwitchIsSound,
   Login!server, Login!rooms, Login!agent

\* Cancelling clears the attempt while no step runs.
LEMMA LoginCancel ==
  ASSUME NEW linked \in BOOLEAN, Login(linked)!Supported,
         Login(linked)!Cancel PROVE Login(linked)!Supported'
<1> USE DEF Login!Supported
<1>1. Login(linked)!TypeOK'
  BY NoFileInFile DEF Login!Cancel, Login!Cleared, Login!TypeOK, Login!server,
     Login!rooms, Login!agent
<1> QED BY <1>1 DEF Login!Cancel, Login!Attempt, Login!Switching, Login!SwitchIsSound,
   Login!server, Login!rooms, Login!agent

\* Rooms are joined while no step runs.
LEMMA LoginJoin ==
  ASSUME NEW linked \in BOOLEAN, Login(linked)!Supported, NEW r \in LoginRoom,
         Login(linked)!Join(r) PROVE Login(linked)!Supported'
<1> USE DEF Login!Supported
<1>1. /\ member' \in [Login(linked)!Identity -> LoginRoom \cup {Login(linked)!None}]
      /\ selected' \in LoginRoom \cup {Login(linked)!None} /\ loginFaults' \in 0..LoginFaults
  BY DEF Login!Join, Login!Fault, Login!TypeOK, Login!Identity
<1>2. Login(linked)!TypeOK'
  BY <1>1 DEF Login!Join, Login!TypeOK, Login!server, Login!rooms, Login!agent
<1> QED BY <1>2 DEF Login!Join, Login!Attempt, Login!SwitchIsSound, Login!server, Login!rooms,
   Login!agent

\* A membership that ends changes neither what the agent remembers nor what is recorded.
LEMMA LoginRemoved ==
  ASSUME NEW linked \in BOOLEAN, Login(linked)!Supported, NEW i \in Login(linked)!Identity,
         Login(linked)!Removed(i) PROVE Login(linked)!Supported'
<1> USE DEF Login!Supported
<1>1. Login(linked)!TypeOK'
  BY DEF Login!Removed, Login!TypeOK, Login!server, Login!rooms, Login!agent
<1> QED BY <1>1 DEF Login!Removed, Login!Attempt, Login!SwitchIsSound, Login!server,
   Login!rooms, Login!agent

\* A device that is revoked stays so.
LEMMA LoginRevoke ==
  ASSUME NEW linked \in BOOLEAN, Login(linked)!Supported,
         Login(linked)!Revoke PROVE Login(linked)!Supported'
<1> USE DEF Login!Supported
<1>1. Login(linked)!TypeOK'
  BY DEF Login!Revoke, Login!TypeOK, Login!server, Login!rooms, Login!agent
<1> QED BY <1>1 DEF Login!Revoke, Login!Attempt, Login!SwitchIsSound, Login!server, Login!rooms,
   Login!agent

\* The agent notices while no step runs.
LEMMA LoginNotice ==
  ASSUME NEW linked \in BOOLEAN, Login(linked)!Supported,
         Login(linked)!Notice PROVE Login(linked)!Supported'
<1> USE DEF Login!Supported
<1>1. selected' \in LoginRoom \cup {Login(linked)!None}
  BY DEF Login!Notice, Login!TypeOK, Login!Identity
<1>2. Login(linked)!TypeOK'
  BY <1>1 DEF Login!Notice, Login!TypeOK, Login!server, Login!rooms, Login!agent
<1> QED BY <1>2 DEF Login!Notice, Login!Attempt, Login!SwitchIsSound, Login!server, Login!rooms,
   Login!agent

\* The deadline of the leave passes.
LEMMA LoginLate ==
  ASSUME NEW linked \in BOOLEAN, Login(linked)!Supported,
         Login(linked)!Late PROVE Login(linked)!Supported'
<1> USE DEF Login!Supported
<1>1. loginFile' \in Login(linked)!File
  BY DEF Login!Late, Login!TypeOK, Login!File
<1>2. Login(linked)!TypeOK'
  BY <1>1 DEF Login!Late, Login!TypeOK, Login!server, Login!rooms, Login!agent
<1> QED BY <1>2 DEF Login!Late, Login!Attempt, Login!SwitchIsSound, Login!server, Login!rooms,
   Login!agent

\* A crash loses the step but not the file.
LEMMA LoginCrash ==
  ASSUME NEW linked \in BOOLEAN, Login(linked)!Supported,
         Login(linked)!Crash PROVE Login(linked)!Supported'
<1> USE DEF Login!Supported
<1>1. Login(linked)!TypeOK'
  BY DEF Login!Crash, Login!Idle, Login!Fault, Login!TypeOK, Login!Steps, Login!server,
     Login!rooms, Login!agent
<1> QED BY <1>1 DEF Login!Crash, Login!Idle, Login!Attempt, Login!Switching,
   Login!SwitchIsSound, Login!server, Login!rooms, Login!agent

\* The transaction is opened at the server, once.
LEMMA LoginBegin ==
  ASSUME NEW linked \in BOOLEAN, Login(linked)!Supported,
         Login(linked)!Begin PROVE Login(linked)!Supported'
<1> USE DEF Login!Supported
<1>1. tx' \in Login(linked)!Tx /\ (tx' = tx \/ tx'.phase = "pending")
      /\ (tx' # tx => tx.phase = Login(linked)!None)
  BY DEF Login!Begin, Login!Started, Login!TypeOK, Login!Tx, Login!Phases, Login!None
<1>2. loginFile' \in Login(linked)!File
  <2>1. \/ loginFile' \in {loginFile, Login(linked)!NoFile}
        \/ loginFile' = [loginFile EXCEPT !.phase = "waiting", !.attempt = TRUE]
    BY Zenon DEF Login!Begin, Login!Cleared
  <2>2. loginFile \in Login(linked)!File
    BY DEF Login!TypeOK
  <2>3. CASE loginFile' \in {loginFile, Login(linked)!NoFile}
    BY <2>2, <2>3, NoFileInFile
  <2>4. CASE loginFile' = [loginFile EXCEPT !.phase = "waiting", !.attempt = TRUE]
    BY <2>2, <2>4 DEF Login!File
  <2> QED BY <2>1, <2>3, <2>4
<1>4. /\ published' \in BOOLEAN /\ loginFaults' \in 0..LoginFaults
      /\ loginStep' \in Login(linked)!Steps
  <2>1. /\ published' = published \/ published' = TRUE
        /\ loginStep' = "idle"
    BY Zenon DEF Login!Begin, Login!Idle
  <2>2. Login(linked)!Fault \/ UNCHANGED loginFaults
    BY Zenon DEF Login!Begin
  <2>3. loginFaults' \in 0..LoginFaults
    BY <2>2 DEF Login!Fault, Login!TypeOK
  <2>4. published' \in BOOLEAN
    BY <2>1 DEF Login!TypeOK
  <2> QED BY <2>1, <2>3, <2>4 DEF Login!Steps
<1>5. UNCHANGED <<revision, expired, identities, registered, device, Login(linked)!rooms,
                  callback, loginDisk, selected>>
  BY DEF Login!Begin
<1>3. Login(linked)!TypeOK'
  BY <1>1, <1>2, <1>4, <1>5 DEF Login!TypeOK, Login!rooms
<1> QED BY <1>1, <1>3, <1>5 DEF Login!Begin, Login!Idle, Login!Attempt, Login!Switching,
   Login!SwitchIsSound, Login!None, Login!server, Login!rooms, Login!agent

\* A poll tells what has become of the transaction.
LEMMA LoginPoll ==
  ASSUME NEW linked \in BOOLEAN, Login(linked)!Supported,
         Login(linked)!Poll PROVE Login(linked)!Supported'
<1> USE DEF Login!Supported
<1>1. Login(linked)!TypeOK'
  BY DEF Login!Poll, Login!TypeOK, Login!Steps, Login!server, Login!rooms, Login!agent
<1> QED BY <1>1 DEF Login!Poll, Login!Attempt, Login!Switching, Login!SwitchIsSound,
   Login!server, Login!rooms, Login!agent

\* Only a ready transaction is claimed; its key is then authorized.
LEMMA LoginClaim ==
  ASSUME NEW linked \in BOOLEAN, Login(linked)!Supported,
         Login(linked)!Claim PROVE Login(linked)!Supported'
<1> USE DEF Login!Supported
<1>1. /\ tx' \in Login(linked)!Tx /\ (tx' = tx \/ (tx.phase = "ready" /\ tx'.phase = "consumed"))
      /\ loginStep' = "claimed" => tx.phase = "ready"
  BY LoginMoves DEF Login!Claim, Login!Claimed, Login!ClaimAnswer, Login!TypeOK, Login!Phases
<1>2. loginFile' \in Login(linked)!File /\ loginStep' \in {"claimed", "idle", "terminal", "lost"}
  BY NoFileInFile DEF Login!Claim, Login!Cleared, Login!TypeOK
<1>3. Login(linked)!TypeOK'
  BY <1>1, <1>2 DEF Login!Claim, Login!Fault, Login!TypeOK, Login!Steps, Login!server,
     Login!rooms, Login!agent
<1> QED BY <1>1, <1>2, <1>3 DEF Login!Claim, Login!Attempt, Login!Switching,
   Login!SwitchIsSound, Login!server, Login!rooms, Login!agent

\* An attempt whose answer was lost is taken up again when its key is authorized.
LEMMA LoginRecover ==
  ASSUME NEW linked \in BOOLEAN, Login(linked)!Supported,
         Login(linked)!Recover PROVE Login(linked)!Supported'
<1> USE DEF Login!Supported
<1>1. loginFile' \in Login(linked)!File
  BY NoFileInFile DEF Login!Recover, Login!Cleared, Login!TypeOK
<1>2. /\ loginStep' \in {"claimed", "idle"} /\ loginFaults' \in 0..LoginFaults
      /\ loginStep' = "claimed" => device # Login(linked)!None
  BY DEF Login!Recover, Login!Idle, Login!Fault, Login!TypeOK
<1>3. Login(linked)!TypeOK'
  BY <1>1, <1>2 DEF Login!Recover, Login!TypeOK, Login!Steps, Login!server, Login!rooms,
     Login!agent
<1> QED BY <1>2, <1>3 DEF Login!Recover, Login!Attempt, Login!Switching, Login!SwitchIsSound,
   Login!server, Login!rooms, Login!agent

\* A login that has to leave the old room says so in the file first.
LEMMA LoginPrepare ==
  ASSUME NEW linked \in BOOLEAN, Login(linked)!Supported,
         Login(linked)!Prepare PROVE Login(linked)!Supported'
<1> USE DEF Login!Supported
<1>1. loginFile' \in Login(linked)!File
  BY DEF Login!File, Login!Prepare, Login!TypeOK
<1>2. Login(linked)!TypeOK'
  BY <1>1 DEF Login!Prepare, Login!TypeOK, Login!Steps, Login!server, Login!rooms, Login!agent
<1> QED BY <1>2 DEF Login!Prepare, Login!Leaves, Login!Attempt, Login!Switching,
   Login!SwitchIsSound, Login!server, Login!rooms, Login!agent

\* The identity is saved next only when the leave of this room is recorded, or the old
\* device has lost its access.
LEMMA LoginLeave ==
  ASSUME NEW linked \in BOOLEAN, Login(linked)!Supported,
         Login(linked)!Leave PROVE Login(linked)!Supported'
<1> USE DEF Login!Supported
<1>1. /\ loginFile' \in Login(linked)!File /\ loginStep' \in {"persist", "idle"}
      /\ UNCHANGED <<Login(linked)!server, revoked, callback, published, loginDisk, selected>>
  BY DEF Login!File, Login!Leave, Login!Idle, Login!TypeOK
<1>2. Login(linked)!LeaveServed \/ UNCHANGED <<left, member>>
  BY Zenon DEF Login!Leave
<1>3. /\ member' \in [Login(linked)!Identity -> LoginRoom \cup {Login(linked)!None}]
      /\ left' \in [Login(linked)!Identity -> LoginRoom \cup {Login(linked)!None}]
  BY <1>2 DEF Login!LeaveServed, Login!TypeOK, Login!Identity
<1>4. loginFaults' \in 0..LoginFaults
  <2>1. Login(linked)!Fault \/ UNCHANGED loginFaults
    BY Zenon DEF Login!Leave
  <2> QED BY <2>1 DEF Login!Fault, Login!TypeOK, Login!server, Login!rooms, Login!agent
<1>5. ASSUME loginStep' = "persist"
      PROVE  left'[loginDisk] = selected \/ (loginDisk = "old" /\ revoked)
  <2>1. /\ Login(linked)!LeaveServed
        /\ Login(linked)!LeaveAnswer \in {"ok", "auth_device_revoked"}
    BY <1>5, Zenon DEF Login!Leave, Login!Idle
  <2>2. CASE revoked /\ loginDisk = "old" BY <2>2
  <2>3. CASE ~(revoked /\ loginDisk = "old")
    <3>1. /\ Login(linked)!LeaveAnswer = "ok"
          /\ left[loginDisk] = Login(linked)!None \/ left[loginDisk] = selected
      BY <2>1, <2>3 DEF Login!LeaveAnswer
    <3>2. loginDisk \in Login(linked)!Identity
      BY DEF Login!TypeOK, Login!Identity
    <3> QED BY <2>1, <3>1, <3>2 DEF Login!LeaveServed, Login!TypeOK, Login!server, Login!rooms,
       Login!agent
  <2> QED BY <2>2, <2>3
<1>6. Login(linked)!TypeOK'
  BY <1>1, <1>3, <1>4 DEF Login!TypeOK, Login!Steps, Login!server, Login!rooms, Login!agent
<1>7. device # Login(linked)!None
  BY DEF Login!Leave, Login!Attempt, Login!Switching
<1> QED BY <1>1, <1>5, <1>6, <1>7 DEF Login!Attempt, Login!Switching, Login!SwitchIsSound,
   Login!server, Login!rooms, Login!agent

\* The new identity is saved only then.
LEMMA LoginPersist ==
  ASSUME NEW linked \in BOOLEAN, Login(linked)!Supported,
         Login(linked)!Persist PROVE Login(linked)!Supported'
<1> USE DEF Login!Supported
<1>1. Login(linked)!TypeOK'
  BY DEF Login!Persist, Login!Idle, Login!Fault, Login!TypeOK, Login!Steps, Login!server,
     Login!rooms, Login!agent
<1> QED BY <1>1 DEF Login!Persist, Login!Idle, Login!Attempt, Login!Switching,
   Login!SwitchIsSound, Login!server, Login!rooms, Login!agent

\* The file is cleared last.
LEMMA LoginClear ==
  ASSUME NEW linked \in BOOLEAN, Login(linked)!Supported,
         Login(linked)!Clear PROVE Login(linked)!Supported'
<1> USE DEF Login!Supported
<1>1. Login(linked)!TypeOK'
  BY NoFileInFile DEF Login!Clear, Login!Idle, Login!Cleared, Login!TypeOK,
     Login!Steps, Login!server, Login!rooms, Login!agent
<1> QED BY <1>1 DEF Login!Clear, Login!Idle, Login!Attempt, Login!Switching,
   Login!SwitchIsSound, Login!server, Login!rooms, Login!agent

\* Every step of a login or a link keeps the invariant.
LEMMA LoginNext ==
  ASSUME NEW linked \in BOOLEAN, Login(linked)!Supported,
         Login(linked)!Next PROVE Login(linked)!Supported'
BY LoginExpires, LoginSettingsChange, LoginAuthorize, LoginCallback, LoginConfirm,
   LoginExchange, LoginExchangeFails, LoginLogin, LoginCancel, LoginJoin, LoginRemoved,
   LoginRevoke, LoginNotice, LoginLate, LoginCrash,
   LoginBegin, LoginPoll, LoginClaim, LoginRecover, LoginPrepare, LoginLeave, LoginPersist,
   LoginClear DEF Login!Next, Login!Agent

\* So does a step that leaves it alone.
LEMMA LoginStutters ==
  ASSUME NEW linked \in BOOLEAN, Login(linked)!Supported,
         UNCHANGED Login(linked)!vars PROVE Login(linked)!Supported'
BY DEF Login!Supported, Login!TypeOK, Login!Attempt, Login!SwitchIsSound, Login!vars,
   Login!server, Login!rooms, Login!agent

\* No step moves an identity that is bound.
LEMMA LoginBinds ==
  ASSUME NEW linked \in BOOLEAN, Login(linked)!Supported,
         Login(linked)!Next PROVE Login(linked)!BoundStep
<1>1. CASE \E b \in Browser : Login(linked)!Confirm(b)
  <2>1. PICK b \in Browser : Login(linked)!Confirm(b)
    BY <1>1
  <2>2. tx.subject \in Subject
    BY <2>1 DEF Login!Confirm, Login!Supported, Login!Attempt
  <2>3. CASE Login(linked)!Identified(tx.subject) /\ ~Login(linked)!Conflict(tx.subject)
    BY <2>1, <2>2, <2>3 DEF Login!Confirm, Login!Identified, Login!Conflict, Login!UserFor,
       Login!BoundStep, Login!Supported, Login!TypeOK, Login!Attempt
  <2>4. CASE UNCHANGED <<identities, registered, device>>
    BY <2>4 DEF Login!BoundStep
  <2> QED BY <2>1, <2>3, <2>4 DEF Login!Confirm, Login!Identified
<1>2. CASE UNCHANGED <<identities, registered, device>>
  BY <1>2 DEF Login!BoundStep
<1>3. CASE Login(linked)!Agent
  BY <1>2, <1>3 DEF Login!Agent, Login!server, Login!Begin, Login!Poll, Login!Claim,
     Login!Recover, Login!Prepare, Login!Leave, Login!Persist, Login!Clear
<1>4. CASE \/ Login(linked)!Login \/ Login(linked)!Cancel \/ Login(linked)!Crash
           \/ Login(linked)!Late \/ Login(linked)!Revoke \/ Login(linked)!Notice
           \/ \E r \in LoginRoom : Login(linked)!Join(r)
           \/ \E i \in Login(linked)!Identity : Login(linked)!Removed(i)
  BY <1>2, <1>4 DEF Login!server, Login!Login, Login!Cancel, Login!Crash, Login!Late,
     Login!Join, Login!Removed, Login!Revoke, Login!Notice
<1>5. CASE \/ Login(linked)!Expires \/ Login(linked)!SettingsChange
           \/ Login(linked)!ExchangeFails
           \/ \E b \in Browser : Login(linked)!Authorize(b) \/ Login(linked)!Callback(b)
           \/ \E s \in Subject : Login(linked)!Exchange(s)
  <2>1. CASE Login(linked)!Expires \/ Login(linked)!SettingsChange
    BY <1>2, <2>1 DEF Login!Expires, Login!SettingsChange
  <2>2. CASE Login(linked)!ExchangeFails
    BY <1>2, <2>2 DEF Login!ExchangeFails
  <2>3. ASSUME NEW b \in Browser, Login(linked)!Authorize(b) \/ Login(linked)!Callback(b)
        PROVE  Login(linked)!BoundStep
    BY <1>2, <2>3 DEF Login!Authorize, Login!Callback
  <2>4. ASSUME NEW s \in Subject, Login(linked)!Exchange(s)
        PROVE  Login(linked)!BoundStep
    BY <1>2, <2>4 DEF Login!Exchange
  <2> QED BY <1>5, <2>1, <2>2, <2>3, <2>4
<1> QED BY <1>1, <1>3, <1>4, <1>5 DEF Login!Next

\* The properties follow.
LEMMA LoginHolds ==
  ASSUME NEW linked \in BOOLEAN, Login(linked)!Supported PROVE Login(linked)!Inv
BY DEF Login!Supported, Login!Inv

HIDE LoginAssumption

-----------------------------------------------------------------------------
(* The update job.                                                          *)

USE JobAssumption

\* The values at rest are of their types.
LEMMA JobRests ==
  /\ Job!NoJob \in Job!Job /\ Job!NoJob.state = "none"
  /\ Job!FreshUI \in Job!UI /\ Job!FreshUI.state = "idle"
  /\ Job!NoStep \in Job!Step /\ Job!NoStep.at = "none"
  /\ Job!NoUnit \in Job!Unit /\ Job!NoUnit.at = "none"
<1>1. Job!NoJob \in Job!Job /\ Job!NoJob.state = "none"
  BY DEF Job!NoJob, Job!Job, Job!Version
<1>2. Job!FreshUI \in Job!UI /\ Job!FreshUI.state = "idle"
  BY DEF Job!FreshUI, Job!UI, Job!UIState, Job!Version
<1>3. Job!NoStep \in Job!Step /\ Job!NoStep.at = "none"
  BY <1>1, <1>2 DEF Job!NoStep, Job!Step, Job!Version
<1>4. Job!NoUnit \in Job!Unit /\ Job!NoUnit.at = "none"
  BY <1>1 DEF Job!NoUnit, Job!Unit
<1> QED BY <1>1, <1>2, <1>3, <1>4

\* At the start nothing is installed or asked for.
LEMMA JobInit == ASSUME Job!Init PROVE Job!Supported
<1>1. aged \in BOOLEAN /\ queued \in BOOLEAN
  BY DEF Job!Init
<1>2. service \in Job!Service
  BY DEF Job!Init, Job!Service, Job!Version
<1>3. Job!TypeOK
  BY <1>1, <1>2, JobRests DEF Job!Init, Job!TypeOK, Job!Version
<1> QED BY <1>3, JobRests DEF Job!Init, Job!Supported, Job!Inv, Job!OnlyApproved,
  Job!CanRollBack, Job!Pending, Job!Installing

\* A service that goes down keeps its version.
LEMMA ServiceMoves ==
  ASSUME Job!TypeOK
  PROVE  /\ Job!Down \in Job!Service /\ ~Job!Down.up /\ Job!Down.version = service.version
         /\ \A v \in Job!Version, b \in BOOLEAN : [up |-> b, version |-> v] \in Job!Service
BY DEF Job!TypeOK, Job!Down, Job!Service

\* The installer keeps its job as it goes on.
LEMMA UnitMoves ==
  ASSUME NEW u \in Job!Unit,
         NEW at \in {"none", "loaded", "stop", "apt", "ready", "rollback", "restored"}
  PROVE  LET k == [u EXCEPT !.at = at] IN k \in Job!Unit /\ k.at = at /\ k.job = u.job
BY DEF Job!Unit

\* What a service forgets when it stops.
LEMMA ForgetTyped ==
  ASSUME Job!Forget
  PROVE  ui' \in Job!UI /\ requested' \in Job!Version /\ step' \in Job!Step
BY JobRests DEF Job!Forget, Job!Version

\* What the end of an update step leaves behind.
LEMMA EndStepTyped ==
  ASSUME Job!TypeOK, NEW s \in Job!UIState, Job!EndStep(s)
  PROVE  /\ ui' \in Job!UI /\ ui'.state = s /\ requested' \in Job!Version
         /\ step' = Job!NoStep /\ step' \in Job!Step /\ step'.at = "none"
BY JobRests DEF Job!EndStep, Job!TypeOK, Job!Version, Job!UI

\* An update step takes up a stuck job, or looks at what is on offer.
LEMMA JobBegin ==
  ASSUME Job!Supported, Job!Begin PROVE Job!Supported'
<1> USE DEF Job!Supported, Job!Inv
<1>1. /\ service.up /\ step = Job!NoStep
      /\ UNCHANGED <<service, unit, queued, approved, Job!disk, Job!world, Job!counts>>
  BY DEF Job!Begin
<1>2. ASSUME ui' \in Job!UI, requested' \in Job!Version, step' \in Job!Step,
             step'.at \in {"none", "checked"},
             ui'.state = "installing" => job = Job!NoJob \/ job.release \in approved
      PROVE  Job!Supported'
  <2>1. Job!TypeOK'
    BY <1>1, <1>2 DEF Job!TypeOK, Job!disk, Job!world, Job!counts
  <2> QED
    BY <1>1, <1>2, <2>1 DEF Job!OnlyApproved, Job!CanRollBack, Job!Undisturbed, Job!Pending,
       Job!disk
<1>3. CASE Job!IsStuck /\ step' = [Job!NoStep EXCEPT !.at = "recover", !.job = job]
           /\ UNCHANGED <<ui, requested>>
  <2>1. step' \in Job!Step /\ step'.at = "recover" /\ step'.job = job
    BY <1>3, JobRests DEF Job!Step, Job!TypeOK
  <2>2. Job!TypeOK'
    BY <1>1, <1>3, <2>1 DEF Job!TypeOK, Job!disk, Job!world, Job!counts
  <2> QED
    BY <1>1, <1>3, <2>2 DEF Job!IsStuck, Job!OnlyApproved, Job!CanRollBack, Job!Pending,
       Job!Installing, Job!disk
<1>4. CASE job.state = "installing" /\ Job!EndStep("installing")
  BY <1>2, <1>4, EndStepTyped DEF Job!UIState, Job!OnlyApproved
<1>5. CASE job.state # "installing"
  <2> DEFINE known == IF job.state \in Job!Terminal
                      THEN [state |-> job.state, release |-> job.release] ELSE ui
  <2>1. known \in Job!UI /\ (known.state = "installing" => ui.state = "installing")
    BY DEF Job!TypeOK, Job!UI, Job!UIState, Job!Job, Job!Terminal
  <2>2. \/ /\ step' = [Job!NoStep EXCEPT !.at = "checked", !.release = offered, !.before = known]
           /\ ui' = [known EXCEPT !.release = offered] /\ UNCHANGED requested
        \/ /\ ui' = [known EXCEPT !.state = IF @ \in {"succeeded",
                                                      "rolled_back"} THEN @ ELSE "idle"]
           /\ requested' = 0 /\ step' = Job!NoStep
        \/ /\ ui' = [known EXCEPT !.state = "failed"]
           /\ requested' = 0 /\ step' = Job!NoStep
    BY <1>5 DEF Job!Begin
  <2> HIDE DEF known
  <2>3. offered \in Job!Version /\ requested \in Job!Version /\ 0 \in Job!Version
    BY DEF Job!TypeOK, Job!Version
  <2>4. step' \in Job!Step /\ step'.at \in {"none", "checked"} /\ requested' \in Job!Version
    BY <2>1, <2>2, <2>3, JobRests DEF Job!Step
  <2>5. ui' \in Job!UI /\ (ui'.state = "installing" => ui.state = "installing")
    BY <2>1, <2>2, <2>3 DEF Job!UI, Job!UIState, Job!Terminal
  <2> QED BY <1>2, <2>4, <2>5 DEF Job!Pending
<1> QED BY <1>3, <1>4, <1>5 DEF Job!Begin

\* A stuck job becomes ready again: it is still one that somebody asked for.
LEMMA JobRecover ==
  ASSUME Job!Supported, Job!Recover PROVE Job!Supported'
<1> USE DEF Job!Supported, Job!Inv
<1>1. Job!TypeOK'
  BY DEF Job!Recover, Job!TypeOK, Job!Step, Job!Version, Job!Job, Job!UIState, Job!UI,
     Job!NoJob, Job!FreshUI, Job!NoStep, Job!world, Job!counts
<1>2. Job!OnlyApproved'
  BY DEF Job!Recover, Job!OnlyApproved, Job!Pending
<1>3. Job!CanRollBack'
  BY DEF Job!Recover, Job!CanRollBack, Job!Pending
<1>4. Job!Pending'
  BY DEF Job!Recover, Job!NoStep, Job!Pending
<1> QED BY <1>1, <1>2, <1>3, <1>4

\* The step ends, or downloads what was asked for and prunes the cache around it.
LEMMA JobDecide ==
  ASSUME Job!Supported, Job!Decide PROVE Job!Supported'
<1> USE DEF Job!Supported, Job!Inv
<1>1. Job!TypeOK'
  BY DEF Job!Decide, Job!TypeOK, Job!Step, Job!Version, Job!Terminal, Job!Job, Job!UIState,
     Job!UI, Job!NoJob, Job!FreshUI, Job!NoStep, Job!world, Job!counts, Job!EndStep
<1>2. Job!OnlyApproved'
  BY DEF Job!Decide, Job!OnlyApproved
<1>3. Job!CanRollBack'
  BY DEF Job!Decide, Job!Kept, Job!Undisturbed, Job!CanRollBack
<1>4. Job!Pending'
  BY DEF Job!Decide, Job!TypeOK, Job!Step, Job!UI, Job!NoStep, Job!EndStep, Job!Pending
<1> QED BY <1>1, <1>2, <1>3, <1>4

\* The download puts the release into the cache, beside the package of the running
\* service.
LEMMA JobDownload ==
  ASSUME Job!Supported, Job!Download PROVE Job!Supported'
<1> USE DEF Job!Supported, Job!Inv
<1>1. Job!TypeOK'
  BY DEF Job!Download, Job!Downloads, Job!TypeOK, Job!Service, Job!Step, Job!Version,
     Job!Terminal, Job!Job, Job!UIState, Job!UI, Job!NoJob, Job!FreshUI, Job!NoStep, Job!world,
     Job!counts, Job!EndStep
<1>2. Job!OnlyApproved'
  BY DEF Job!Download, Job!OnlyApproved
<1>3. Job!CanRollBack'
  BY DEF Job!Download, Job!Undisturbed, Job!CanRollBack
<1>4. Job!Pending'
  BY DEF Job!Download, Job!TypeOK, Job!Step, Job!UI, Job!NoStep, Job!EndStep, Job!Pending
<1> QED BY <1>1, <1>2, <1>3, <1>4

\* The release must still be on offer when its download has ended.
LEMMA JobRecheck ==
  ASSUME Job!Supported, Job!Recheck PROVE Job!Supported'
<1> USE DEF Job!Supported, Job!Inv
<1>1. Job!TypeOK'
  BY DEF Job!Recheck, Job!TypeOK, Job!Service, Job!Step, Job!Version, Job!Terminal, Job!Job,
     Job!UIState, Job!UI, Job!NoJob, Job!FreshUI, Job!NoStep, Job!world, Job!counts, Job!EndStep
<1>2. Job!OnlyApproved'
  BY DEF Job!Recheck, Job!StillOffered, Job!OnlyApproved, Job!Pending
<1>3. Job!CanRollBack'
  BY DEF Job!Recheck, Job!Undisturbed, Job!CanRollBack, Job!Pending
<1>4. Job!Pending'
  BY DEF Job!Recheck, Job!TypeOK, Job!UI, Job!NoStep, Job!EndStep, Job!Pending
<1> QED BY <1>1, <1>2, <1>3, <1>4

\* The installer starts on the job that it finds.
LEMMA JobStart ==
  ASSUME Job!Supported, Job!Start PROVE Job!Supported'
<1> USE DEF Job!Supported, Job!Inv
<1>1. unit' \in Job!Unit
  BY DEF Job!Start, Job!TypeOK, Job!Unit
<1>2. Job!TypeOK'
  BY <1>1 DEF Job!Start, Job!TypeOK, Job!disk, Job!memory, Job!world, Job!counts
<1>3. Job!OnlyApproved'
  BY DEF Job!Start, Job!disk, Job!OnlyApproved
<1>4. Job!CanRollBack'
  BY DEF Job!Start, Job!disk, Job!Installing, Job!Undisturbed, Job!CanRollBack
<1>5. Job!Pending'
  BY DEF Job!Start, Job!memory, Job!disk, Job!Installing, Job!Pending
<1> QED BY <1>2, <1>3, <1>4, <1>5

\* The installer refuses a job that is not one it may carry out.
LEMMA JobVerify ==
  ASSUME Job!Supported, Job!Verify PROVE Job!Supported'
<1> USE DEF Job!Supported, Job!Inv
<1>1. unit.job \in Job!Job
  BY DEF Job!TypeOK, Job!Unit
<1>2. job' \in Job!Job
  BY <1>1 DEF Job!Verify, Job!SaveOutcome, Job!Job, Job!Terminal
<1>3. unit' \in Job!Unit
  BY <1>1, JobRests DEF Job!Verify, Job!SaveOutcome, Job!Unit, Job!Job
<1>4. aged' \in BOOLEAN
  BY DEF Job!Verify, Job!TypeOK
<1>5. job' \in Job!Job /\ unit' \in Job!Unit /\ aged' \in BOOLEAN
  BY <1>2, <1>3, <1>4
<1>6. Job!TypeOK'
  BY <1>5 DEF Job!Verify, Job!TypeOK, Job!memory, Job!world, Job!counts
<1>7. Job!OnlyApproved'
  BY DEF Job!Verify, Job!TypeOK, Job!Unit, Job!Job, Job!NoUnit, Job!SaveOutcome,
     Job!OnlyApproved
<1>8. Job!CanRollBack'
  BY DEF Job!Verify, Job!Prepared, Job!TypeOK, Job!Unit, Job!Job, Job!NoUnit, Job!SaveOutcome,
     Job!Installing, Job!CanRollBack
<1>9. Job!Pending'
  BY DEF Job!Verify, Job!Prepared, Job!TypeOK, Job!Unit, Job!Job, Job!NoUnit, Job!memory,
     Job!SaveOutcome, Job!Installing, Job!OnlyApproved, Job!Pending
<1> QED BY <1>6, <1>7, <1>8, <1>9

\* The installer stops the service.
LEMMA JobStopService ==
  ASSUME Job!Supported, Job!StopService PROVE Job!Supported'
<1> USE DEF Job!Supported, Job!Inv
<1>1. unit' \in Job!Unit
  BY UnitMoves DEF Job!StopService, Job!TypeOK
<1>2. Job!TypeOK'
  BY <1>1, ForgetTyped, ServiceMoves DEF Job!StopService, Job!TypeOK, Job!disk, Job!world,
     Job!counts
<1>3. Job!OnlyApproved'
  BY DEF Job!StopService, Job!TypeOK, Job!Unit, Job!disk, Job!OnlyApproved
<1>4. Job!CanRollBack'
  BY DEF Job!StopService, Job!TypeOK, Job!Unit, Job!disk, Job!Installing, Job!Undisturbed,
     Job!CanRollBack
<1>5. Job!Pending'
  BY DEF Job!StopService, Job!TypeOK, Job!Unit, Job!FreshUI, Job!NoStep, Job!disk, Job!Forget,
     Job!Installing, Job!Pending
<1> QED BY <1>2, <1>3, <1>4, <1>5

\* apt puts the package into place, or fails.
LEMMA JobApt ==
  ASSUME Job!Supported, Job!Apt PROVE Job!Supported'
<1> USE DEF Job!Supported, Job!Inv
<1>1. unit' \in Job!Unit
  BY UnitMoves DEF Job!Apt, Job!Put, Job!TypeOK
<1>2. Job!TypeOK'
  BY <1>1, ForgetTyped, ServiceMoves DEF Job!Apt, Job!Put, Job!TypeOK, Job!world, Job!counts
<1>3. Job!OnlyApproved'
  BY DEF Job!Apt, Job!TypeOK, Job!Unit, Job!Put, Job!OnlyApproved
<1>4. Job!CanRollBack'
  BY DEF Job!Apt, Job!TypeOK, Job!Unit, Job!Put, Job!Installing, Job!Undisturbed,
     Job!CanRollBack
<1>5. Job!Pending'
  BY DEF Job!Apt, Job!TypeOK, Job!Unit, Job!FreshUI, Job!NoStep, Job!Forget, Job!Put,
     Job!Installing, Job!Pending
<1> QED BY <1>2, <1>3, <1>4, <1>5

\* The new service answers, or the installer goes back.
LEMMA JobWaitReady ==
  ASSUME Job!Supported, Job!WaitReady PROVE Job!Supported'
<1> USE DEF Job!Supported, Job!Inv
<1>1. Job!TypeOK'
  BY DEF Job!WaitReady, Job!TypeOK, Job!Unit, Job!Version, Job!Terminal, Job!Job, Job!NoJob,
     Job!NoUnit, Job!memory, Job!world, Job!counts, Job!SaveOutcome
<1>2. Job!OnlyApproved'
  BY DEF Job!WaitReady, Job!TypeOK, Job!Unit, Job!Job, Job!NoUnit, Job!SaveOutcome,
     Job!OnlyApproved
<1>3. Job!CanRollBack'
  BY DEF Job!WaitReady, Job!TypeOK, Job!Unit, Job!NoUnit, Job!SaveOutcome, Job!Installing,
     Job!Undisturbed, Job!CanRollBack
<1>4. Job!Pending'
  BY DEF Job!WaitReady, Job!TypeOK, Job!Unit, Job!Job, Job!NoUnit, Job!memory, Job!SaveOutcome,
     Job!Installing, Job!OnlyApproved, Job!Pending
<1> QED BY <1>1, <1>2, <1>3, <1>4

\* The old package is put back.
LEMMA JobRollback ==
  ASSUME Job!Supported, Job!Rollback PROVE Job!Supported'
<1> USE DEF Job!Supported, Job!Inv
<1>1. unit.job \in Job!Job
  BY DEF Job!TypeOK, Job!Unit
<1>2. job' \in Job!Job
  BY <1>1 DEF Job!Rollback, Job!SaveOutcome, Job!Terminal, Job!Job, Job!TypeOK
<1>3. unit' \in Job!Unit
  BY JobRests, UnitMoves DEF Job!Rollback, Job!Put, Job!SaveOutcome, Job!TypeOK
<1>4. unit' \in Job!Unit /\ job' \in Job!Job
  BY <1>2, <1>3
<1>5. Job!TypeOK'
  BY <1>4, ForgetTyped, ServiceMoves DEF Job!Rollback, Job!Put, Job!TypeOK, Job!world,
     Job!counts
<1>6. Job!OnlyApproved'
  BY DEF Job!Rollback, Job!TypeOK, Job!Unit, Job!Job, Job!NoUnit, Job!SaveOutcome, Job!Put,
     Job!OnlyApproved
<1>7. Job!CanRollBack'
  BY DEF Job!Rollback, Job!TypeOK, Job!Unit, Job!NoUnit, Job!SaveOutcome, Job!Put,
     Job!Installing, Job!CanRollBack
<1>8. Job!Pending'
  BY DEF Job!Rollback, Job!TypeOK, Job!Unit, Job!Job, Job!FreshUI, Job!NoStep, Job!NoUnit,
     Job!SaveOutcome, Job!Forget, Job!Put, Job!Installing, Job!OnlyApproved, Job!Pending
<1> QED BY <1>5, <1>6, <1>7, <1>8

\* The old service answers, or the rollback has failed.
LEMMA JobWaitRestored ==
  ASSUME Job!Supported, Job!WaitRestored PROVE Job!Supported'
<1> USE DEF Job!Supported, Job!Inv
<1>1. Job!TypeOK'
  BY DEF Job!WaitRestored, Job!TypeOK, Job!Unit, Job!Version, Job!Terminal, Job!Job, Job!NoJob,
     Job!NoUnit, Job!memory, Job!world, Job!counts, Job!SaveOutcome
<1>2. Job!OnlyApproved'
  BY DEF Job!WaitRestored, Job!TypeOK, Job!Unit, Job!Job, Job!NoUnit, Job!SaveOutcome,
     Job!OnlyApproved
<1>3. Job!CanRollBack'
  BY DEF Job!WaitRestored, Job!NoUnit, Job!SaveOutcome, Job!Installing, Job!CanRollBack
<1>4. Job!Pending'
  BY DEF Job!WaitRestored, Job!TypeOK, Job!Unit, Job!Job, Job!NoUnit, Job!memory,
     Job!SaveOutcome, Job!Installing, Job!OnlyApproved, Job!Pending
<1> QED BY <1>1, <1>2, <1>3, <1>4

\* The player asks for a download.
LEMMA JobAskDownload ==
  ASSUME Job!Supported, Job!AskDownload PROVE Job!Supported'
<1> USE DEF Job!Supported, Job!Inv
<1>1. Job!TypeOK'
  BY DEF Job!AskDownload, Job!TypeOK, Job!UIState, Job!UI, Job!disk, Job!world, Job!counts
<1>2. Job!OnlyApproved'
  BY DEF Job!AskDownload, Job!disk, Job!OnlyApproved
<1>3. Job!CanRollBack'
  BY DEF Job!AskDownload, Job!disk, Job!Undisturbed, Job!CanRollBack
<1>4. Job!Pending'
  BY DEF Job!AskDownload, Job!NoStep, Job!Pending
<1> QED BY <1>1, <1>2, <1>3, <1>4

\* The player asks for a check.
LEMMA JobAskCheck ==
  ASSUME Job!Supported, Job!AskCheck PROVE Job!Supported'
<1> USE DEF Job!Supported, Job!Inv
<1>1. Job!TypeOK'
  BY DEF Job!AskCheck, Job!TypeOK, Job!UIState, Job!UI, Job!disk, Job!world, Job!counts
<1>2. Job!OnlyApproved'
  BY DEF Job!AskCheck, Job!disk, Job!OnlyApproved
<1>3. Job!CanRollBack'
  BY DEF Job!AskCheck, Job!disk, Job!Undisturbed, Job!CanRollBack
<1>4. Job!Pending'
  BY DEF Job!AskCheck, Job!disk, Job!Pending
<1> QED BY <1>1, <1>2, <1>3, <1>4

\* The player cancels a download.
LEMMA JobCancel ==
  ASSUME Job!Supported, Job!Cancel PROVE Job!Supported'
<1> USE DEF Job!Supported, Job!Inv
<1>1. Job!TypeOK'
  BY DEF Job!Cancel, Job!TypeOK, Job!Step, Job!Version, Job!Job, Job!UIState, Job!UI, Job!NoJob,
     Job!FreshUI, Job!NoStep, Job!disk, Job!world, Job!counts, Job!EndStep
<1>2. Job!OnlyApproved'
  BY DEF Job!Cancel, Job!disk, Job!OnlyApproved
<1>3. Job!CanRollBack'
  BY DEF Job!Cancel, Job!disk, Job!Undisturbed, Job!CanRollBack
<1>4. Job!Pending'
  BY DEF Job!Cancel, Job!TypeOK, Job!UI, Job!NoStep, Job!disk, Job!EndStep, Job!Pending
<1> QED BY <1>1, <1>2, <1>3, <1>4

\* The installation of what is ready is asked for, or refused.
LEMMA JobAskInstall ==
  ASSUME Job!Supported, Job!AskInstall PROVE Job!Supported'
<1> USE DEF Job!Supported, Job!Inv
<1>1. job' \in Job!Job
  BY DEF Job!AskInstall, Job!TypeOK, Job!Job
<1>2. ui' \in Job!UI
  BY DEF Job!AskInstall, Job!TypeOK, Job!UI, Job!UIState
<1>3. aged' \in BOOLEAN /\ queued' \in BOOLEAN
  BY DEF Job!AskInstall, Job!TypeOK
<1>4. job' \in Job!Job /\ ui' \in Job!UI /\ aged' \in BOOLEAN /\ queued' \in BOOLEAN
  BY <1>1, <1>2, <1>3
<1>5. Job!TypeOK'
  BY <1>4 DEF Job!AskInstall, Job!TypeOK, Job!world, Job!counts
<1>6. Job!OnlyApproved'
  BY DEF Job!AskInstall, Job!TypeOK, Job!Job, Job!OnlyApproved
<1>7. Job!CanRollBack'
  BY DEF Job!AskInstall, Job!TypeOK, Job!Job, Job!Undisturbed, Job!CanRollBack
<1>8. Job!Pending'
  BY DEF Job!AskInstall, Job!TypeOK, Job!Job, Job!OnlyApproved, Job!Pending
<1> QED BY <1>5, <1>6, <1>7, <1>8

\* The player takes that back before the installer has started.
LEMMA JobCancelInstall ==
  ASSUME Job!Supported, Job!CancelInstall PROVE Job!Supported'
<1> USE DEF Job!Supported, Job!Inv
<1>1. Job!TypeOK'
  BY DEF Job!CancelInstall, Job!TypeOK, Job!Job, Job!UIState, Job!UI, Job!world, Job!counts
<1>2. Job!OnlyApproved'
  BY DEF Job!CancelInstall, Job!OnlyApproved, Job!Pending
<1>3. Job!CanRollBack'
  BY DEF Job!CancelInstall, Job!Undisturbed, Job!CanRollBack
<1>4. Job!Pending'
  BY DEF Job!CancelInstall, Job!Pending
<1> QED BY <1>1, <1>2, <1>3, <1>4

\* Another release is offered.
LEMMA JobOffer ==
  ASSUME Job!Supported, Job!Offer PROVE Job!Supported'
<1> USE DEF Job!Supported, Job!Inv
<1>1. Job!TypeOK'
  BY DEF Job!Offer, Job!TypeOK, Job!memory, Job!disk, Job!counts
<1>2. Job!OnlyApproved'
  BY DEF Job!Offer, Job!disk, Job!OnlyApproved
<1>3. Job!CanRollBack'
  BY DEF Job!Offer, Job!disk, Job!Undisturbed, Job!CanRollBack
<1>4. Job!Pending'
  BY DEF Job!Offer, Job!memory, Job!disk, Job!Pending
<1> QED BY <1>1, <1>2, <1>3, <1>4

\* A job grows old.
LEMMA JobAge ==
  ASSUME Job!Supported, Job!Age PROVE Job!Supported'
<1> USE DEF Job!Supported, Job!Inv
<1>1. Job!TypeOK'
  BY DEF Job!Age, Job!TypeOK, Job!memory, Job!world, Job!counts
<1>2. Job!OnlyApproved'
  BY DEF Job!Age, Job!OnlyApproved
<1>3. Job!CanRollBack'
  BY DEF Job!Age, Job!Undisturbed, Job!CanRollBack
<1>4. Job!Pending'
  BY DEF Job!Age, Job!memory, Job!Pending
<1> QED BY <1>1, <1>2, <1>3, <1>4

\* The power fails: the installer and the service are gone.
LEMMA JobPowerFails ==
  ASSUME Job!Supported, Job!PowerFails PROVE Job!Supported'
<1> USE DEF Job!Supported, Job!Inv
<1>1. Job!TypeOK'
  BY JobRests, ForgetTyped, ServiceMoves DEF Job!PowerFails, Job!TypeOK, Job!disk, Job!world
<1>2. Job!OnlyApproved'
  BY DEF Job!PowerFails, Job!NoUnit, Job!disk, Job!OnlyApproved
<1>3. Job!CanRollBack'
  BY DEF Job!PowerFails, Job!NoUnit, Job!Installing, Job!CanRollBack
<1>4. Job!Pending'
  BY DEF Job!PowerFails, Job!FreshUI, Job!NoStep, Job!Forget, Job!Pending
<1> QED BY <1>1, <1>2, <1>3, <1>4

\* The service crashes: its step is gone.
LEMMA JobServiceCrashes ==
  ASSUME Job!Supported, Job!ServiceCrashes PROVE Job!Supported'
<1> USE DEF Job!Supported, Job!Inv
<1>1. Job!TypeOK'
  BY ForgetTyped, ServiceMoves DEF Job!ServiceCrashes, Job!TypeOK, Job!disk, Job!world
<1>2. Job!OnlyApproved'
  BY DEF Job!ServiceCrashes, Job!disk, Job!OnlyApproved
<1>3. Job!CanRollBack'
  BY DEF Job!ServiceCrashes, Job!disk, Job!Undisturbed, Job!CanRollBack
<1>4. Job!Pending'
  BY DEF Job!ServiceCrashes, Job!FreshUI, Job!NoStep, Job!Forget, Job!Pending
<1> QED BY <1>1, <1>2, <1>3, <1>4

\* The service starts with the installed version.
LEMMA JobServiceStarts ==
  ASSUME Job!Supported, Job!ServiceStarts PROVE Job!Supported'
<1> USE DEF Job!Supported, Job!Inv
<1>1. Job!TypeOK'
  BY DEF Job!ServiceStarts, Job!TypeOK, Job!Service, Job!memory, Job!disk, Job!world, Job!counts
<1>2. Job!OnlyApproved'
  BY DEF Job!ServiceStarts, Job!disk, Job!OnlyApproved
<1>3. Job!CanRollBack'
  BY DEF Job!ServiceStarts, Job!disk, Job!Undisturbed, Job!CanRollBack
<1>4. Job!Pending'
  BY DEF Job!ServiceStarts, Job!NoStep, Job!memory, Job!disk, Job!Pending
<1> QED BY <1>1, <1>2, <1>3, <1>4

\* Somebody installs a package by hand.
LEMMA JobInstallByHand ==
  ASSUME Job!Supported, Job!InstallByHand PROVE Job!Supported'
<1> USE DEF Job!Supported, Job!Inv
<1>1. Job!TypeOK'
  BY DEF Job!InstallByHand, Job!TypeOK, Job!Service, Job!Step, Job!Version, Job!Job,
     Job!UIState, Job!UI, Job!NoJob, Job!FreshUI, Job!NoStep, Job!world, Job!Forget
<1>2. Job!OnlyApproved'
  BY DEF Job!InstallByHand, Job!OnlyApproved
<1>3. Job!CanRollBack'
  BY DEF Job!InstallByHand, Job!Undisturbed, Job!CanRollBack
<1>4. Job!Pending'
  BY DEF Job!InstallByHand, Job!FreshUI, Job!NoStep, Job!Forget, Job!Pending
<1> QED BY <1>1, <1>2, <1>3, <1>4

\* Every step of the job keeps the invariant.
LEMMA JobNext ==
  ASSUME Job!Supported, Job!Next PROVE Job!Supported'
BY JobBegin, JobRecover, JobDecide, JobDownload, JobRecheck, JobStart, JobVerify,
   JobStopService, JobApt, JobWaitReady, JobRollback, JobWaitRestored, JobAskDownload,
   JobAskCheck, JobCancel, JobAskInstall, JobCancelInstall, JobOffer, JobAge, JobPowerFails,
   JobServiceCrashes, JobServiceStarts, JobInstallByHand DEF Job!Next, Job!Loop, Job!Installer,
   Job!User, Job!Environment

\* So does a step that leaves it alone.
LEMMA JobStutters ==
  ASSUME Job!Supported, UNCHANGED Job!vars PROVE Job!Supported'
BY DEF Job!Supported, Job!Inv, Job!TypeOK, Job!OnlyApproved, Job!CanRollBack, Job!Undisturbed,
   Job!Pending, Job!vars

\* The properties follow.
LEMMA JobHolds ==
  ASSUME Job!Supported PROVE Job!Inv
BY DEF Job!Supported

HIDE JobAssumption

-----------------------------------------------------------------------------
(* The setup.                                                               *)

USE SetupAssumption

\* An operation that goes on.
Onward(p, at) ==
  /\ p \in Setup!Op /\ p.at = at
  /\ p.what = op.what /\ p.user = op.user /\ p.version = op.version /\ p.purge = op.purge
  /\ p.made = op.made

\* The files in their order.
LEMMA SetupOrder ==
  /\ Len(Setup!Order) = 3
  /\ Setup!File = {"BUILD.txt", "drivers", "nlroom-service.exe"}
  /\ Setup!Order[1] = "BUILD.txt" /\ Setup!Order[2] = "drivers"
     /\ Setup!Order[3] = "nlroom-service.exe"
BY DEF Setup!Order, Setup!File

\* No operation, as a record.
LEMMA SetupRests ==
  /\ Setup!Idle \in Setup!Op /\ Setup!Idle.at = "none" /\ Setup!Idle.what = "none"
     /\ Setup!Idle.next = 0 /\ Setup!Idle.made = 0
  /\ Setup!Idle.user = {} /\ Setup!Idle.version = 0
BY DEF Setup!Idle, Setup!Op, Setup!At

\* An operation that goes on to another place.
LEMMA SetupGoes ==
  ASSUME Setup!TypeOK, NEW at \in Setup!At, op' = [op EXCEPT !.at = at]
  PROVE  Onward(op', at) /\ op'.next = op.next
BY DEF Setup!TypeOK, Setup!Op, Onward

\* An operation that goes on to another place and file.
LEMMA SetupTurns ==
  ASSUME Setup!TypeOK, NEW at \in Setup!At, NEW n \in 0..3,
         op' = [op EXCEPT !.at = at, !.next = n]
  PROVE  Onward(op', at) /\ op'.next = n
BY SetupOrder DEF Setup!TypeOK, Setup!Op, Onward

\* Deleting an adapter changes nobody else's, and not who made it.
LEMMA SetupGone ==
  ASSUME Setup!TypeOK, NEW g \in 1..Len(adapters), adapters' = Setup!Gone(g)
  PROVE  /\ adapters' \in Seq(Setup!AdapterRow) /\ Len(adapters') = Len(adapters)
         /\ \A k \in 1..Len(adapters) : adapters'[k].ours = adapters[k].ours
<1>1. Len(adapters) \in Nat /\ adapters \in [1..Len(adapters) -> Setup!AdapterRow]
      /\ adapters[g] \in Setup!AdapterRow
  BY DEF Setup!TypeOK
<1>2. [adapters[g] EXCEPT !.state = "gone"] \in Setup!AdapterRow
      /\ [adapters[g] EXCEPT !.state = "gone"].ours = adapters[g].ours
  BY <1>1 DEF Setup!AdapterRow
<1> DEFINE row == [adapters[g] EXCEPT !.state = "gone"]
<1>3. adapters' = [adapters EXCEPT ![g] = row]
  BY DEF Setup!Gone
<1>4. adapters \in Seq(Setup!AdapterRow) /\ row \in Setup!AdapterRow
  BY <1>2 DEF Setup!TypeOK
<1> HIDE DEF row
<1>5. adapters' \in Seq(Setup!AdapterRow) /\ Len(adapters') = Len(adapters)
  BY <1>3, <1>4
<1>6. adapters' \in [1..Len(adapters) -> Setup!AdapterRow]
      /\ \A k \in 1..Len(adapters) : adapters'[k] = IF k = g THEN row ELSE adapters[k]
  BY <1>3, <1>4
<1> QED BY <1>2, <1>5, <1>6 DEF row

\* At the start nothing is installed.
LEMMA SetupInit == ASSUME Setup!Init PROVE Setup!Supported
<1>1. Setup!TypeOK
  <2>1. attached \in BOOLEAN
    BY DEF Setup!Init
  <2> QED BY <2>1, SetupRests DEF Setup!Init, Setup!TypeOK
<1> QED BY <1>1, SetupRests DEF Setup!Init, Setup!Supported, Setup!RunsInstalled, Setup!Placed,
  Setup!Owned, Setup!Newest, Setup!Recorded

\* A setup begins only with a version that is not older than BUILD.txt names.
LEMMA SetupBeginSetup ==
  ASSUME Setup!Supported, NEW u \in WindowsUser, NEW v \in Setup!Version,
         Setup!BeginSetup(u,v) PROVE Setup!Supported'
<1> USE DEF Setup!Supported
<1>1. /\ op' \in Setup!Op /\ op'.at = "stop" /\ op'.what = "setup" /\ op'.user = {u}
         /\ op'.version = v
      /\ op.at = "none" /\ op.what = "none"
  <2>1. v \in 0..MaxPackage /\ {u} \in {{}} \cup {{w} : w \in WindowsUser}
    BY DEF Setup!Version
  <2>2. op' = [what |-> "setup", at |-> "stop", user |-> {u}, version |-> v, purge |-> FALSE,
               next |-> 0, made |-> 0]
    BY DEF Setup!BeginSetup, Setup!Setup, Setup!Idle
  <2> QED BY <2>1, <2>2, SetupRests DEF Setup!BeginSetup, Setup!Op, Setup!At
<1>2. Setup!TypeOK'
  BY <1>1 DEF Setup!BeginSetup, Setup!TypeOK
<1>3. Setup!RunsInstalled'
  BY DEF Setup!BeginSetup, Setup!RunsInstalled
<1>4. Setup!Placed'
  BY <1>1 DEF Setup!Placed, Setup!Version
<1>5. Setup!Owned'
  BY <1>1 DEF Setup!BeginSetup, Setup!Owned
<1>6. Setup!Newest'
  BY <1>1 DEF Setup!BeginSetup, Setup!Accepts, Setup!NotOlder, Setup!Newest
<1>7. Setup!Recorded'
  BY <1>1 DEF Setup!BeginSetup, Setup!Recorded
<1> QED BY <1>2, <1>3, <1>4, <1>5, <1>6, <1>7

\* A removal begins.
LEMMA SetupBeginRemove ==
  ASSUME Setup!Supported, NEW purge \in BOOLEAN, Setup!BeginRemove(purge) PROVE Setup!Supported'
<1> USE DEF Setup!Supported
<1>1. /\ op' \in Setup!Op /\ op'.at = "stop" /\ op'.what = "remove"
      /\ op.at = "none" /\ op.what = "none"
  BY SetupRests DEF Setup!BeginRemove, Setup!Removal, Setup!Op, Setup!At
<1>2. Setup!TypeOK'
  BY <1>1 DEF Setup!BeginRemove, Setup!TypeOK
<1>3. Setup!RunsInstalled'
  BY DEF Setup!BeginRemove, Setup!RunsInstalled
<1>4. Setup!Placed'
  BY <1>1 DEF Setup!Placed
<1>5. Setup!Owned'
  BY <1>1 DEF Setup!BeginRemove, Setup!Owned
<1>6. Setup!Newest'
  BY <1>1 DEF Setup!BeginRemove, Setup!Newest
<1>7. Setup!Recorded'
  BY <1>1 DEF Setup!BeginRemove, Setup!Recorded
<1> QED BY <1>2, <1>3, <1>4, <1>5, <1>6, <1>7

\* The new adapter is the setup's own.
LEMMA SetupBeginTap ==
  ASSUME Setup!Supported, NEW u \in WindowsUser, Setup!BeginTap(u) PROVE Setup!Supported'
<1> USE DEF Setup!Supported
<1>1. /\ op' \in Setup!Op /\ op'.at = "record" /\ op'.what = "tap" /\ op'.made = Len(adapters')
      /\ op.at = "none" /\ op.what = "none"
  <2>1. Len(adapters') \in Nat
    BY DEF Setup!AdapterRow
  <2> QED BY <2>1, SetupRests DEF Setup!BeginTap, Setup!Op, Setup!At
<1>2. /\ adapters' \in Seq(Setup!AdapterRow) /\ Len(adapters') >= Len(adapters)
      /\ \A k \in 1..Len(adapters) : adapters'[k].ours = adapters[k].ours
  BY DEF Setup!BeginTap, Setup!TypeOK, Setup!AdapterRow
<1>3. Setup!TypeOK'
  BY <1>1, <1>2, SetupRests, SetupOrder DEF Setup!BeginTap, Setup!Present, Setup!TypeOK,
     Setup!Version, Onward, Setup!Adapter
<1>4. Setup!RunsInstalled'
  BY DEF Setup!BeginTap, Setup!RunsInstalled
<1>5. Setup!Placed'
  BY <1>1 DEF Setup!Placed
<1>6. Setup!Owned'
  BY DEF Setup!BeginTap, Setup!Owned
<1>7. Setup!Newest'
  BY DEF Setup!BeginTap, Setup!Newest
<1>8. Setup!Recorded'
  BY DEF Setup!BeginTap, Setup!TypeOK, Setup!Recorded
<1> QED BY <1>3, <1>4, <1>5, <1>6, <1>7, <1>8

\* No service runs once it is stopped, and none is started before the files are in place.
LEMMA SetupStop ==
  ASSUME Setup!Supported, Setup!Stop PROVE Setup!Supported'
<1> USE DEF Setup!Supported
<1>1. /\ Onward(op', IF op.what = "setup" THEN "copy" ELSE "adapter") /\ op'.next = 1
  <2>1. Setup!TypeOK /\ "copy" \in Setup!At /\ "adapter" \in Setup!At /\ 1 \in 0..3
    BY DEF Setup!At
  <2>2. CASE op.what = "setup"
    <3>1. op' = [op EXCEPT !.at = "copy", !.next = 1]
      BY <2>2 DEF Setup!Stop
    <3>2. Onward(op', "copy") /\ op'.next = 1
      BY <2>1, <3>1, SetupTurns
    <3> QED BY <2>2, <3>2
  <2>3. CASE op.what # "setup"
    <3>1. op' = [op EXCEPT !.at = "adapter", !.next = 1]
      BY <2>3 DEF Setup!Stop
    <3>2. Onward(op', "adapter") /\ op'.next = 1
      BY <2>1, <3>1, SetupTurns
    <3> QED BY <2>3, <3>2
  <2> QED BY <2>2, <2>3
<1>2. Setup!TypeOK'
  BY <1>1, SetupRests DEF Setup!Stop, Setup!TypeOK, Onward
<1>3. Setup!RunsInstalled'
  BY DEF Setup!Stop, Setup!RunsInstalled
<1>4. Setup!Placed'
  BY DEF Setup!Stop, Setup!Placed
<1>5. Setup!Owned'
  BY DEF Setup!Stop, Setup!Owned
<1>6. Setup!Newest'
  BY DEF Setup!Stop, Setup!Newest
<1>7. Setup!Recorded'
  BY DEF Setup!Stop, Setup!Recorded
<1> QED BY <1>2, <1>3, <1>4, <1>5, <1>6, <1>7

\* BUILD.txt is the first file to be replaced: it stays the newest.
LEMMA SetupCopy ==
  ASSUME Setup!Supported, Setup!Copy PROVE Setup!Supported'
<1> USE DEF Setup!Supported
<1>1. /\ op.next \in 1..3
      /\ \/ op.next = 3 /\ Onward(op', "activate") /\ op'.next = 0
         \/ op.next \in 1..2 /\ Onward(op', "copy") /\ op'.next = op.next + 1
  <2>1. op.next \in 1..3
    BY SetupOrder DEF Setup!Copy, Setup!Placed, Setup!TypeOK, Setup!Op
  <2>2. CASE op.next = 3
    BY <2>2, SetupTurns, SetupOrder DEF Setup!Copy, Setup!At
  <2>3. CASE op.next # 3
    <3>1. op.next + 1 \in 0..3 /\ op.next \in 1..2
      BY <2>1, <2>3
    <3>2. op' = [op EXCEPT !.at = "copy", !.next = op.next + 1]
      BY <2>3, SetupOrder DEF Setup!Copy
    <3>3. Setup!TypeOK /\ "copy" \in Setup!At
      BY DEF Setup!At
    <3>4. Onward(op', "copy") /\ op'.next = op.next + 1
      BY <3>1, <3>2, <3>3, SetupTurns
    <3> QED BY <3>1, <3>4
  <2> QED BY <2>2, <2>3
<1>2. Setup!TypeOK'
  <2>1. op.version \in 0..MaxPackage
    BY DEF Setup!TypeOK, Setup!Op
  <2> QED BY <1>1, <2>1 DEF Setup!Copy, Setup!TypeOK, Onward
<1>3. Setup!RunsInstalled'
  BY DEF Setup!Copy, Setup!Placed, Setup!RunsInstalled
<1>4. Setup!Placed'
  BY <1>1, <1>2, SetupRests, SetupOrder DEF Setup!Copy, Setup!NextFile, Setup!TypeOK, Onward,
     Setup!Placed
<1>5. Setup!Owned'
  BY DEF Setup!Copy, Setup!Owned
<1>6. Setup!Newest'
  BY <1>1, <1>2, SetupRests, SetupOrder DEF Setup!Copy, Setup!NextFile, Setup!TypeOK, Onward,
     Setup!Newest, Setup!Placed, Setup!Owned, Setup!Whole, Setup!Version
<1>7. Setup!Recorded'
  BY DEF Setup!Copy, Setup!Recorded
<1> QED BY <1>2, <1>3, <1>4, <1>5, <1>6, <1>7

\* The service starts from the package that is complete.
LEMMA SetupStart ==
  ASSUME Setup!Supported, Setup!Start PROVE Setup!Supported'
<1> USE DEF Setup!Supported
<1>1. op' = Setup!Idle
  BY DEF Setup!Start
<1>2. Setup!TypeOK'
  <2>1. op.version \in 0..MaxPackage
    BY DEF Setup!TypeOK, Setup!Op
  <2> QED BY <2>1, SetupRests DEF Setup!Start, Setup!TypeOK
<1>3. Setup!RunsInstalled'
  BY SetupOrder DEF Setup!Start, Setup!RunsInstalled, Setup!Whole
<1>4. Setup!Placed'
  BY <1>1, SetupRests DEF Setup!Placed
<1>5. Setup!Owned'
  BY SetupRests DEF Setup!Start, Setup!Owned
<1>6. Setup!Newest'
  BY SetupRests DEF Setup!Start, Setup!Newest
<1>7. Setup!Recorded'
  BY SetupRests DEF Setup!Start, Setup!Recorded
<1> QED BY <1>2, <1>3, <1>4, <1>5, <1>6, <1>7

\* A new service gets its owner first.
LEMMA SetupWriteOwner ==
  ASSUME Setup!Supported, Setup!WriteOwner PROVE Setup!Supported'
<1> USE DEF Setup!Supported
<1>1. Onward(op', "install") /\ op'.next = op.next
  BY SetupGoes DEF Setup!WriteOwner, Setup!At
<1>2. op.user \in {{u} : u \in WindowsUser}
  BY DEF Setup!WriteOwner, Setup!Placed, Setup!TypeOK, Setup!Op
<1>3. Setup!TypeOK'
  <2>1. owner' \in {{u} : u \in WindowsUser \cup {nobody}}
    BY <1>2 DEF Setup!WriteOwner
  <2> QED BY <1>1, <2>1 DEF Setup!WriteOwner, Setup!TypeOK, Onward
<1>4. Setup!RunsInstalled'
  BY DEF Setup!WriteOwner, Setup!RunsInstalled
<1>5. Setup!Placed'
  BY DEF Setup!WriteOwner, Setup!Placed
<1>6. Setup!Owned'
  BY <1>2 DEF Setup!WriteOwner, Setup!Owned
<1>7. Setup!Newest'
  BY DEF Setup!WriteOwner, Setup!Newest
<1>8. Setup!Recorded'
  BY DEF Setup!WriteOwner, Setup!Recorded
<1> QED BY <1>3, <1>4, <1>5, <1>6, <1>7, <1>8

\* Writing the owner over begins with an empty file.
LEMMA SetupTruncateOwner ==
  ASSUME Setup!Supported, Setup!TruncateOwner PROVE Setup!Supported'
<1> USE DEF Setup!Supported
<1>1. Onward(op', "rewrite") /\ op'.next = op.next
  BY SetupGoes DEF Setup!TruncateOwner, Setup!At
<1>2. Setup!TypeOK'
  BY <1>1 DEF Setup!TruncateOwner, Setup!TypeOK, Onward
<1>3. Setup!RunsInstalled'
  BY DEF Setup!TruncateOwner, Setup!RunsInstalled
<1>4. Setup!Placed'
  BY DEF Setup!TruncateOwner, Setup!Placed
<1>5. Setup!Owned'
  BY DEF Setup!TruncateOwner, Setup!Owned
<1>6. Setup!Newest'
  BY DEF Setup!TruncateOwner, Setup!Newest
<1>7. Setup!Recorded'
  BY DEF Setup!TruncateOwner, Setup!Recorded
<1> QED BY <1>2, <1>3, <1>4, <1>5, <1>6, <1>7

\* The owner is stored again.
LEMMA SetupRewriteOwner ==
  ASSUME Setup!Supported, Setup!RewriteOwner PROVE Setup!Supported'
<1> USE DEF Setup!Supported
<1>1. Onward(op', "register") /\ op'.next = op.next
  BY SetupGoes DEF Setup!RewriteOwner, Setup!At
<1>2. op.user \in {{u} : u \in WindowsUser}
  BY DEF Setup!RewriteOwner, Setup!Placed, Setup!TypeOK, Setup!Op
<1>3. Setup!TypeOK'
  <2>1. owner' \in {{u} : u \in WindowsUser \cup {nobody}}
    BY <1>2 DEF Setup!RewriteOwner
  <2> QED BY <1>1, <2>1 DEF Setup!RewriteOwner, Setup!TypeOK, Onward
<1>4. Setup!RunsInstalled'
  BY DEF Setup!RewriteOwner, Setup!RunsInstalled
<1>5. Setup!Placed'
  BY DEF Setup!RewriteOwner, Setup!Placed
<1>6. Setup!Owned'
  BY <1>2 DEF Setup!RewriteOwner, Setup!Owned
<1>7. Setup!Newest'
  BY DEF Setup!RewriteOwner, Setup!Newest
<1>8. Setup!Recorded'
  BY DEF Setup!RewriteOwner, Setup!Recorded
<1> QED BY <1>3, <1>4, <1>5, <1>6, <1>7, <1>8

\* The service is registered with an owner and a complete package.
LEMMA SetupRegister ==
  ASSUME Setup!Supported, Setup!Register PROVE Setup!Supported'
<1> USE DEF Setup!Supported
<1>1. Onward(op', "activate") /\ op'.next = op.next
  BY SetupGoes DEF Setup!Register, Setup!At
<1>2. Setup!TypeOK'
  BY <1>1 DEF Setup!Register, Setup!TypeOK, Onward
<1>3. Setup!RunsInstalled'
  BY DEF Setup!Register, Setup!RunsInstalled
<1>4. Setup!Placed'
  BY DEF Setup!Register, Setup!Placed
<1>5. Setup!Owned'
  BY DEF Setup!Register, Setup!Owned, Setup!Placed
<1>6. Setup!Newest'
  BY SetupOrder DEF Setup!Register, Setup!TypeOK, Setup!Newest, Setup!Whole
<1>7. Setup!Recorded'
  BY DEF Setup!Register, Setup!Recorded
<1> QED BY <1>2, <1>3, <1>4, <1>5, <1>6, <1>7

\* The recorded adapter is deleted.
LEMMA SetupRemoveAdapter ==
  ASSUME Setup!Supported, Setup!RemoveAdapter PROVE Setup!Supported'
<1> USE DEF Setup!Supported
<1>1. Onward(op', "unrecord") /\ op'.next = op.next
  BY SetupGoes DEF Setup!RemoveAdapter, Setup!At
<1>2. /\ adapters' \in Seq(Setup!AdapterRow) /\ Len(adapters') >= Len(adapters)
      /\ \A k \in 1..Len(adapters) : adapters'[k].ours = adapters[k].ours
  <2>1. PICK g \in 1..Len(adapters) : adapters' = Setup!Gone(g)
    BY DEF Setup!RemoveAdapter, Setup!Live
  <2> QED BY <2>1, SetupGone
<1>3. Setup!TypeOK'
  <2>1. Len(adapters') = Len(adapters)
    BY SetupGone DEF Setup!RemoveAdapter, Setup!Live
  <2> QED BY <1>1, <1>2, <2>1 DEF Setup!RemoveAdapter, Setup!TypeOK, Onward
<1>4. Setup!RunsInstalled'
  BY DEF Setup!RemoveAdapter, Setup!RunsInstalled
<1>5. Setup!Placed'
  BY DEF Setup!RemoveAdapter, Setup!Placed
<1>6. Setup!Owned'
  BY DEF Setup!RemoveAdapter, Setup!Owned
<1>7. Setup!Newest'
  BY DEF Setup!RemoveAdapter, Setup!Newest
<1>8. Setup!Recorded'
  BY DEF Setup!RemoveAdapter, Setup!Recorded, Setup!Gone
<1> QED BY <1>3, <1>4, <1>5, <1>6, <1>7, <1>8

\* There is no recorded adapter to delete.
LEMMA SetupNoAdapter ==
  ASSUME Setup!Supported, Setup!NoAdapter PROVE Setup!Supported'
<1> USE DEF Setup!Supported
<1>1. Onward(op', "unrecord") /\ op'.next = op.next
  BY SetupGoes DEF Setup!NoAdapter, Setup!At
<1>2. Setup!TypeOK'
  BY <1>1 DEF Setup!NoAdapter, Setup!TypeOK, Onward
<1>3. Setup!RunsInstalled'
  BY DEF Setup!NoAdapter, Setup!RunsInstalled
<1>4. Setup!Placed'
  BY DEF Setup!NoAdapter, Setup!Placed
<1>5. Setup!Owned'
  BY DEF Setup!NoAdapter, Setup!Owned
<1>6. Setup!Newest'
  BY DEF Setup!NoAdapter, Setup!Newest
<1>7. Setup!Recorded'
  BY DEF Setup!NoAdapter, Setup!Recorded
<1> QED BY <1>2, <1>3, <1>4, <1>5, <1>6, <1>7

\* The record goes after the adapter.
LEMMA SetupDropRecord ==
  ASSUME Setup!Supported, Setup!DropRecord PROVE Setup!Supported'
<1> USE DEF Setup!Supported
<1>1. \/ op' = Setup!Idle /\ op.what = "tap"
      \/ op.what # "tap" /\ Onward(op', "unregister") /\ op'.next = op.next
  BY SetupGoes DEF Setup!DropRecord, Setup!At
<1>2. Setup!TypeOK'
  BY <1>1, SetupRests DEF Setup!DropRecord, Setup!TypeOK, Onward
<1>3. Setup!RunsInstalled'
  BY DEF Setup!DropRecord, Setup!RunsInstalled
<1>4. Setup!Placed'
  BY SetupRests DEF Setup!DropRecord, Setup!Placed
<1>5. Setup!Owned'
  BY SetupRests DEF Setup!DropRecord, Setup!Owned
<1>6. Setup!Newest'
  BY SetupRests DEF Setup!DropRecord, Setup!Newest
<1>7. Setup!Recorded'
  BY SetupRests DEF Setup!DropRecord, Setup!Recorded
<1> QED BY <1>2, <1>3, <1>4, <1>5, <1>6, <1>7

\* The service is gone before its owner and its files.
LEMMA SetupUnregister ==
  ASSUME Setup!Supported, Setup!Unregister PROVE Setup!Supported'
<1> USE DEF Setup!Supported
<1>1. Onward(op', IF op.purge THEN "purge" ELSE "delete") /\ op'.next = op.next
  BY SetupGoes DEF Setup!Unregister, Setup!OwnerReadable, Setup!Owned, Setup!At
<1>2. Setup!TypeOK'
  BY <1>1 DEF Setup!Unregister, Setup!TypeOK, Onward
<1>3. Setup!RunsInstalled'
  BY DEF Setup!Unregister, Setup!Placed, Setup!RunsInstalled
<1>4. Setup!Placed'
  BY SetupRests DEF Setup!Unregister, Setup!Placed
<1>5. Setup!Owned'
  BY SetupRests DEF Setup!Unregister, Setup!Owned
<1>6. Setup!Newest'
  BY SetupRests DEF Setup!Unregister, Setup!Newest
<1>7. Setup!Recorded'
  BY SetupRests DEF Setup!Unregister, Setup!Recorded
<1> QED BY <1>2, <1>3, <1>4, <1>5, <1>6, <1>7

\* The owner is cleared once the service is unregistered.
LEMMA SetupPurge ==
  ASSUME Setup!Supported, Setup!Purge PROVE Setup!Supported'
<1> USE DEF Setup!Supported
<1>1. Onward(op', "delete") /\ op'.next = op.next
  BY SetupGoes DEF Setup!Purge, Setup!At
<1>2. Setup!TypeOK'
  BY <1>1 DEF Setup!Purge, Setup!TypeOK, Onward
<1>3. Setup!RunsInstalled'
  BY DEF Setup!Purge, Setup!RunsInstalled
<1>4. Setup!Placed'
  BY DEF Setup!Purge, Setup!Placed
<1>5. Setup!Owned'
  BY DEF Setup!Purge, Setup!Owned
<1>6. Setup!Newest'
  BY DEF Setup!Purge, Setup!Newest
<1>7. Setup!Recorded'
  BY DEF Setup!Purge, Setup!Recorded
<1> QED BY <1>2, <1>3, <1>4, <1>5, <1>6, <1>7

\* The files go one by one, with no service registered.
LEMMA SetupDelete ==
  ASSUME Setup!Supported, Setup!Delete PROVE Setup!Supported'
<1> USE DEF Setup!Supported
<1>1. /\ op.next \in 1..3
      /\ \/ op' = Setup!Idle
         \/ Onward(op', "delete") /\ op'.next = op.next + 1
  <2>1. op.next \in 1..3
    BY SetupOrder DEF Setup!Delete, Setup!Placed, Setup!TypeOK, Setup!Op
  <2>2. CASE op.next = 3
    BY <2>2, SetupOrder DEF Setup!Delete
  <2>3. CASE op.next # 3
    <3>1. op.next + 1 \in 0..3
      BY <2>1, <2>3
    <3>2. op' = [op EXCEPT !.at = "delete", !.next = op.next + 1]
      BY <2>3, SetupOrder DEF Setup!Delete
    <3>3. Setup!TypeOK /\ "delete" \in Setup!At
      BY DEF Setup!At
    <3>4. Onward(op', "delete") /\ op'.next = op.next + 1
      BY <3>1, <3>2, <3>3, SetupTurns
    <3> QED BY <2>1, <3>4
  <2> QED BY <2>2, <2>3
<1>2. Setup!TypeOK'
  <2>1. files' \in [Setup!File -> 0..MaxPackage]
    <3>1. files \in [Setup!File -> 0..MaxPackage] /\ 0 \in 0..MaxPackage
      BY SetupAssumption DEF Setup!TypeOK
    <3>2. files' = [files EXCEPT ![Setup!NextFile] = 0]
      BY DEF Setup!Delete
    <3> QED BY <3>1, <3>2
  <2>2. op' \in Setup!Op
    BY <1>1, SetupRests DEF Onward
  <2>3. UNCHANGED <<attached, running, owner, adapters, record, setupFaults>>
    BY DEF Setup!Delete
  <2> QED BY <2>1, <2>2, <2>3 DEF Setup!TypeOK
<1>3. Setup!RunsInstalled'
  BY DEF Setup!Delete, Setup!Placed, Setup!RunsInstalled
<1>4. Setup!Placed'
  BY <1>1, <1>2, SetupRests, SetupOrder DEF Setup!Delete, Setup!NextFile, Setup!TypeOK, Onward,
     Setup!Placed
<1>5. Setup!Owned'
  BY SetupRests DEF Setup!Delete, Setup!Owned
<1>6. Setup!Newest'
  BY SetupRests DEF Setup!Delete, Setup!Newest, Setup!Owned
<1>7. Setup!Recorded'
  BY SetupRests DEF Setup!Delete, Setup!Recorded
<1> QED BY <1>2, <1>3, <1>4, <1>5, <1>6, <1>7

\* The setup records the adapter it has just made.
LEMMA SetupRecordAdapter ==
  ASSUME Setup!Supported, Setup!RecordAdapter PROVE Setup!Supported'
<1> USE DEF Setup!Supported
<1>1. Onward(op', "wait") /\ op'.next = op.next
  BY SetupGoes DEF Setup!RecordAdapter, Setup!At
<1>2. Setup!TypeOK'
  <2>1. op.made \in 1..Len(adapters)
    BY DEF Setup!RecordAdapter, Setup!Recorded
  <2>2. record' \in {{h} : h \in 1..Len(adapters)}
    BY <2>1 DEF Setup!RecordAdapter
  <2> QED BY <1>1, <2>2 DEF Setup!RecordAdapter, Setup!TypeOK, Onward
<1>3. Setup!RunsInstalled'
  BY DEF Setup!RecordAdapter, Setup!RunsInstalled
<1>4. Setup!Placed'
  BY DEF Setup!RecordAdapter, Setup!Placed
<1>5. Setup!Owned'
  BY DEF Setup!RecordAdapter, Setup!Owned
<1>6. Setup!Newest'
  BY DEF Setup!RecordAdapter, Setup!Newest
<1>7. Setup!Recorded'
  BY DEF Setup!RecordAdapter, Setup!Recorded
<1> QED BY <1>2, <1>3, <1>4, <1>5, <1>6, <1>7

\* The adapter is ready.
LEMMA SetupReady ==
  ASSUME Setup!Supported, Setup!Ready PROVE Setup!Supported'
<1> USE DEF Setup!Supported
<1>1. op' = Setup!Idle
  BY DEF Setup!Ready
<1>2. Setup!TypeOK'
  BY SetupRests DEF Setup!Ready, Setup!TypeOK
<1>3. Setup!RunsInstalled'
  BY DEF Setup!Ready, Setup!RunsInstalled
<1>4. Setup!Placed'
  BY <1>1, SetupRests DEF Setup!Placed
<1>5. Setup!Owned'
  BY SetupRests DEF Setup!Ready, Setup!Owned
<1>6. Setup!Newest'
  BY SetupRests DEF Setup!Ready, Setup!Newest
<1>7. Setup!Recorded'
  BY SetupRests DEF Setup!Ready, Setup!Recorded
<1> QED BY <1>2, <1>3, <1>4, <1>5, <1>6, <1>7

\* An adapter that does not become ready is deleted again.
LEMMA SetupNotReady ==
  ASSUME Setup!Supported, Setup!NotReady PROVE Setup!Supported'
<1> USE DEF Setup!Supported
<1>1. Onward(op', "unrecord") /\ op'.next = op.next
  BY SetupGoes DEF Setup!NotReady, Setup!At
<1>2. /\ adapters' \in Seq(Setup!AdapterRow) /\ Len(adapters') >= Len(adapters)
      /\ \A k \in 1..Len(adapters) : adapters'[k].ours = adapters[k].ours
  BY SetupGone DEF Setup!NotReady, Setup!Recorded
<1>3. Setup!TypeOK'
  BY <1>1, <1>2, SetupRests, SetupOrder DEF Setup!NotReady, Setup!TypeOK, Setup!Version, Onward,
     Setup!Adapter
<1>4. Setup!RunsInstalled'
  BY DEF Setup!NotReady, Setup!RunsInstalled
<1>5. Setup!Placed'
  <2>1. op'.what = "tap" /\ op'.at = "unrecord"
    BY DEF Setup!NotReady, Setup!Recorded
  <2> QED BY <2>1 DEF Setup!Placed
<1>6. Setup!Owned'
  BY DEF Setup!NotReady, Setup!Owned
<1>7. Setup!Newest'
  BY DEF Setup!NotReady, Setup!Newest
<1>8. Setup!Recorded'
  BY <1>1, <1>2, <1>3, SetupRests DEF Setup!NotReady, Setup!TypeOK, Onward, Setup!Recorded,
     Setup!Placed, Setup!Live, Setup!Gone, Setup!AdapterRow
<1> QED BY <1>3, <1>4, <1>5, <1>6, <1>7, <1>8

\* A failure ends the operation where it stands, never inside the owner's file.
LEMMA SetupFails ==
  ASSUME Setup!Supported, Setup!Fails PROVE Setup!Supported'
<1> USE DEF Setup!Supported
<1>1. op' = Setup!Idle
  BY DEF Setup!Fails
<1>2. /\ adapters' \in Seq(Setup!AdapterRow) /\ Len(adapters') >= Len(adapters)
      /\ \A k \in 1..Len(adapters) : adapters'[k].ours = adapters[k].ours
  <2>1. CASE op.at = "record"
    BY <2>1, SetupGone DEF Setup!Fails, Setup!Recorded
  <2>2. CASE op.at # "record"
    BY <2>2 DEF Setup!Fails, Setup!TypeOK
  <2> QED BY <2>1, <2>2
<1>3. Setup!TypeOK'
  BY <1>2, SetupRests DEF Setup!Fails, Setup!TypeOK
<1>4. Setup!RunsInstalled'
  BY DEF Setup!Fails, Setup!RunsInstalled
<1>5. Setup!Placed'
  BY <1>1, SetupRests DEF Setup!Placed
<1>6. Setup!Owned'
  BY SetupRests DEF Setup!Fails, Setup!Torn, Setup!Owned
<1>7. Setup!Newest'
  BY SetupRests DEF Setup!Fails, Setup!Newest
<1>8. Setup!Recorded'
  BY SetupRests DEF Setup!Fails, Setup!Recorded, Setup!Gone
<1> QED BY <1>3, <1>4, <1>5, <1>6, <1>7, <1>8

\* A refusal ends the removal before it has changed anything.
LEMMA SetupRefuses ==
  ASSUME Setup!Supported, Setup!Refuses PROVE Setup!Supported'
<1> USE DEF Setup!Supported
<1>1. op' = Setup!Idle
  BY DEF Setup!Refuses
<1>2. Setup!TypeOK'
  BY SetupRests DEF Setup!Refuses, Setup!TypeOK
<1>3. Setup!RunsInstalled'
  BY DEF Setup!Refuses, Setup!RunsInstalled
<1>4. Setup!Placed'
  BY <1>1, SetupRests DEF Setup!Placed
<1>5. Setup!Owned'
  BY SetupRests DEF Setup!Refuses, Setup!Owned
<1>6. Setup!Newest'
  BY SetupRests DEF Setup!Refuses, Setup!Newest
<1>7. Setup!Recorded'
  BY SetupRests DEF Setup!Refuses, Setup!Recorded
<1> QED BY <1>2, <1>3, <1>4, <1>5, <1>6, <1>7

\* After a loss of power a registered service runs what is installed.
LEMMA SetupPowerFails ==
  ASSUME Setup!Supported, Setup!PowerFails PROVE Setup!Supported'
<1> USE DEF Setup!Supported
<1>1. op' = Setup!Idle
  BY DEF Setup!PowerFails
<1>2. Setup!TypeOK'
  BY SetupRests, SetupOrder DEF Setup!PowerFails, Setup!TypeOK
<1>3. Setup!RunsInstalled'
  BY DEF Setup!PowerFails, Setup!RunsInstalled
<1>4. Setup!Placed'
  BY <1>1, SetupRests DEF Setup!Placed
<1>5. Setup!Owned'
  BY SetupRests DEF Setup!PowerFails, Setup!Torn, Setup!Owned
<1>6. Setup!Newest'
  BY SetupRests DEF Setup!PowerFails, Setup!Newest
<1>7. Setup!Recorded'
  BY SetupRests DEF Setup!PowerFails, Setup!Recorded
<1> QED BY <1>2, <1>3, <1>4, <1>5, <1>6, <1>7

\* The user creates an adapter, which is nobody's record.
LEMMA SetupUserCreates ==
  ASSUME Setup!Supported, Setup!UserCreates PROVE Setup!Supported'
<1> USE DEF Setup!Supported
<1>1. /\ adapters' \in Seq(Setup!AdapterRow) /\ Len(adapters') >= Len(adapters)
      /\ \A k \in 1..Len(adapters) : adapters'[k].ours = adapters[k].ours
  BY DEF Setup!UserCreates, Setup!TypeOK, Setup!AdapterRow
<1>2. Setup!TypeOK'
  <2>1. record \in {{}} \cup {{g} : g \in 1..Len(adapters')}
    BY <1>1 DEF Setup!TypeOK
  <2> QED BY <1>1, <2>1 DEF Setup!UserCreates, Setup!TypeOK
<1>3. Setup!RunsInstalled'
  BY DEF Setup!UserCreates, Setup!RunsInstalled
<1>4. Setup!Placed'
  BY DEF Setup!UserCreates, Setup!Placed
<1>5. Setup!Owned'
  BY DEF Setup!UserCreates, Setup!Owned
<1>6. Setup!Newest'
  BY DEF Setup!UserCreates, Setup!Newest
<1>7. Setup!Recorded'
  BY DEF Setup!UserCreates, Setup!TypeOK, Setup!Recorded
<1> QED BY <1>2, <1>3, <1>4, <1>5, <1>6, <1>7

\* The user renames an adapter.
LEMMA SetupUserRenames ==
  ASSUME Setup!Supported, NEW g \in Setup!Adapter, Setup!UserRenames(g) PROVE Setup!Supported'
<1> USE DEF Setup!Supported
<1>1. /\ adapters' \in Seq(Setup!AdapterRow) /\ Len(adapters') >= Len(adapters)
      /\ \A k \in 1..Len(adapters) : adapters'[k].ours = adapters[k].ours
  <2> DEFINE row == [adapters[g] EXCEPT !.named = ~@]
  <2>1. adapters \in Seq(Setup!AdapterRow) /\ g \in 1..Len(adapters)
        /\ adapters \in [1..Len(adapters) -> Setup!AdapterRow]
    BY DEF Setup!TypeOK, Setup!UserRenames, Setup!Live
  <2>2. row \in Setup!AdapterRow /\ row.ours = adapters[g].ours
    BY <2>1 DEF Setup!AdapterRow
  <2>3. adapters' = [adapters EXCEPT ![g] = row]
    BY DEF Setup!UserRenames
  <2> HIDE DEF row
  <2>4. adapters' \in Seq(Setup!AdapterRow) /\ Len(adapters') = Len(adapters)
    BY <2>1, <2>2, <2>3
  <2>5. \A k \in 1..Len(adapters) : adapters'[k] = IF k = g THEN row ELSE adapters[k]
    BY <2>3
  <2> QED BY <2>2, <2>4, <2>5
<1>2. Setup!TypeOK'
  BY <1>1, SetupRests, SetupOrder DEF Setup!UserRenames, Setup!Present, Setup!TypeOK,
     Setup!Version, Onward, Setup!Adapter
<1>3. Setup!RunsInstalled'
  BY DEF Setup!UserRenames, Setup!RunsInstalled
<1>4. Setup!Placed'
  BY DEF Setup!UserRenames, Setup!Placed
<1>5. Setup!Owned'
  BY DEF Setup!UserRenames, Setup!Owned
<1>6. Setup!Newest'
  BY DEF Setup!UserRenames, Setup!Newest
<1>7. Setup!Recorded'
  BY DEF Setup!UserRenames, Setup!Recorded
<1> QED BY <1>2, <1>3, <1>4, <1>5, <1>6, <1>7

\* The user deletes an adapter.
LEMMA SetupUserDeletes ==
  ASSUME Setup!Supported, NEW g \in Setup!Adapter, Setup!UserDeletes(g) PROVE Setup!Supported'
<1> USE DEF Setup!Supported
<1>1. /\ adapters' \in Seq(Setup!AdapterRow) /\ Len(adapters') >= Len(adapters)
      /\ \A k \in 1..Len(adapters) : adapters'[k].ours = adapters[k].ours
  BY SetupGone DEF Setup!UserDeletes, Setup!Live
<1>2. Setup!TypeOK'
  <2>1. UNCHANGED <<files, attached, running, owner, record, op, setupFaults>>
    BY DEF Setup!UserDeletes
  <2>2. record' \in {{}} \cup {{k} : k \in 1..Len(adapters')}
    <3>1. record \in {{}} \cup {{k} : k \in 1..Len(adapters)}
      BY DEF Setup!TypeOK
    <3>2. Len(adapters) \in Nat /\ Len(adapters') \in Nat
      BY <1>1 DEF Setup!TypeOK
    <3> QED BY <1>1, <2>1, <3>1, <3>2
  <2> QED BY <1>1, <2>1, <2>2 DEF Setup!TypeOK
<1>3. Setup!RunsInstalled'
  BY DEF Setup!UserDeletes, Setup!RunsInstalled
<1>4. Setup!Placed'
  BY DEF Setup!UserDeletes, Setup!Placed
<1>5. Setup!Owned'
  BY DEF Setup!UserDeletes, Setup!Owned
<1>6. Setup!Newest'
  BY DEF Setup!UserDeletes, Setup!Newest
<1>7. Setup!Recorded'
  BY <1>1, <1>2, SetupRests DEF Setup!UserDeletes, Setup!TypeOK, Setup!Recorded
<1> QED BY <1>2, <1>3, <1>4, <1>5, <1>6, <1>7

\* Every step of the helper, and of the user, keeps the invariant.
LEMMA SetupNext == ASSUME Setup!Supported, Setup!Next PROVE Setup!Supported'
<1>1. CASE \E u \in WindowsUser, v \in Setup!Version : Setup!BeginSetup(u, v)
  BY <1>1, SetupBeginSetup
<1>2. CASE \E purge \in BOOLEAN : Setup!BeginRemove(purge)
  BY <1>2, SetupBeginRemove
<1>3. CASE \E u \in WindowsUser : Setup!BeginTap(u)
  BY <1>3, SetupBeginTap
<1>4. CASE Setup!Stop \/ Setup!Copy \/ Setup!Start \/ Setup!WriteOwner \/ Setup!TruncateOwner
           \/ Setup!RewriteOwner \/ Setup!Register
  BY <1>4, SetupStop, SetupCopy, SetupStart, SetupWriteOwner, SetupTruncateOwner,
     SetupRewriteOwner, SetupRegister
<1>5. CASE Setup!RemoveAdapter \/ Setup!NoAdapter \/ Setup!DropRecord \/ Setup!Unregister
           \/ Setup!Purge \/ Setup!Delete
  BY <1>5, SetupRemoveAdapter, SetupNoAdapter, SetupDropRecord, SetupUnregister, SetupPurge,
     SetupDelete
<1>6. CASE Setup!RecordAdapter \/ Setup!Ready \/ Setup!NotReady \/ Setup!Fails
           \/ Setup!Refuses \/ Setup!PowerFails \/ Setup!UserCreates
  BY <1>6, SetupRecordAdapter, SetupReady, SetupNotReady, SetupFails, SetupRefuses,
     SetupPowerFails, SetupUserCreates
<1>7. CASE \E g \in Setup!Adapter : Setup!UserRenames(g) \/ Setup!UserDeletes(g)
  BY <1>7, SetupUserRenames, SetupUserDeletes
<1> QED BY <1>1, <1>2, <1>3, <1>4, <1>5, <1>6, <1>7 DEF Setup!Next

\* So does a step that leaves the installation alone.
LEMMA SetupStutters == ASSUME Setup!Supported, UNCHANGED Setup!vars PROVE Setup!Supported'
BY DEF Setup!vars, Setup!Supported, Setup!TypeOK, Setup!RunsInstalled, Setup!Placed,
   Setup!Owned, Setup!Newest, Setup!Recorded

\* The properties follow: the owner is readable whenever no operation is under way, so his
\* setup is accepted.
LEMMA SetupRepairs == ASSUME Setup!Supported PROVE Setup!Inv
<1> USE DEF Setup!Supported
<1>1. SUFFICES ASSUME op = Setup!Idle, NEW v \in Setup!Version,
                      \A f \in Setup!File : files[f] <= v
               PROVE  \E u \in WindowsUser : Setup!Accepts(u, v)
  BY DEF Setup!Inv, Setup!Repairable
<1>2. owner \in {{}} \cup {{u} : u \in WindowsUser} /\ (attached => owner # {})
  BY <1>1, SetupRests DEF Setup!TypeOK, Setup!Owned
<1>3. files["BUILD.txt"] <= v
  BY <1>1, SetupOrder
<1> QED BY <1>2, <1>3 DEF Setup!Accepts, Setup!NotOlder

\* No step replaces a file of a registered installation by an older one.
LEMMA SetupOlder ==
  ASSUME Setup!Supported, Setup!Next, attached, NEW f \in Setup!File,
         files'[f] # 0 PROVE files'[f] >= files[f]
<1> USE DEF Setup!Supported
<1>1. files \in [Setup!File -> 0..MaxPackage] /\ files[f] \in 0..MaxPackage
  BY DEF Setup!TypeOK
<1>2. CASE files' = files
  BY <1>1, <1>2
<1>3. CASE Setup!Copy
  <2>1. op.version \in 0..MaxPackage /\ op.what = "setup"
    BY <1>3 DEF Setup!TypeOK, Setup!Op, Setup!Copy, Setup!Placed
  <2>2. files[f] <= files["BUILD.txt"] /\ files["BUILD.txt"] <= op.version
        /\ files["BUILD.txt"] \in 0..MaxPackage
    BY <2>1, SetupOrder DEF Setup!Newest, Setup!TypeOK
  <2>3. files'[f] = op.version \/ files'[f] = files[f]
    BY <1>3 DEF Setup!Copy
  <2> QED BY <1>1, <2>1, <2>2, <2>3
<1>4. CASE Setup!Delete
  BY <1>4 DEF Setup!Delete, Setup!Owned
<1> QED
  BY <1>2, <1>3, <1>4 DEF Setup!Next, Setup!BeginSetup, Setup!BeginRemove, Setup!BeginTap,
     Setup!Stop, Setup!Start, Setup!WriteOwner, Setup!TruncateOwner, Setup!RewriteOwner,
     Setup!Register, Setup!RemoveAdapter, Setup!NoAdapter, Setup!DropRecord, Setup!Unregister,
     Setup!Purge, Setup!RecordAdapter, Setup!Ready, Setup!NotReady, Setup!Fails, Setup!Refuses,
     Setup!PowerFails, Setup!UserCreates, Setup!UserRenames, Setup!UserDeletes

\* No step of the helper deletes an adapter that it has not made.
LEMMA SetupOwn ==
  ASSUME Setup!Supported, Setup!Next, NEW g \in 1..Len(adapters), Setup!Live(adapters, g),
         ~Setup!Live(adapters', g), op' # op
  PROVE  adapters[g].ours
<1> USE DEF Setup!Supported
<1>1. ASSUME NEW h \in 1..Len(adapters), adapters' = Setup!Gone(h) PROVE g = h
  BY <1>1 DEF Setup!Gone, Setup!Live
<1>2. CASE \E u \in WindowsUser : Setup!BeginTap(u)
  BY <1>2 DEF Setup!BeginTap, Setup!Live
<1>3. CASE Setup!RemoveAdapter
  <2>1. PICK h \in record : adapters' = Setup!Gone(h) /\ h \in 1..Len(adapters)
    BY <1>3 DEF Setup!RemoveAdapter, Setup!Removes, Setup!Live
  <2> QED BY <1>1, <2>1 DEF Setup!Recorded
<1>4. CASE Setup!NotReady
  BY <1>1, <1>4 DEF Setup!NotReady, Setup!Recorded
<1>5. CASE Setup!Fails
  BY <1>1, <1>5 DEF Setup!Fails, Setup!Recorded
<1> QED
  BY <1>2, <1>3, <1>4, <1>5 DEF Setup!Next, Setup!BeginSetup, Setup!BeginRemove, Setup!Stop,
     Setup!Copy, Setup!Start, Setup!WriteOwner, Setup!TruncateOwner, Setup!RewriteOwner,
     Setup!Register, Setup!NoAdapter, Setup!DropRecord, Setup!Unregister, Setup!Purge,
     Setup!Delete, Setup!RecordAdapter, Setup!Ready, Setup!Refuses, Setup!PowerFails,
     Setup!UserCreates, Setup!UserRenames, Setup!UserDeletes

HIDE SetupAssumption

-----------------------------------------------------------------------------
(* Side by side: a step is one of a single component.                       *)

\* What each component's properties rest on.
Supports ==
  /\ Net!Supported /\ Job!Supported /\ Setup!Supported
  /\ IF part = "link" THEN Login(TRUE)!Supported ELSE Login(FALSE)!Supported

\* Nothing of a component moves.
StillNetwork == UNCHANGED networkVars
StillLogin == UNCHANGED <<part, loginVars>>
StillJob == UNCHANGED jobVars
StillSetup == UNCHANGED setupVars

\* A step of the composition is a step of one component, or leaves it alone.
LEMMA OneComponent ==
  ASSUME [PartsNext]_all
  PROVE  /\ StillNetwork \/ Net!Next
         /\ StillLogin
            \/ (part' = part /\ IF part = "link" THEN Login(TRUE)!Next ELSE Login(FALSE)!Next)
         /\ StillJob \/ Job!Next
         /\ StillSetup \/ Setup!Next
<1> USE DEF StillNetwork, StillLogin, StillJob, StillSetup
<1>1. CASE UNCHANGED all
  BY <1>1 DEF all
<1>2. CASE InWrites(Next)
  BY <1>2 DEF InWrites
<1>3. CASE InLedger(Ledger!Next)
  BY <1>3 DEF InLedger
<1>4. CASE InNetwork(Net!Next)
  BY <1>4 DEF InNetwork
<1>5. CASE InLogin("login", Login(FALSE)!Next)
  BY <1>5 DEF InLogin
<1>6. CASE InLogin("link", Login(TRUE)!Next)
  BY <1>6 DEF InLogin
<1>7. CASE InJob(Job!Next)
  BY <1>7 DEF InJob
<1>8. CASE InSetup(Setup!Next)
  BY <1>8 DEF InSetup
<1> QED BY <1>1, <1>2, <1>3, <1>4, <1>5, <1>6, <1>7, <1>8 DEF PartsNext

\* All of it holds at the start.
LEMMA SupportsInit == ASSUME PartsInit PROVE Supports
BY NetworkInit, LoginInit, JobInit, SetupInit DEF PartsInit, Supports

\* All of it is inductive: each component by its own lemmas, the others stutter.
LEMMA SupportsNext ==
  ASSUME Supports, [PartsNext]_all PROVE Supports'
<1>1. Net!Supported'
  <2>1. CASE StillNetwork
    BY <2>1, NetworkStutters DEF StillNetwork, networkVars, Net!vars, Net!server, Net!net,
       Net!switch, Net!watching, Supports
  <2>2. CASE Net!Next
    BY <2>2, NetworkNext DEF Supports
  <2> QED BY <2>1, <2>2, OneComponent
<1>2. (part' = "link" => Login(TRUE)!Supported') /\ (part' # "link" => Login(FALSE)!Supported')
  <2>1. CASE StillLogin
    <3>1. part' = part /\ UNCHANGED Login(FALSE)!vars /\ UNCHANGED Login(TRUE)!vars
      BY <2>1 DEF StillLogin, loginVars, Login!vars, Login!server, Login!rooms, Login!agent
    <3> QED BY <3>1, LoginStutters DEF Supports
  <2>2. CASE part' = part /\ IF part = "link" THEN Login(TRUE)!Next ELSE Login(FALSE)!Next
    BY <2>2, LoginNext DEF Supports
  <2> QED BY <2>1, <2>2, OneComponent
<1>3. Job!Supported'
  <2>1. CASE StillJob
    BY <2>1, JobStutters DEF StillJob, jobVars, Job!vars, Supports
  <2>2. CASE Job!Next
    BY <2>2, JobNext DEF Supports
  <2> QED BY <2>1, <2>2, OneComponent
<1>4. Setup!Supported'
  <2>1. CASE StillSetup
    BY <2>1, SetupStutters DEF StillSetup, setupVars, Setup!vars, Supports
  <2>2. CASE Setup!Next
    BY <2>2, SetupNext DEF Supports
  <2> QED BY <2>1, <2>2, OneComponent
<1> QED BY <1>1, <1>2, <1>3, <1>4 DEF Supports

\* In every behaviour of the composition each component keeps what its properties rest
\* on, whatever the bounds on faults, revisions, versions and adapters.
THEOREM AlwaysSupported == PartsSpec => []Supports
<1>1. PartsInit => Supports
  BY SupportsInit
<1>2. Supports /\ [PartsNext]_all => Supports'
  BY SupportsNext
<1> QED BY <1>1, <1>2, PTL DEF PartsSpec

\* The engine runs only for the room that the agent remembers, with the lease that the
\* ticker watches and the roster of its snapshot; what is paused stays off, and a
\* membership that the watch has seen end is not started again: Runtime.step.
THEOREM NetworkKept == PartsSpec => []NetworkInv
<1>1. Supports => NetworkInv
  BY NetworkHolds DEF Supports, NetworkInv
<1> QED BY <1>1, AlwaysSupported, PTL

\* The identity is switched only to a key that is authorized and, in a login, only when the
\* leave of the room that the agent remembers is recorded under the login's operation or
\* the old device is revoked, for every number of crashes and lost calls, and whatever
\* rooms are joined, left or lost between two polls: Runtime.accountAction.
THEOREM LoginKept == PartsSpec => []LoginInv
<1>1. Supports => LoginInv
  BY LoginHolds DEF Supports, LoginInv
<1> QED BY <1>1, AlwaysSupported, PTL

\* The installer works only on releases somebody asked for that were still on offer, and
\* keeps the package to go back to: Runtime.updateStep, update.Apply.
THEOREM JobKept == PartsSpec => []JobInv
<1>1. Supports => JobInv
  BY JobHolds DEF Supports, JobInv
<1> QED BY <1>1, AlwaysSupported, PTL

\* Wherever a setup or a removal was interrupted, the owner can run the complete package
\* again, and a service runs from the file that is installed: runWindowsSetup,
\* removeWindowsBundle.
THEOREM SetupKept == PartsSpec => []SetupInv
<1>1. Supports => SetupInv
  BY SetupRepairs DEF Supports, SetupInv
<1> QED BY <1>1, AlwaysSupported, PTL

\* An identity that is bound to an account never moves to another, in logins and in links:
\* completeIdentity.
THEOREM IdentitiesStay == PartsSpec => AccountsKept
<1>1. Supports /\ [PartsNext]_all => [Login(FALSE)!BoundStep]_loginVars
  <2>1. SUFFICES ASSUME Supports, [PartsNext]_all, loginVars' # loginVars
                 PROVE  Login(FALSE)!BoundStep
    OBVIOUS
  <2>2. part' = part /\ IF part = "link" THEN Login(TRUE)!Next ELSE Login(FALSE)!Next
    BY <2>1, OneComponent DEF StillLogin
  <2>3. CASE part = "link"
    <3>1. Login(TRUE)!Supported /\ Login(TRUE)!Next
      BY <2>1, <2>2, <2>3 DEF Supports
    <3>2. Login(TRUE)!BoundStep
      BY <3>1, LoginBinds, Zenon
    <3> QED BY <3>2 DEF Login!BoundStep, Login!None
  <2>4. CASE part # "link"
    <3>1. Login(FALSE)!Supported /\ Login(FALSE)!Next
      BY <2>1, <2>2, <2>4 DEF Supports
    <3> QED BY <3>1, LoginBinds, Zenon
  <2> QED BY <2>3, <2>4
<1> QED BY <1>1, AlwaysSupported, PTL DEF PartsSpec, AccountsKept

\* Setup and removal delete no adapter they have not made, and no file of a registered
\* service is replaced by an older one: removeTAP, overwriteBundle.
THEOREM SetupIsCareful == PartsSpec => SetupSteps
<1> DEFINE OnlyOwn == \A g \in 1..Len(adapters) :
             (Setup!Live(adapters, g) /\ ~Setup!Live(adapters', g) /\ op' # op)
             => adapters[g].ours
           Newer == attached => \A f \in Setup!File : files'[f] # 0 => files'[f] >= files[f]
<1>1. Supports /\ [PartsNext]_all => [OnlyOwn]_Setup!vars
  BY OneComponent, SetupOwn DEF StillSetup, setupVars, Setup!vars, Supports
<1>2. Supports /\ [PartsNext]_all => [Newer]_Setup!vars
  BY OneComponent, SetupOlder DEF StillSetup, setupVars, Setup!vars, Supports
<1>3. PartsSpec => [][OnlyOwn]_Setup!vars
  BY <1>1, AlwaysSupported, PTL DEF PartsSpec
<1>4. PartsSpec => [][Newer]_Setup!vars
  BY <1>2, AlwaysSupported, PTL DEF PartsSpec
<1> QED BY <1>3, <1>4, PTL DEF SetupSteps, Setup!OnlyOwnAdapters, Setup!NeverOlder
=============================================================================
