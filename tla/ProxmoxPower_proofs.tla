------------------------ MODULE ProxmoxPower_proofs ------------------------
(***************************************************************************)
(* Proofs about ProxmoxPower, for any commands, actions, threads and       *)
(* limits: a cancelled preview never becomes a command, and the receipts   *)
(* implement CommandLedger.                                                *)
(*                                                                         *)
(* The inductive invariant says who owns a command.  Its identifier is     *)
(* previewed once; from then on it is in the table of previews, or held by *)
(* exactly one thread, or given up; the thread's place tells the receipt's *)
(* state; and a final state tells where the worker's packet ended.         *)
(***************************************************************************)
EXTENDS ProxmoxPower, TLAPS

Holds(h, c) == thread[h].pc # "idle" /\ thread[h].cmd = c

\* A command in the table of previews has not been confirmed or cancelled.
PreviewFacts ==
    \A c \in Command : c \in previews =>
        /\ phase = "up"
        /\ record[c] = "none" /\ worker[c] = "none"
        /\ Logged(c, "previewed") /\ ~Logged(c, "preview_cancelled")

\* What a thread's place says of its command.
ThreadFacts ==
    \A h \in Handler, c \in Command : Holds(h, c) =>
        /\ phase = "up" /\ c \notin previews
        /\ Logged(c, "previewed") /\ ~Logged(c, "preview_cancelled")
        /\ thread[h].pc \in {"taken", "checked"} => record[c] = "none" /\ worker[c] = "none"
        /\ thread[h].pc = "accepted" => record[c] = "accepted" /\ worker[c] = "none"
        /\ thread[h].pc = "executing" => record[c] = "executing" /\ worker[c] = "none"
        /\ thread[h].pc \in {"sent", "replied"} => record[c] = "executing"
        /\ thread[h].reply = "succeeded" => worker[c] = "confirmed"
        /\ thread[h].reply = "failed" => worker[c] = "rejected"
        /\ thread[h].reply = "cancelled" => worker[c] = "dropped"

\* A command is held by at most one thread, and a thread at work holds one.
OneThread ==
    /\ \A h \in Handler : thread[h].pc # "idle" => thread[h].cmd \in Command
    /\ \A g, h \in Handler, c \in Command : Holds(g, c) /\ Holds(h, c) => g = h

\* What a receipt's state says of the journal and of the worker.
RecordFacts ==
    \A c \in Command :
        /\ record[c] # "none" => Logged(c, "previewed") /\ ~Logged(c, "preview_cancelled")
        /\ worker[c] # "none" => record[c] \notin {"none", "accepted"}
        /\ record[c] = "succeeded" => worker[c] = "confirmed"
        /\ record[c] = "failed" => worker[c] = "rejected"
        /\ record[c] = "cancelled" => worker[c] = "dropped"

\* Only what was previewed is cancelled.
CancelledWasPreviewed ==
    \A c \in Command : Logged(c, "preview_cancelled") => Logged(c, "previewed")

IInv == TypeOK /\ PreviewFacts /\ ThreadFacts /\ OneThread /\ RecordFacts
        /\ CancelledWasPreviewed

-----------------------------------------------------------------------------
(* The journal *)

\* An event appended by _append is logged, and so is what was before.
LEMMA LogFacts ==
    ASSUME TypeOK, NEW c \in Command, NEW kind \in {"previewed", "preview_cancelled"} \cup Status,
           Log(c, kind)
    PROVE  /\ journal' \in Seq([cmd : Command,
                                kind : {"previewed", "preview_cancelled"} \cup Status])
           /\ Len(journal') <= MaxEvents
           /\ \A d, k : Logged(d, k)' <=> Logged(d, k) \/ (d = c /\ k = kind)
<1> DEFINE e == [cmd |-> c, kind |-> kind]
<1>1. /\ journal \in Seq([cmd : Command, kind : {"previewed", "preview_cancelled"} \cup Status])
      /\ e \in [cmd : Command, kind : {"previewed", "preview_cancelled"} \cup Status]
      /\ journal' = Append(journal, e)
      BY DEF TypeOK, Log
<1>2. /\ Len(journal') = Len(journal) + 1 /\ Len(journal) \in Nat
      /\ journal' \in Seq([cmd : Command, kind : {"previewed", "preview_cancelled"} \cup Status])
      /\ \A i \in 1..Len(journal) : journal'[i] = journal[i]
      /\ journal'[Len(journal) + 1] = e
      BY <1>1
<1>3. Len(journal') <= MaxEvents
      BY <1>2, PowerConstants DEF Log, Full
<1>4. ASSUME NEW d, NEW k
      PROVE  Logged(d, k)' <=> Logged(d, k) \/ (d = c /\ k = kind)
  <2>1. CASE Logged(d, k)
        BY <1>2, <2>1 DEF Logged
  <2>2. CASE d = c /\ k = kind
        BY <1>2, <2>2 DEF Logged
  <2>3. ASSUME Logged(d, k)'
        PROVE  Logged(d, k) \/ (d = c /\ k = kind)
    <3>1. PICK i \in 1..Len(journal') : journal'[i] = [cmd |-> d, kind |-> k]
          BY <2>3 DEF Logged
    <3>2. CASE i \in 1..Len(journal)
          BY <1>2, <3>1, <3>2 DEF Logged
    <3>3. CASE i = Len(journal) + 1
          BY <1>2, <3>1, <3>3
    <3> QED BY <1>2, <3>1, <3>2, <3>3
  <2> QED BY <2>1, <2>2, <2>3
<1> QED BY <1>2, <1>3, <1>4

\* What is not written stays logged as it was.
LEMMA LogSame ==
    ASSUME UNCHANGED journal
    PROVE  \A d, k : Logged(d, k)' <=> Logged(d, k)
BY DEF Logged

\* put writes one receipt and its event.
LEMMA PutFacts ==
    ASSUME IInv, NEW c \in Command, NEW s \in Status \ {"none"}, Put(c, s)
    PROVE  /\ record' \in [Command -> Status]
           /\ record'[c] = s
           /\ \A d \in Command : d # c => record'[d] = record[d]
           /\ s \in Follows(record[c])
           /\ journal' \in Seq([cmd : Command,
                                kind : {"previewed", "preview_cancelled"} \cup Status])
           /\ Len(journal') <= MaxEvents
           /\ \A d \in Command : /\ Logged(d, "previewed")' <=> Logged(d, "previewed")
                                 /\ Logged(d, "preview_cancelled")'
                                      <=> Logged(d, "preview_cancelled")
<1>1. /\ Log(c, s) /\ TypeOK
      /\ s \notin {"previewed", "preview_cancelled"}
      BY DEF Put, IInv, Status, Unfinished, Final
<1>2. /\ record \in [Command -> Status]
      /\ record' = [record EXCEPT ![c] = s]
      /\ s \in Follows(record[c])
      BY DEF Put, IInv, TypeOK
<1> QED BY <1>1, <1>2, LogFacts

-----------------------------------------------------------------------------
(* Previews *)

\* A preview is of an identifier that nobody used before.
LEMMA PreviewStep ==
    ASSUME IInv, NEW c \in Command, Preview(c)
    PROVE  IInv'
<1>1. TypeOK /\ Log(c, "previewed")
      BY DEF Preview, IInv
<1>2. /\ journal' \in Seq([cmd : Command,
                            kind : {"previewed", "preview_cancelled"} \cup Status])
      /\ Len(journal') <= MaxEvents
      /\ \A d \in Command : /\ Logged(d, "previewed")' <=> Logged(d, "previewed") \/ d = c
                            /\ Logged(d, "preview_cancelled")'
                                 <=> Logged(d, "preview_cancelled")
      BY <1>1, LogFacts
<1>3. /\ ~Logged(c, "previewed") /\ record[c] = "none" /\ phase = "up"
      /\ previews' = previews \cup {c}
      /\ UNCHANGED <<record, thread, worker, guest, phase, crashes>>
      BY DEF Preview, Up
<1>4. TypeOK'
      BY <1>1, <1>2, <1>3 DEF Preview, TypeOK
<1>5. worker[c] = "none" /\ \A h \in Handler : ~Holds(h, c)
      BY <1>3 DEF IInv, RecordFacts, ThreadFacts
<1>6. ~Logged(c, "preview_cancelled")
      BY <1>3 DEF IInv, CancelledWasPreviewed
<1> QED BY <1>2, <1>3, <1>4, <1>5, <1>6
        DEF IInv, PreviewFacts, ThreadFacts, OneThread, RecordFacts, Holds, CancelledWasPreviewed

\* An expired preview is gone.
LEMMA ExpireStep ==
    ASSUME IInv, NEW c \in Command, Expire(c)
    PROVE  IInv'
<1>1. \A d, k : Logged(d, k)' <=> Logged(d, k)
      BY LogSame DEF Expire, store
<1> QED BY <1>1 DEF IInv, TypeOK, Expire, store, PreviewFacts, ThreadFacts, OneThread,
                    RecordFacts, Holds, CancelledWasPreviewed

\* A cancelled preview leaves the table in the step that logs it.
LEMMA CancelStep ==
    ASSUME IInv, NEW c \in Command, Cancel(c)
    PROVE  IInv'
<1>1. TypeOK /\ Log(c, "preview_cancelled")
      BY DEF Cancel, IInv
<1>2. /\ journal' \in Seq([cmd : Command,
                            kind : {"previewed", "preview_cancelled"} \cup Status])
      /\ Len(journal') <= MaxEvents
      /\ \A d \in Command : /\ Logged(d, "previewed")' <=> Logged(d, "previewed")
                            /\ Logged(d, "preview_cancelled")'
                                 <=> Logged(d, "preview_cancelled") \/ d = c
      BY <1>1, LogFacts
<1>3. /\ c \in previews /\ previews' = previews \ {c}
      /\ UNCHANGED <<record, base, thread, worker, guest, phase, crashes>>
      BY DEF Cancel
<1>4. TypeOK'
      BY <1>1, <1>2, <1>3 DEF TypeOK
<1>5. /\ record[c] = "none" /\ Logged(c, "previewed")
      /\ \A h \in Handler : ~Holds(h, c)
      BY <1>3 DEF IInv, PreviewFacts, ThreadFacts
<1> QED BY <1>2, <1>3, <1>4, <1>5
        DEF IInv, PreviewFacts, ThreadFacts, OneThread, RecordFacts, Holds, CancelledWasPreviewed

-----------------------------------------------------------------------------
(* confirm *)

ThreadType == [Handler -> [pc : {"idle", "taken", "checked", "accepted", "executing",
                                 "sent", "replied"},
                           cmd : Command \cup {None},
                           reply : {"none"} \cup Final]]

\* Taking a preview moves its command from the table to the thread.
LEMMA TakeStep ==
    ASSUME IInv, NEW h \in Handler, NEW c \in Command, Take(h, c)
    PROVE  IInv'
<1>1. \A d, k : Logged(d, k)' <=> Logged(d, k)
      BY LogSame DEF Take, store
<1>2. /\ c \in previews /\ phase = "up" /\ previews' = previews \ {c}
      /\ thread[h].pc = "idle"
      /\ UNCHANGED <<record, journal, base, worker, guest, phase, crashes>>
      BY DEF Take, At, Up, store
<1>3. thread \in ThreadType
      BY DEF IInv, TypeOK, ThreadType
<1>4. /\ thread' \in ThreadType
      /\ thread'[h].pc = "taken" /\ thread'[h].cmd = c /\ thread'[h].reply = "none"
      /\ \A g \in Handler : g # h => thread'[g] = thread[g]
      BY <1>3 DEF Take, IdleThread, ThreadType
<1>5. TypeOK'
      BY <1>2, <1>4 DEF IInv, TypeOK, ThreadType
<1>6. \A g \in Handler : ~Holds(g, c)
      BY <1>2 DEF IInv, ThreadFacts
<1>7. \A g \in Handler, d \in Command :
          Holds(g, d)' <=> (g # h /\ Holds(g, d)) \/ (g = h /\ d = c)
      BY <1>2, <1>4 DEF Holds
<1>8. PreviewFacts' /\ RecordFacts' /\ CancelledWasPreviewed'
      BY <1>1, <1>2 DEF IInv, PreviewFacts, RecordFacts, CancelledWasPreviewed
<1>9. OneThread'
      BY <1>4, <1>6, <1>7 DEF IInv, OneThread
<1>10. ThreadFacts'
      BY <1>1, <1>2, <1>4, <1>6, <1>7 DEF IInv, ThreadFacts, PreviewFacts
<1> QED BY <1>5, <1>8, <1>9, <1>10 DEF IInv

\* A thread that leaves holds nothing any more.
LEMMA LeaveStep ==
    ASSUME IInv, NEW h \in Handler, Abandon(h) \/ FinishLost(h)
    PROVE  IInv'
<1>1. \A d, k : Logged(d, k)' <=> Logged(d, k)
      BY LogSame DEF Abandon, FinishLost, store
<1>2. /\ thread' = [thread EXCEPT ![h] = [pc |-> "idle", cmd |-> None, reply |-> "none"]]
      /\ UNCHANGED <<record, journal, base, previews, worker, guest, phase, crashes>>
      BY DEF Abandon, FinishLost, Leave, IdleThread, store
<1>3. TypeOK'
      BY <1>2 DEF IInv, TypeOK
<1>4. /\ thread'[h].pc = "idle"
      /\ \A g \in Handler : g # h => thread'[g] = thread[g]
      BY <1>2 DEF IInv, TypeOK
<1>5. \A g \in Handler, d \in Command : Holds(g, d)' => g # h /\ Holds(g, d)
      BY <1>4 DEF Holds
<1>6. PreviewFacts' /\ RecordFacts' /\ CancelledWasPreviewed'
      BY <1>1, <1>2 DEF IInv, PreviewFacts, RecordFacts, CancelledWasPreviewed
<1>7. ThreadFacts' /\ OneThread'
      BY <1>1, <1>2, <1>4, <1>5 DEF IInv, ThreadFacts, OneThread
<1> QED BY <1>3, <1>6, <1>7 DEF IInv

\* Thread h is at pc with the reply, and everything else about the threads is kept.
Moved(h, pc, reply) ==
    /\ thread' \in ThreadType
    /\ thread'[h].pc = pc /\ thread'[h].reply = reply /\ thread'[h].cmd = thread[h].cmd
    /\ \A g \in Handler : g # h => thread'[g] = thread[g]

\* Goto moves a thread.
LEMMA GotoMoves ==
    ASSUME IInv, NEW h \in Handler,
           NEW pc \in {"checked", "accepted", "executing", "sent"}, Goto(h, pc)
    PROVE  Moved(h, pc, thread[h].reply)
BY DEF Goto, IInv, TypeOK, Moved, ThreadType

\* Reply moves a thread.
LEMMA ReplyMoves ==
    ASSUME IInv, NEW h \in Handler, NEW reply \in Final, Reply(h, reply)
    PROVE  Moved(h, "replied", reply)
BY DEF Reply, IInv, TypeOK, Moved, ThreadType

\* A thread that goes on holds what it held; the others too.
LEMMA MovedHolds ==
    ASSUME IInv, NEW h \in Handler, thread[h].pc # "idle",
           NEW pc \in {"checked", "accepted", "executing", "sent", "replied"}, NEW reply,
           Moved(h, pc, reply)
    PROVE  /\ \A g \in Handler, d \in Command : Holds(g, d)' <=> Holds(g, d)
           /\ OneThread'
<1>1. \A g \in Handler, d \in Command : Holds(g, d)' <=> Holds(g, d)
      BY DEF Holds, Moved
<1>2. OneThread'
      BY <1>1 DEF IInv, OneThread, Holds, Moved
<1> QED BY <1>1, <1>2

\* Check, NotSent and ReadReply only move their thread.
LEMMA LookStep ==
    ASSUME IInv, NEW h \in Handler,
           \/ Check(h)
           \/ NotSent(h)
           \/ \E reply \in Final : ReadReply(h, reply)
    PROVE  IInv'
<1>1. /\ thread[h].pc # "idle"
      /\ UNCHANGED <<record, journal, base, previews, worker, guest, phase, crashes>>
      BY DEF Check, NotSent, ReadReply, Reply, At, store
<1>2. PICK pc \in {"checked", "replied"}, reply \in {"none"} \cup Final :
          /\ Moved(h, pc, reply)
          /\ \/ /\ thread[h].pc = "taken" /\ pc = "checked" /\ reply = thread[h].reply
             \/ /\ thread[h].pc \in {"executing", "sent"} /\ pc = "replied"
                /\ reply = "succeeded" => worker[thread[h].cmd] = "confirmed"
                /\ reply = "failed" => worker[thread[h].cmd] = "rejected"
                /\ reply = "cancelled" => worker[thread[h].cmd] = "dropped"
  <2>1. CASE Check(h)
        BY <2>1, GotoMoves DEF Check, At, IInv, TypeOK
  <2>2. CASE NotSent(h)
        BY <2>2, ReplyMoves DEF NotSent, At, Final
  <2>3. ASSUME NEW reply \in Final, ReadReply(h, reply)
        PROVE  /\ Moved(h, "replied", reply)
               /\ thread[h].pc = "sent"
               /\ reply = "succeeded" => worker[thread[h].cmd] = "confirmed"
               /\ reply = "failed" => worker[thread[h].cmd] = "rejected"
               /\ reply = "cancelled" => worker[thread[h].cmd] = "dropped"
        BY <2>3, ReplyMoves DEF ReadReply, At
  <2> QED BY <2>1, <2>2, <2>3
<1>3. /\ \A g \in Handler, d \in Command : Holds(g, d)' <=> Holds(g, d)
      /\ OneThread'
      BY <1>1, <1>2, MovedHolds
<1>4. \A d, k : Logged(d, k)' <=> Logged(d, k)
      BY <1>1, LogSame
<1>5. TypeOK'
      BY <1>1, <1>2 DEF IInv, TypeOK, Moved, ThreadType
<1>6. PreviewFacts' /\ RecordFacts' /\ CancelledWasPreviewed'
      BY <1>1, <1>4 DEF IInv, PreviewFacts, RecordFacts, CancelledWasPreviewed
<1>7. ASSUME NEW g \in Handler, NEW d \in Command, Holds(g, d)'
      PROVE  /\ phase' = "up" /\ d \notin previews'
             /\ Logged(d, "previewed")' /\ ~Logged(d, "preview_cancelled")'
             /\ thread'[g].pc \in {"taken", "checked"} => record'[d] = "none" /\ worker'[d] = "none"
             /\ thread'[g].pc = "accepted" => record'[d] = "accepted" /\ worker'[d] = "none"
             /\ thread'[g].pc = "executing" => record'[d] = "executing" /\ worker'[d] = "none"
             /\ thread'[g].pc \in {"sent", "replied"} => record'[d] = "executing"
             /\ thread'[g].reply = "succeeded" => worker'[d] = "confirmed"
             /\ thread'[g].reply = "failed" => worker'[d] = "rejected"
             /\ thread'[g].reply = "cancelled" => worker'[d] = "dropped"
  <2>1. CASE g # h
        BY <1>1, <1>2, <1>3, <1>4, <1>7, <2>1 DEF IInv, ThreadFacts, Moved
  <2>2. CASE g = h
    <3>1. Holds(h, d) /\ thread[h].cmd = d
          BY <1>3, <1>7, <2>2 DEF Holds
    <3> QED BY <1>1, <1>2, <1>4, <2>2, <3>1 DEF IInv, ThreadFacts, Moved
  <2> QED BY <2>1, <2>2
<1>8. ThreadFacts'
      BY <1>7 DEF ThreadFacts
<1> QED BY <1>3, <1>5, <1>6, <1>8 DEF IInv

\* The packet is written by the thread that holds the command.
LEMMA SendStep ==
    ASSUME IInv, NEW h \in Handler, Send(h)
    PROVE  IInv'
<1> DEFINE c == thread[h].cmd
<1>1. /\ thread[h].pc = "executing" /\ c \in Command /\ Holds(h, c)
      /\ worker' = [worker EXCEPT ![c] = "packet"]
      /\ Goto(h, "sent")
      /\ UNCHANGED <<record, journal, base, previews, guest, phase, crashes>>
      BY DEF Send, At, store, IInv, OneThread, Holds
<1>2. Moved(h, "sent", thread[h].reply)
      BY <1>1, GotoMoves
<1>3. /\ \A g \in Handler, d \in Command : Holds(g, d)' <=> Holds(g, d)
      /\ OneThread'
      BY <1>1, <1>2, MovedHolds
<1>4. \A d, k : Logged(d, k)' <=> Logged(d, k)
      BY <1>1, LogSame
<1>5. TypeOK'
      BY <1>1, <1>2 DEF IInv, TypeOK, Moved, ThreadType
<1>6. /\ record[c] = "executing" /\ worker[c] = "none" /\ c \notin previews
      /\ worker'[c] = "packet"
      /\ \A d \in Command : d # c => worker'[d] = worker[d]
      BY <1>1 DEF IInv, ThreadFacts, TypeOK
<1>7. PreviewFacts' /\ RecordFacts' /\ CancelledWasPreviewed'
      BY <1>1, <1>4, <1>6 DEF IInv, PreviewFacts, RecordFacts, CancelledWasPreviewed
<1>8. \A g \in Handler : g # h => ~Holds(g, c)
      BY <1>1 DEF IInv, OneThread
<1>9. \A d \in Command : Holds(h, d) => d = c
      BY DEF Holds
<1>10. ThreadFacts'
      BY <1>1, <1>2, <1>3, <1>4, <1>6, <1>8, <1>9 DEF IInv, ThreadFacts, Moved
<1> QED BY <1>3, <1>5, <1>7, <1>10 DEF IInv

\* The first two receipts are put by the thread that holds the command.
LEMMA AcceptStep ==
    ASSUME IInv, NEW h \in Handler, Accept(h) \/ Begin(h)
    PROVE  IInv'
<1> DEFINE c == thread[h].cmd
<1>1. PICK s \in {"accepted", "executing"} :
          /\ thread[h].pc = IF s = "accepted" THEN "checked" ELSE "accepted"
          /\ Put(c, s) /\ Goto(h, s)
      BY DEF Accept, Begin, At
<1>2. /\ c \in Command /\ Holds(h, c) /\ s \in Status \ {"none"}
      /\ UNCHANGED <<base, previews, worker, guest, phase, crashes>>
      BY <1>1 DEF Accept, Begin, IInv, OneThread, Holds, Status, Unfinished
<1>3. Moved(h, s, thread[h].reply)
      BY <1>1, GotoMoves
<1>4. /\ \A g \in Handler, d \in Command : Holds(g, d)' <=> Holds(g, d)
      /\ OneThread'
      BY <1>1, <1>3, MovedHolds
<1>5. /\ record' \in [Command -> Status]
      /\ record'[c] = s
      /\ \A d \in Command : d # c => record'[d] = record[d]
      /\ journal' \in Seq([cmd : Command,
                           kind : {"previewed", "preview_cancelled"} \cup Status])
      /\ Len(journal') <= MaxEvents
      /\ \A d \in Command : /\ Logged(d, "previewed")' <=> Logged(d, "previewed")
                            /\ Logged(d, "preview_cancelled")'
                                 <=> Logged(d, "preview_cancelled")
      BY <1>1, <1>2, PutFacts
<1>6. TypeOK'
      BY <1>2, <1>3, <1>5 DEF IInv, TypeOK, Moved, ThreadType
<1>7. /\ worker[c] = "none" /\ c \notin previews
      /\ Logged(c, "previewed") /\ ~Logged(c, "preview_cancelled")
      BY <1>1, <1>2 DEF IInv, ThreadFacts
<1>8. PreviewFacts' /\ RecordFacts' /\ CancelledWasPreviewed'
      BY <1>2, <1>5, <1>7 DEF IInv, PreviewFacts, RecordFacts, CancelledWasPreviewed
<1>9. /\ \A g \in Handler : g # h => ~Holds(g, c)
      /\ \A d \in Command : Holds(h, d) => d = c
      BY <1>2 DEF IInv, OneThread, Holds
<1>10. ThreadFacts'
  <2>1. ASSUME NEW g \in Handler, NEW d \in Command, Holds(g, d), g # h
        PROVE  thread'[g] = thread[g] /\ record'[d] = record[d] /\ worker'[d] = worker[d]
        BY <1>2, <1>3, <1>5, <1>9, <2>1 DEF Moved
  <2>2. thread'[h].pc = s /\ thread'[h].reply = thread[h].reply
        BY <1>3 DEF Moved
  <2> QED BY <1>1, <1>2, <1>4, <1>5, <1>7, <1>9, <2>1, <2>2 DEF IInv, ThreadFacts
<1> QED BY <1>4, <1>6, <1>8, <1>10 DEF IInv

\* The last receipt says what the reply said, or "unknown".
LEMMA FinishStep ==
    ASSUME IInv, NEW h \in Handler, NEW s \in Final, Finish(h, s)
    PROVE  /\ IInv'
           /\ s = "succeeded" => worker[thread[h].cmd] = "confirmed"
           /\ s = "failed" => worker[thread[h].cmd] = "rejected"
           /\ s = "cancelled" => worker[thread[h].cmd] = "dropped"
<1> DEFINE c == thread[h].cmd
<1>1. /\ thread[h].pc = "replied" /\ s \in Outcomes(h) /\ Put(c, s)
      /\ UNCHANGED <<base, previews, worker, guest, phase, crashes>>
      BY DEF Finish, At
<1>2. c \in Command /\ Holds(h, c) /\ s \in Status \ {"none"}
      BY <1>1 DEF IInv, OneThread, Holds, Status, Final
<1>3. /\ thread' \in ThreadType
      /\ thread'[h].pc = "idle"
      /\ \A g \in Handler : g # h => thread'[g] = thread[g]
      BY DEF Finish, Leave, IdleThread, IInv, TypeOK, ThreadType
<1>4. /\ record' \in [Command -> Status]
      /\ record'[c] = s
      /\ \A d \in Command : d # c => record'[d] = record[d]
      /\ journal' \in Seq([cmd : Command,
                           kind : {"previewed", "preview_cancelled"} \cup Status])
      /\ Len(journal') <= MaxEvents
      /\ \A d \in Command : /\ Logged(d, "previewed")' <=> Logged(d, "previewed")
                            /\ Logged(d, "preview_cancelled")'
                                 <=> Logged(d, "preview_cancelled")
      BY <1>1, <1>2, PutFacts
<1>5. /\ s = "succeeded" => worker[c] = "confirmed"
      /\ s = "failed" => worker[c] = "rejected"
      /\ s = "cancelled" => worker[c] = "dropped"
  <2>1. s # "unknown" => s = thread[h].reply
        BY <1>1 DEF Outcomes
  <2> QED BY <1>2, <2>1 DEF IInv, ThreadFacts
<1>6. TypeOK'
      BY <1>1, <1>3, <1>4 DEF IInv, TypeOK, ThreadType
<1>7. /\ record[c] = "executing" /\ c \notin previews
      /\ Logged(c, "previewed") /\ ~Logged(c, "preview_cancelled")
      BY <1>1, <1>2 DEF IInv, ThreadFacts
<1>8. PreviewFacts' /\ RecordFacts' /\ CancelledWasPreviewed'
      BY <1>1, <1>2, <1>4, <1>5, <1>7
      DEF IInv, PreviewFacts, RecordFacts, CancelledWasPreviewed, Final
<1>9. \A g \in Handler, d \in Command : Holds(g, d)' => g # h /\ Holds(g, d) /\ d # c
      BY <1>2, <1>3 DEF IInv, OneThread, Holds
<1>10. ThreadFacts' /\ OneThread'
      BY <1>1, <1>3, <1>4, <1>9 DEF IInv, ThreadFacts, OneThread, Holds
<1> QED BY <1>5, <1>6, <1>8, <1>10 DEF IInv

-----------------------------------------------------------------------------
(* The worker, the guest and the server *)

\* The worker moves a packet that is under way, never one that has ended.
LEMMA WorkerSteps ==
    ASSUME IInv, NEW c \in Command,
           Drop(c) \/ Post(c) \/ Reject(c) \/ Apply(c) \/ ReadBack(c)
    PROVE  IInv'
<1>1. PICK to \in {"dropped", "posted", "rejected", "applied", "confirmed"} :
          /\ worker[c] \in {"packet", "posted", "applied"}
          /\ worker' = [worker EXCEPT ![c] = to]
          /\ UNCHANGED <<record, journal, base, previews, thread, phase, crashes>>
      BY DEF Drop, Post, Reject, Apply, ReadBack, WorkerStep, store
<1>2. guest' \in [status : {"stopped", "running"}, rev : 1..MaxRevision]
  <2>1. CASE Apply(c)
    <3>1. Goal[Action[c]] \in {"stopped", "running"}
          BY PowerConstants DEF Goal
    <3>2. PICK rev \in {guest.rev, guest.rev + 1} :
              rev <= MaxRevision /\ guest' = [status |-> Goal[Action[c]], rev |-> rev]
          BY <2>1 DEF Apply
    <3>3. rev \in 1..MaxRevision
          BY <3>2, PowerConstants DEF IInv, TypeOK
    <3> QED BY <3>1, <3>2, <3>3
  <2>2. CASE UNCHANGED guest
        BY <2>2 DEF IInv, TypeOK
  <2> QED BY <2>1, <2>2 DEF Drop, Post, Reject, ReadBack
<1>3. \A d, k : Logged(d, k)' <=> Logged(d, k)
      BY <1>1, LogSame
<1>4. TypeOK'
      BY <1>1, <1>2 DEF IInv, TypeOK
<1>5. /\ worker'[c] # "none"
      /\ \A d \in Command : d # c => worker'[d] = worker[d]
      BY <1>1 DEF IInv, TypeOK
<1>6. /\ record[c] \notin {"none", "accepted", "succeeded", "failed", "cancelled"}
      /\ c \notin previews
      BY <1>1 DEF IInv, RecordFacts, PreviewFacts
<1>7. PreviewFacts' /\ RecordFacts' /\ CancelledWasPreviewed'
      BY <1>1, <1>3, <1>5, <1>6 DEF IInv, PreviewFacts, RecordFacts, CancelledWasPreviewed
<1>8. \A h \in Handler, d \in Command : Holds(h, d)' <=> Holds(h, d)
      BY <1>1 DEF Holds
<1>9. \A h \in Handler : Holds(h, c) =>
          /\ thread[h].pc \notin {"taken", "checked", "accepted", "executing"}
          /\ thread[h].reply \notin {"succeeded", "failed", "cancelled"}
      BY <1>1 DEF IInv, ThreadFacts
<1>10. ThreadFacts' /\ OneThread'
      BY <1>1, <1>3, <1>5, <1>8, <1>9 DEF IInv, ThreadFacts, OneThread
<1> QED BY <1>4, <1>7, <1>10 DEF IInv

\* A change by someone else is one the commands do not know of.
LEMMA OtherStep ==
    ASSUME IInv, OtherChange
    PROVE  IInv'
<1>1. /\ guest' \in [status : {"stopped", "running"}, rev : 1..MaxRevision]
      /\ UNCHANGED <<record, journal, base, previews, thread, worker, phase, crashes>>
      BY PowerConstants DEF OtherChange, IInv, TypeOK, store
<1>2. \A d, k : Logged(d, k)' <=> Logged(d, k)
      BY <1>1, LogSame
<1> QED BY <1>1, <1>2 DEF IInv, TypeOK, PreviewFacts, ThreadFacts, OneThread, RecordFacts,
                          Holds, CancelledWasPreviewed

\* A crash takes the previews and the threads, and a start writes nothing by itself.
LEMMA PhaseSteps ==
    ASSUME IInv, Crash \/ Boot \/ RecoverRefused \/ Ready
    PROVE  IInv'
<1>1. UNCHANGED <<record, journal, base, worker, guest>>
      BY DEF Crash, Boot, RecoverRefused, Ready, store
<1>2. \A d, k : Logged(d, k)' <=> Logged(d, k)
      BY <1>1, LogSame
<1>3. RecordFacts' /\ CancelledWasPreviewed'
      BY <1>1, <1>2 DEF IInv, RecordFacts, CancelledWasPreviewed
<1>4. /\ previews' = {} /\ \A h \in Handler : thread'[h].pc = "idle"
      /\ TypeOK'
  <2>1. CASE Crash
        BY <1>1, <2>1, PowerConstants DEF Crash, IdleThread, IInv, TypeOK
  <2>2. CASE Boot \/ RecoverRefused \/ Ready
    <3>1. /\ phase # "up" /\ phase' \in {"recovering", "down", "up"}
          /\ UNCHANGED <<previews, thread, crashes>>
          BY <2>2 DEF Boot, RecoverRefused, Ready
    <3>2. previews = {} /\ \A h \in Handler : thread[h].pc = "idle"
          BY <3>1 DEF IInv, TypeOK, PreviewFacts, ThreadFacts, OneThread, Holds
    <3> QED BY <1>1, <3>1, <3>2 DEF IInv, TypeOK
  <2> QED BY <2>1, <2>2
<1> QED BY <1>3, <1>4 DEF IInv, PreviewFacts, ThreadFacts, OneThread, Holds

\* Recovery makes an interrupted receipt "unknown" when no thread is at work.
LEMMA RecoverStep ==
    ASSUME IInv, NEW c \in Command, Recover(c)
    PROVE  IInv'
<1>1. /\ phase = "recovering" /\ record[c] \in Unfinished /\ Put(c, "unknown")
      /\ UNCHANGED <<base, previews, thread, worker, guest, phase, crashes>>
      BY DEF Recover, Interrupted
<1>2. previews = {} /\ \A h \in Handler : thread[h].pc = "idle"
      BY <1>1 DEF IInv, TypeOK, PreviewFacts, ThreadFacts, OneThread, Holds
<1>3. /\ record' \in [Command -> Status]
      /\ record'[c] = "unknown"
      /\ \A d \in Command : d # c => record'[d] = record[d]
      /\ journal' \in Seq([cmd : Command,
                           kind : {"previewed", "preview_cancelled"} \cup Status])
      /\ Len(journal') <= MaxEvents
      /\ \A d \in Command : /\ Logged(d, "previewed")' <=> Logged(d, "previewed")
                            /\ Logged(d, "preview_cancelled")'
                                 <=> Logged(d, "preview_cancelled")
      BY <1>1, PutFacts DEF Status, Final
<1>4. TypeOK'
      BY <1>1, <1>3 DEF IInv, TypeOK
<1>5. RecordFacts' /\ CancelledWasPreviewed'
      BY <1>1, <1>3 DEF IInv, RecordFacts, CancelledWasPreviewed, Unfinished
<1> QED BY <1>1, <1>2, <1>4, <1>5 DEF IInv, PreviewFacts, ThreadFacts, OneThread, Holds

-----------------------------------------------------------------------------

\* Every step of the specification keeps the invariant.
LEMMA InvariantStep ==
    ASSUME IInv, [Next]_vars
    PROVE  IInv'
<1>1. ASSUME NEW c \in Command, Preview(c) \/ Expire(c) \/ Cancel(c)
      PROVE  IInv'
      BY <1>1, PreviewStep, ExpireStep, CancelStep
<1>2. ASSUME NEW h \in Handler, Confirm(h)
      PROVE  IInv'
      BY <1>2, TakeStep, LookStep, AcceptStep, LeaveStep, SendStep, FinishStep DEF Confirm
<1>3. CASE World
      BY <1>3, WorkerSteps, OtherStep, PhaseSteps DEF World
<1>4. CASE Restarting
      BY <1>4, PhaseSteps, RecoverStep DEF Restarting
<1>5. CASE UNCHANGED vars
  <2>1. UNCHANGED <<record, journal, base, previews, thread, worker, guest, phase, crashes>>
        BY <1>5 DEF vars, store
  <2>2. \A d, k : Logged(d, k)' <=> Logged(d, k)
        BY <2>1, LogSame
  <2> QED BY <2>1, <2>2 DEF IInv, TypeOK, PreviewFacts, ThreadFacts, OneThread, RecordFacts,
                            Holds, CancelledWasPreviewed
<1> QED BY <1>1, <1>2, <1>3, <1>4, <1>5 DEF Next

\* The inductive invariant holds in every reachable state.
THEOREM PowerInvariant == Spec => []IInv
<1>1. Init => IInv
  <2> SUFFICES ASSUME Init PROVE IInv
      OBVIOUS
  <2>1. TypeOK
        BY PowerConstants DEF Init, TypeOK, IdleThread, Status
  <2>2. \A d, k : ~Logged(d, k)
        BY DEF Init, Logged
  <2> QED BY <2>1, <2>2 DEF Init, IdleThread, IInv, PreviewFacts, ThreadFacts, OneThread,
                            RecordFacts, Holds, CancelledWasPreviewed
<1>2. IInv /\ [Next]_vars => IInv'
      BY InvariantStep
<1> QED BY <1>1, <1>2, PTL DEF Spec

\* Type correctness of the receipts, the journal, the threads and the worker, and
\* the bound of the journal.
THEOREM PowerTypeCorrect == Spec => []TypeOK
<1>1. IInv => TypeOK
      BY DEF IInv
<1> QED BY <1>1, PowerInvariant, PTL

\* A cancelled preview never becomes a command, whichever threads race for it.
THEOREM CancellationIsFinal == Spec => []CancelIsFinal
<1>1. IInv => CancelIsFinal
      BY DEF IInv, RecordFacts, CancelIsFinal
<1> QED BY <1>1, PowerInvariant, PTL

-----------------------------------------------------------------------------
(* Refinement *)

\* The effects that the ledger sees.
Effect == [c \in Command |-> IF worker[c] \in {"applied", "confirmed"} THEN 1 ELSE 0]

\* Receipts that stay, with packets that neither take effect nor lose it.
LEMMA Stutters ==
    ASSUME UNCHANGED <<record, worker>>
    PROVE  UNCHANGED Ledger!vars
BY DEF Ledger!vars

\* A receipt put while the packets rest is a step of the ledger.
LEMMA PutIsLedgerStep ==
    ASSUME IInv, NEW c \in Command, NEW s \in Status \ {"none"}, Put(c, s), UNCHANGED worker,
           s = "succeeded" => worker[c] = "confirmed",
           s = "failed" => worker[c] = "rejected",
           s = "cancelled" => worker[c] = "dropped"
    PROVE  Ledger!Next
<1>1. /\ record' = [record EXCEPT ![c] = s] /\ s \in Follows(record[c])
      /\ record \in [Command -> Status]
      /\ UNCHANGED Effect
      BY DEF Put, IInv, TypeOK, Effect
<1>2. CASE s = "accepted"
      BY <1>1, <1>2 DEF Follows, Final, Ledger!Next, Ledger!Accept, Ledger!Become, Effect
<1>3. CASE s = "executing"
      BY <1>1, <1>3 DEF Follows, Final, Ledger!Next, Ledger!Begin, Ledger!Become, Effect
<1>4. CASE s = "succeeded"
      BY <1>1, <1>4 DEF Follows, Ledger!Next, Ledger!Succeed, Ledger!Become, Effect
<1>5. CASE s \in {"failed", "cancelled"}
      BY <1>1, <1>5 DEF Follows, Ledger!Next, Ledger!Fail, Ledger!Become, Effect
<1>6. CASE s = "unknown"
  <2>1. record[c] \in {"accepted", "executing"}
        BY <1>1, <1>6 DEF Follows
  <2>2. record' = [d \in Command |-> IF d \in {c} THEN "unknown" ELSE record[d]]
        BY <1>1, <1>6
  <2>3. Ledger!GiveUp({c})
        BY <1>1, <2>1, <2>2 DEF Ledger!GiveUp, Ledger!Unfinished, Effect
  <2> QED BY <2>3 DEF Ledger!Next
<1> QED BY <1>2, <1>3, <1>4, <1>5, <1>6 DEF Status, Unfinished, Final

\* Proxmox takes a task only of a command that was begun and is not finished.
LEMMA WorkerIsLedgerStep ==
    ASSUME IInv, NEW c \in Command,
           Drop(c) \/ Post(c) \/ Reject(c) \/ Apply(c) \/ ReadBack(c)
    PROVE  [Ledger!Next]_(Ledger!vars)
<1>1. UNCHANGED record /\ worker \in [Command -> {"none", "packet", "dropped", "posted",
                                                  "rejected", "applied", "confirmed"}]
      BY DEF Drop, Post, Reject, Apply, ReadBack, WorkerStep, store, IInv, TypeOK
<1>2. CASE Apply(c)
  <2>1. worker[c] = "posted" /\ worker' = [worker EXCEPT ![c] = "applied"]
        BY <1>2 DEF Apply, WorkerStep
  <2>2. record[c] \in {"executing", "unknown"}
        BY <2>1 DEF IInv, RecordFacts, TypeOK, Status, Unfinished, Final
  <2>3. Effect[c] = 0 /\ Effect' = [Effect EXCEPT ![c] = 1]
        BY <1>1, <2>1 DEF Effect
  <2>4. Ledger!TakeEffect(c)
        BY <1>1, <2>2, <2>3 DEF Ledger!TakeEffect, Effect
  <2> QED BY <2>4 DEF Ledger!Next
<1>3. CASE Drop(c) \/ Post(c) \/ Reject(c) \/ ReadBack(c)
  <2>1. UNCHANGED Effect
        BY <1>1, <1>3 DEF Drop, Post, Reject, ReadBack, WorkerStep, Effect
  <2> QED BY <1>1, <2>1 DEF Effect, Ledger!vars
<1> QED BY <1>2, <1>3

\* The receipts implement the ledger: concurrent confirmations, lost replies, a
\* worker that outlives its client and restarts never make an effect happen twice,
\* a success without an effect, or a failure with one.
THEOREM PowerImplementsLedger == Spec => LedgerSpec
<1>1. Init => Ledger!Init
      BY DEF Init, Ledger!Init
<1>2. IInv /\ [Next]_vars => [Ledger!Next]_(Ledger!vars)
  <2> SUFFICES ASSUME IInv, [Next]_vars PROVE [Ledger!Next]_(Ledger!vars)
      OBVIOUS
  <2>1. ASSUME NEW c \in Command, Preview(c) \/ Expire(c) \/ Cancel(c)
        PROVE  UNCHANGED Ledger!vars
        BY <2>1, Stutters DEF Preview, Expire, Cancel, store
  <2>2. ASSUME NEW h \in Handler, Confirm(h)
        PROVE  [Ledger!Next]_(Ledger!vars)
    <3>1. CASE Accept(h) \/ Begin(h)
      <4>1. PICK s \in {"accepted", "executing"} :
                Put(thread[h].cmd, s) /\ UNCHANGED worker /\ thread[h].pc # "idle"
            BY <3>1 DEF Accept, Begin, At
      <4>2. thread[h].cmd \in Command
            BY <4>1 DEF IInv, OneThread
      <4> QED BY <4>1, <4>2, PutIsLedgerStep DEF Status, Unfinished, Final
    <3>2. ASSUME NEW s \in Final, Finish(h, s)
          PROVE  Ledger!Next
      <4>1. Put(thread[h].cmd, s) /\ UNCHANGED worker /\ thread[h].cmd \in Command
            BY <3>2 DEF Finish, At, IInv, OneThread
      <4> QED BY <3>2, <4>1, FinishStep, PutIsLedgerStep DEF Status, Final
    <3>3. CASE Send(h)
      <4>1. /\ thread[h].cmd \in Command /\ thread[h].pc = "executing"
            /\ UNCHANGED record /\ worker' = [worker EXCEPT ![thread[h].cmd] = "packet"]
            BY <3>3 DEF Send, At, IInv, OneThread, store
      <4>2. worker[thread[h].cmd] = "none"
            BY <4>1 DEF IInv, ThreadFacts, Holds
      <4>3. UNCHANGED Effect
            BY <4>1, <4>2 DEF Effect, IInv, TypeOK
      <4> QED BY <4>1, <4>3 DEF Effect, Ledger!vars
    <3>4. CASE \/ \E c \in Command : Take(h, c)
               \/ Check(h) \/ Abandon(h) \/ NotSent(h) \/ FinishLost(h)
               \/ \E reply \in Final : ReadReply(h, reply)
          BY <3>4, Stutters DEF Take, Check, Abandon, NotSent, FinishLost, ReadReply, Reply, store
    <3> QED BY <2>2, <3>1, <3>2, <3>3, <3>4 DEF Confirm
  <2>3. CASE World
        BY <2>3, WorkerIsLedgerStep, Stutters DEF World, OtherChange, Crash, store
  <2>4. CASE Restarting
    <3>1. ASSUME NEW c \in Command, Recover(c)
          PROVE  Ledger!Next
          BY <3>1, PutIsLedgerStep DEF Recover, Status, Final
    <3> QED BY <2>4, <3>1, Stutters DEF Restarting, Boot, RecoverRefused, Ready, store
  <2>5. CASE UNCHANGED vars
        BY <2>5, Stutters DEF vars, store
  <2> QED BY <2>1, <2>2, <2>3, <2>4, <2>5 DEF Next
<1> QED BY <1>1, <1>2, PowerInvariant, PTL DEF Spec, LedgerSpec, Ledger!Spec

=============================================================================
