-------------------------- MODULE KeeneticCommands --------------------------
(***************************************************************************)
(* Router commands: KeeneticCommandAuthority (service.py) in memory, its   *)
(* KeeneticCommandJournal (journal.py) in the database, and the worker     *)
(* process that talks to the router (worker_ipc.py, rci_adapter.py,        *)
(* rci_transport.py).                                                      *)
(*                                                                         *)
(* The authority holds one lock from the first check of a request to its   *)
(* receipt, the effect included, so at most one confirmation runs; between *)
(* its steps the actor's session may end, the router may be changed by     *)
(* someone else, the worker acts at its own pace, and the server may die.  *)
(* The worker goes on after the server stopped listening.                  *)
(*                                                                         *)
(* A command stands for one request body: its requestId, idempotencyKey,   *)
(* action and target.  The target's exact state is a revision and whose    *)
(* change produced it.  All commands are of one administrator.             *)
(***************************************************************************)
EXTENDS Naturals, FiniteSets, Sequences, SequencesExt

CONSTANTS
    Command,        \* request bodies
    HighRisk,       \* those whose action needs a second confirmation
    Packaged,       \* wired as core.py does, or with a plain observer and effect
    MaxCommands,    \* MAX_COMMANDS of the journal
    MaxEvents,      \* MAX_EVENTS of the journal
    MaxPreviews,    \* the smaller of MAX_PREVIEWS and MAX_PER_ACTOR
    MaxReceipts,    \* MAX_RECEIPTS
    MaxRevision,    \* bound of the model on the router's state revision
    None

ASSUME CommandConstants ==
    /\ HighRisk \subseteq Command /\ None \notin Command
    /\ Packaged \in BOOLEAN
    /\ MaxCommands \in Nat /\ MaxEvents = 3 * MaxCommands /\ MaxPreviews \in Nat
    /\ MaxReceipts \in Nat \ {0} /\ MaxRevision \in Nat

VARIABLES
    record,    \* keenetic_command_records: the status of each command
    base,      \* the state revision in each command's body
    events,    \* keenetic_command_events, in sequence
    previews,  \* _previews: commands that can be confirmed
    second,    \* those that were offered a second confirmation token
    known,     \* _requests and _request_ids: commands a preview is answered from
    receipts,  \* _receipts, oldest first
    run,       \* the confirmation that holds the lock
    worker,    \* what the worker and the router did with each command's packet
    target,    \* the router's state
    sends,     \* history: how often each command was handed to the effect
    up         \* the server is running

memory == <<previews, second, known, receipts>>
journal == <<record, base, events>>
outside == <<worker, target>>
vars == <<memory, journal, outside, run, sends, up>>

Unfinished == {"accepted", "executing"}
Final == {"succeeded", "failed", "cancelled", "unknown"}
Status == {"none"} \cup Unfinished \cup Final

NoRun == [cmd |-> None, stage |-> "none", reply |-> "none", valid |-> TRUE]

Init ==
    /\ record = [c \in Command |-> "none"]
    /\ base = [c \in Command |-> 0]
    /\ events = <<>>
    /\ previews = {} /\ second = {} /\ known = {} /\ receipts = <<>>
    /\ run = NoRun
    /\ worker = [c \in Command |-> "none"]
    /\ target = [rev |-> 0, by |-> None]
    /\ sends = [c \in Command |-> 0]
    /\ up = TRUE

\* The lock is free.
Free == up /\ run = NoRun

-----------------------------------------------------------------------------
(* The journal: a record and its event in one transaction. *)

\* Mutant: the event is written twice, and the limit of the journal is not looked at.
LogTight(c, s) ==
    /\ record' = [record EXCEPT ![c] = s]
    /\ events' = events \o <<[cmd |-> c, status |-> s], [cmd |-> c, status |-> s]>>

\* _append refuses beyond MAX_EVENTS, and its transaction with it.
Log(c, s) ==
    /\ Len(events) < MaxEvents
    /\ record' = [record EXCEPT ![c] = s]
    /\ events' = Append(events, [cmd |-> c, status |-> s])

Allowed(s) == CASE s = "accepted" -> {"executing", "cancelled", "failed"}
                [] s = "executing" -> {"succeeded", "failed", "unknown"}
                [] OTHER -> {}

\* transition: an allowed move is written, the present status is a no-op, and
\* anything else raises.
Transition(c, s) ==
    \/ s \in Allowed(record[c]) /\ Log(c, s)
    \/ s = record[c] /\ UNCHANGED <<record, events>>

-----------------------------------------------------------------------------
(* Previews *)

\* The target is as the command's body says.
Guard(c) == target.rev = base[c]

\* accept: a new record with the revision in the body, or the record of the same body
\* that is accepted already, from a preview that was lost.
AcceptRecord(c) ==
    \/ /\ record[c] = "none"
       /\ Cardinality({d \in Command : record[d] # "none"}) < MaxCommands
       /\ base' = [base EXCEPT ![c] = target.rev]
       /\ Log(c, "accepted")
    \/ /\ record[c] = "accepted"
       /\ Guard(c)
       /\ UNCHANGED journal

Register(c) ==
    /\ previews' = previews \cup {c}
    /\ known' = known \cup {c}
    /\ UNCHANGED <<second, receipts>>

\* preview of a body that memory does not know.
Preview(c) ==
    /\ Free
    /\ c \notin known
    /\ Cardinality(previews) < MaxPreviews
    /\ AcceptRecord(c)
    /\ Register(c)
    /\ UNCHANGED <<outside, run, sends, up>>

\* Mutant: the second token outlives its preview.
DiscardKeepsSecond(C) ==
    /\ previews' = previews \ C
    /\ known' = known \ C
    /\ UNCHANGED <<second, receipts>>

\* _discard_pending of the commands C.
Discard(C) ==
    /\ previews' = previews \ C
    /\ second' = second \ C
    /\ known' = known \ C
    /\ UNCHANGED receipts

\* A preview, or its second confirmation, outlives its time (60 s and 30 s).
Expire(c) ==
    /\ Free
    /\ c \in previews
    /\ Discard({c})
    /\ UNCHANGED <<journal, outside, run, sends, up>>

\* _now notices that the clock went back, and forgets every preview.
ClockRegression ==
    /\ Free
    /\ known # {}
    /\ Discard(Command)
    /\ UNCHANGED <<journal, outside, run, sends, up>>

\* _finish: the receipt is kept in memory, the oldest making room.
Receipt(c, s) ==
    LET full == Len(receipts) >= MaxReceipts IN
    /\ receipts' = Append(IF full THEN Tail(receipts) ELSE receipts,
                          [cmd |-> c, status |-> s])
    /\ known' = IF full THEN known \ {receipts[1].cmd} ELSE known
    /\ previews' = previews \ {c}
    /\ second' = second \ {c}

Cancel(c) ==
    /\ Free
    /\ c \in previews
    /\ Transition(c, "cancelled")
    /\ Receipt(c, "cancelled")
    /\ UNCHANGED <<base, outside, run, sends, up>>

-----------------------------------------------------------------------------
(* confirm *)

\* The first confirmation of a high risk command only earns a second token.
OfferSecond(c) ==
    /\ Free
    /\ c \in (previews \cap HighRisk) \ second
    /\ second' = second \cup {c}
    /\ UNCHANGED <<previews, known, receipts, journal, outside, run, sends, up>>

Confirmable(c) == c \in previews /\ (c \in HighRisk => c \in second)

\* Mutant: the preview is left in place until its receipt is there.
ConsumeLater(c) == UNCHANGED memory

\* The preview is consumed before anything else can go wrong.
Consume(c) ==
    /\ previews' = previews \ {c}
    /\ second' = second \ {c}
    /\ UNCHANGED <<known, receipts>>

\* The guard or the journal refuses before anything was dispatched.
ConfirmRefused(c) ==
    /\ Free
    /\ Confirmable(c)
    /\ Consume(c)
    /\ UNCHANGED <<journal, outside, run, sends, up>>

Dispatch(c) ==
    /\ Free
    /\ Confirmable(c)
    /\ Guard(c)
    /\ Consume(c)
    /\ Transition(c, "executing")
    /\ run' = [cmd |-> c, stage |-> "dispatched", reply |-> "none", valid |-> TRUE]
    /\ sends' = [sends EXCEPT ![c] = @ + 1]
    /\ UNCHANGED <<base, outside, up>>

\* The effect's preflight fails: the worker is not there ("failed"), or a guard
\* of the authority raised ("uncertain", although nothing was sent).
NotSent(reply) ==
    /\ run.stage = "dispatched"
    /\ run' = [run EXCEPT !.stage = "replied", !.reply = reply]
    /\ UNCHANGED <<memory, journal, outside, sends, up>>

\* KeeneticCommandWorkerClient.execute writes the packet.
Send ==
    /\ run.stage = "dispatched"
    /\ run.valid /\ Guard(run.cmd)
    /\ run' = [run EXCEPT !.stage = "sent"]
    /\ worker' = [worker EXCEPT ![run.cmd] = IF @ = "none" THEN "packet" ELSE @]
    /\ UNCHANGED <<memory, journal, target, sends, up>>

\* What the client makes of a connection that broke or timed out once the packet
\* was written.
LostReply == {"uncertain"}

\* The client reads the worker's answer, or loses it.
ReadReply(reply) ==
    /\ run.stage = "sent"
    /\ \/ reply = "ok" /\ worker[run.cmd] = "applied"
       \/ reply = "failed" /\ worker[run.cmd] = "refused"
       \/ reply \in LostReply
    /\ run' = [run EXCEPT !.stage = "replied", !.reply = reply]
    /\ UNCHANGED <<memory, journal, outside, sends, up>>

\* After the effect: its ten seconds have passed, the worker is no longer the
\* same process, or a grant was withdrawn.
Doubt ==
    /\ run.stage = "replied" /\ run.reply = "ok"
    /\ run' = [run EXCEPT !.reply = "uncertain"]
    /\ UNCHANGED <<memory, journal, outside, sends, up>>

\* What can be observed after the effect.  The packaged observer,
\* KeeneticCommandStateProvider.for_actor, raises unless the target is exactly as the
\* command's body says; the packaged effect asks it too, repeating its guard after the
\* worker's answer.
Observable(c) == Packaged => Guard(c)

\* Mutant: the observation alone decides.
OutcomesByObservation(c) ==
    IF run.reply = "failed" THEN {"failed"}
    ELSE IF target.rev > base[c] THEN {"succeeded"} ELSE {"unknown"}

\* Mutant: the revision must have advanced by more than the command's own change.
OutcomesOffByOne(c) ==
    CASE run.reply = "failed" -> {"failed"}
      [] run.reply = "ok" /\ Observable(c) /\ target.rev > base[c] + 1 -> {"succeeded"}
      [] OTHER -> {"unknown"}

\* The statuses confirm may conclude with.  After a reply "ok" the target is
\* observed again: its revision must have advanced and its value must be the
\* command's, which after someone else's change it may or may not be.
Outcomes(c) ==
    CASE run.reply = "failed" -> {"failed"}
      [] run.reply = "ok" /\ Observable(c) /\ target.rev > base[c] ->
           {"succeeded"} \cup (IF target.by = c THEN {} ELSE {"unknown"})
      [] OTHER -> {"unknown"}

Finish(s) ==
    /\ run.stage = "replied"
    /\ run.valid
    /\ s \in Outcomes(run.cmd)
    /\ Transition(run.cmd, s)
    /\ Receipt(run.cmd, s)
    /\ run' = NoRun
    /\ UNCHANGED <<base, outside, sends, up>>

\* The session ended meanwhile: the journal refuses the outcome, the request
\* fails, and the record keeps the status "executing" until the next start.
FinishRefused ==
    /\ run.stage = "replied"
    /\ ~run.valid
    /\ run' = NoRun
    /\ UNCHANGED <<memory, journal, outside, sends, up>>

SessionEnds ==
    /\ run # NoRun /\ run.valid
    /\ run' = [run EXCEPT !.valid = FALSE]
    /\ UNCHANGED <<memory, journal, outside, sends, up>>

-----------------------------------------------------------------------------
(* The worker and the router *)

WorkerStep(c, from, to) ==
    /\ worker[c] = from
    /\ worker' = [worker EXCEPT ![c] = to]
    /\ UNCHANGED <<memory, journal, run, sends, up>>

\* The worker seals the packet's identities before it does anything.
Seal(c) == WorkerStep(c, "packet", "sealed") /\ UNCHANGED target

\* It ends before the router was asked, or the router rejects it (401).
Refuse(c) ==
    /\ WorkerStep(c, "sealed", "refused") \/ WorkerStep(c, "posted", "refused")
    /\ UNCHANGED target

Post(c) == WorkerStep(c, "sealed", "posted") /\ UNCHANGED target

Apply(c) ==
    /\ WorkerStep(c, "posted", "applied")
    /\ target.rev < MaxRevision
    /\ target' = [rev |-> target.rev + 1, by |-> c]

\* Someone else changes the router.
OtherChange ==
    /\ target.rev < MaxRevision
    /\ target' = [rev |-> target.rev + 1, by |-> None]
    /\ UNCHANGED <<memory, journal, worker, run, sends, up>>

-----------------------------------------------------------------------------
(* Crash and restart of the server *)

Crash ==
    /\ up
    /\ up' = FALSE
    /\ previews' = {} /\ second' = {} /\ known' = {} /\ receipts' = <<>>
    /\ run' = NoRun
    /\ UNCHANGED <<journal, outside, sends>>

\* Mutant: only what was under way is recovered.
ExecutingCommands == {c \in Command : record[c] = "executing"}

UnfinishedCommands == {c \in Command : record[c] \in Unfinished}

\* recover_unfinished: one transaction, or the server does not start.
Start ==
    LET lost == SetToSeq(UnfinishedCommands) IN
    /\ ~up
    /\ Len(events) + Len(lost) <= MaxEvents
    /\ up' = TRUE
    /\ record' = [c \in Command |-> IF c \in UnfinishedCommands THEN "unknown" ELSE record[c]]
    /\ events' = events \o [i \in 1..Len(lost) |-> [cmd |-> lost[i], status |-> "unknown"]]
    /\ UNCHANGED <<memory, base, outside, run, sends>>

-----------------------------------------------------------------------------

Authority ==
    \/ \E c \in Command : \/ Preview(c) \/ Expire(c) \/ Cancel(c) \/ OfferSecond(c)
                          \/ ConfirmRefused(c) \/ Dispatch(c)
    \/ ClockRegression
    \/ \E reply \in {"failed", "uncertain"} : NotSent(reply)
    \/ Send
    \/ \E reply \in {"ok", "failed", "uncertain"} : ReadReply(reply)
    \/ Doubt
    \/ \E s \in Final : Finish(s)
    \/ FinishRefused

World ==
    \/ \E c \in Command : Seal(c) \/ Refuse(c) \/ Post(c) \/ Apply(c)
    \/ OtherChange \/ SessionEnds \/ Crash

Next == Authority \/ World \/ Start

\* A server that stopped is started again.
Spec == Init /\ [][Next]_vars /\ WF_vars(Start)

-----------------------------------------------------------------------------
(* Properties *)

TypeOK ==
    /\ record \in [Command -> Status]
    /\ base \in [Command -> 0..MaxRevision]
    /\ events \in Seq([cmd : Command, status : Status])
    /\ previews \subseteq Command /\ second \subseteq previews /\ previews \subseteq known
    /\ known \subseteq Command
    /\ receipts \in Seq([cmd : Command, status : Final])
    /\ run \in [cmd : Command \cup {None}, valid : BOOLEAN,
                stage : {"none", "dispatched", "sent", "replied"},
                reply : {"none", "ok", "failed", "uncertain"}]
    /\ worker \in [Command -> {"none", "packet", "sealed", "posted", "applied", "refused"}]
    /\ target \in [rev : 0..MaxRevision, by : Command \cup {None}]
    /\ sends \in [Command -> Nat]
    /\ up \in BOOLEAN

\* No sequence of lost sessions, lost previews, repeated previews, confirmations
\* and restarts hands one command to the effect twice.
AtMostOnce == \A c \in Command : sends[c] <= 1

\* A receipt kept in memory tells what the journal tells.
ReceiptAgrees ==
    \A i \in 1..Len(receipts) : record[receipts[i].cmd] = receipts[i].status

\* The journal always has room to finish what it accepted, so that neither the
\* outcome of an effect nor a restart is ever refused for want of space.
RoomToFinish ==
    LET in(s) == Cardinality({c \in Command : record[c] = s})
    IN  Len(events) + 2 * in("accepted") + in("executing") <= MaxEvents

\* A command whose worker reported success, in time, with the session and the
\* grants intact and nobody else changing the router, is recorded as succeeded.
CleanRunSucceeds ==
    [][\A c \in Command :
         /\ run.cmd = c /\ run.stage = "replied" /\ run.reply = "ok" /\ run.valid
         /\ target.by = c
         /\ run' = NoRun /\ up'
         => record'[c] = "succeeded"]_vars

\* After a crash every interrupted command gets an outcome.
CrashResolves == ~up ~> (up /\ \A c \in Command : record[c] \notin Unfinished)

\* The journal keeps the promises of a command ledger, the router's own changes
\* being the effects.
Ledger == INSTANCE CommandLedger WITH
    status <- record,
    effect <- [c \in Command |-> IF worker[c] = "applied" THEN 1 ELSE 0]

LedgerSpec == Ledger!Spec
=============================================================================
