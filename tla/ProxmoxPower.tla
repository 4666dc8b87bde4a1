---------------------------- MODULE ProxmoxPower ----------------------------
(***************************************************************************)
(* Power commands for one Proxmox guest: ProxmoxPowerAuthority             *)
(* (service.py) and its previews in memory, PowerReceiptStore (storage.py) *)
(* and its append-only journal in the database, and the worker that talks  *)
(* to Proxmox (worker_ipc.py, api_adapter.py).                             *)
(*                                                                         *)
(* The authority's lock covers the table of previews only: confirmations   *)
(* run on concurrent threads, each with a transaction for every status it  *)
(* records, and the guest, the worker and a crash may come between any two.*)
(*                                                                         *)
(* A command stands for one requestId with its action and the guest's      *)
(* status revision it was previewed at.                                    *)
(***************************************************************************)
EXTENDS Naturals, FiniteSets, Sequences

CONSTANTS
    Command,      \* request identifiers
    Action,       \* the action each of them asks for
    Handler,      \* threads that confirm
    MaxPreviews,  \* the smaller of MAX_PREVIEWS and MAX_ACTOR_PREVIEWS
    MaxReceipts,  \* MAX_RECEIPTS
    MaxEvents,    \* MAX_JOURNAL_EVENTS
    MaxRevision,  \* bound of the model on the guest's status revision
    MaxCrashes,   \* bound of the model on crashes of the server
    None

\* POLICY: the status an action is for, and the status it leads to.
Source == [start |-> "stopped", stop |-> "running", reboot |-> "running"]
Goal == [start |-> "running", stop |-> "stopped", reboot |-> "running"]

ASSUME PowerConstants ==
    /\ Action \in [Command -> DOMAIN Goal]
    /\ MaxPreviews \in Nat /\ MaxReceipts \in Nat /\ MaxEvents \in Nat
    /\ MaxRevision \in Nat \ {0} /\ MaxCrashes \in Nat
    /\ None \notin Command

VARIABLES
    record,    \* proxmox_power_receipts: the state of each receipt
    journal,   \* proxmox_power_journal
    base,      \* the status revision each command was previewed at
    previews,  \* _previews, of commands neither consumed nor expired
    thread,    \* the confirmations
    worker,    \* what became of each command's packet
    guest,     \* the guest as the provider resolves it
    phase,     \* of the server: "down", "recovering" or "up"
    crashes    \* so far

store == <<record, journal>>
vars == <<store, base, previews, thread, worker, guest, phase, crashes>>

Unfinished == {"accepted", "executing"}
Final == {"succeeded", "failed", "cancelled", "unknown"}
Status == {"none"} \cup Unfinished \cup Final

IdleThread == [pc |-> "idle", cmd |-> None, reply |-> "none"]

Init ==
    /\ record = [c \in Command |-> "none"]
    /\ journal = <<>>
    /\ base = [c \in Command |-> 0]
    /\ previews = {}
    /\ thread = [h \in Handler |-> IdleThread]
    /\ worker = [c \in Command |-> "none"]
    /\ guest \in [status : {"stopped", "running"}, rev : {1}]
    /\ phase = "up"
    /\ crashes = 0

Up == phase = "up"

-----------------------------------------------------------------------------
(* PowerReceiptStore *)

Full == Len(journal) >= MaxEvents

\* Mutant: the bound of the journal is not looked at.
LogUnbounded(c, kind) == journal' = Append(journal, [cmd |-> c, kind |-> kind])

\* _append: the transaction around it is refused when the journal is full.
Log(c, kind) ==
    /\ ~Full
    /\ journal' = Append(journal, [cmd |-> c, kind |-> kind])

Logged(c, kind) == \E i \in 1..Len(journal) : journal[i] = [cmd |-> c, kind |-> kind]

\* The states that may follow, a new receipt being "accepted" first.
Follows(s) == CASE s = "none" -> {"accepted"}
                [] s = "accepted" -> {"executing", "unknown"}
                [] s = "executing" -> Final
                [] OTHER -> {}

\* put: the receipt and its event in one transaction.
Put(c, s) ==
    /\ s \in Follows(record[c])
    /\ record[c] = "none" =>
         Cardinality({d \in Command : record[d] # "none"}) < MaxReceipts
    /\ record' = [record EXCEPT ![c] = s]
    /\ Log(c, s)

-----------------------------------------------------------------------------
(* Previews *)

\* append_preview, then the table: both under the lock.  A requestId is
\* previewed once, ever.
Preview(c) ==
    /\ Up
    /\ record[c] = "none"
    /\ guest.status = Source[Action[c]]
    /\ Cardinality(previews) < MaxPreviews
    /\ ~Logged(c, "previewed")
    /\ Log(c, "previewed")
    /\ base' = [base EXCEPT ![c] = guest.rev]
    /\ previews' = previews \cup {c}
    /\ UNCHANGED <<record, thread, worker, guest, phase, crashes>>

\* A preview outlives its 60 s: _purge or confirm drops it.
Expire(c) ==
    /\ Up
    /\ c \in previews
    /\ previews' = previews \ {c}
    /\ UNCHANGED <<store, base, thread, worker, guest, phase, crashes>>

Cancel(c) ==
    /\ Up
    /\ c \in previews
    /\ Log(c, "preview_cancelled")
    /\ previews' = previews \ {c}
    /\ UNCHANGED <<record, base, thread, worker, guest, phase, crashes>>

-----------------------------------------------------------------------------
(* confirm, on thread h *)

At(h, pc) == Up /\ thread[h].pc = pc

Goto(h, pc) == thread' = [thread EXCEPT ![h].pc = pc]

Leave(h) == thread' = [thread EXCEPT ![h] = IdleThread]

\* Mutant: the preview is looked up, and left for others.
TakeAndLeave(h, c) ==
    /\ At(h, "idle")
    /\ c \in previews
    /\ thread' = [thread EXCEPT ![h] = [IdleThread EXCEPT !.pc = "taken", !.cmd = c]]
    /\ UNCHANGED <<store, base, previews, worker, guest, phase, crashes>>

\* The preview is consumed under the lock.
Take(h, c) ==
    /\ At(h, "idle")
    /\ c \in previews
    /\ previews' = previews \ {c}
    /\ thread' = [thread EXCEPT ![h] = [IdleThread EXCEPT !.pc = "taken", !.cmd = c]]
    /\ UNCHANGED <<store, base, worker, guest, phase, crashes>>

\* The provider resolves the guest that was previewed.
SameDescriptor(c) == guest.rev = base[c]

Check(h) ==
    /\ At(h, "taken")
    /\ record[thread[h].cmd] = "none"
    /\ SameDescriptor(thread[h].cmd)
    /\ Goto(h, "checked")
    /\ UNCHANGED <<store, base, previews, worker, guest, phase, crashes>>

Accept(h) ==
    /\ At(h, "checked")
    /\ Put(thread[h].cmd, "accepted")
    /\ Goto(h, "accepted")
    /\ UNCHANGED <<base, previews, worker, guest, phase, crashes>>

Begin(h) ==
    /\ At(h, "accepted")
    /\ Put(thread[h].cmd, "executing")
    /\ Goto(h, "executing")
    /\ UNCHANGED <<base, previews, worker, guest, phase, crashes>>

\* A missing second confirmation, a receipt that exists, a guest that changed,
\* an authority that was withdrawn, a full or failing store: the request ends.
\* After Accept it leaves an accepted receipt behind.
Abandon(h) ==
    /\ Up
    /\ thread[h].pc \in {"taken", "checked", "accepted"}
    /\ Leave(h)
    /\ UNCHANGED <<store, base, previews, worker, guest, phase, crashes>>

\* execute_bounded: the guard looks once more, and the packet is written.
Send(h) ==
    LET c == thread[h].cmd IN
    /\ At(h, "executing")
    /\ SameDescriptor(c)
    /\ worker' = [worker EXCEPT ![c] = "packet"]
    /\ Goto(h, "sent")
    /\ UNCHANGED <<store, base, previews, guest, phase, crashes>>

Reply(h, reply) ==
    /\ thread' = [thread EXCEPT ![h].pc = "replied", ![h].reply = reply]
    /\ UNCHANGED <<store, base, previews, worker, guest, phase, crashes>>

\* The guard or the connection raises before the packet is out, which confirm
\* does not tell from a reply "unknown".
NotSent(h) == At(h, "executing") /\ Reply(h, "unknown")

\* What the client may read: an adapter that stopped before the request may say
\* so (the packaged one says "unknown" then).  A timeout, a disconnected tablet,
\* a lost session or a broken answer raises at any time, and to confirm an
\* exception is what the reply "unknown" is.
ReadReply(h, reply) ==
    /\ At(h, "sent")
    /\ \/ reply = "succeeded" /\ worker[thread[h].cmd] = "confirmed"
       \/ reply = "failed" /\ worker[thread[h].cmd] = "rejected"
       \/ reply = "cancelled" /\ worker[thread[h].cmd] = "dropped"
       \/ reply = "unknown"
    /\ Reply(h, reply)

\* Mutant: whatever is not a success is a failure.
OutcomesTwoValued(h) ==
    LET c == thread[h].cmd IN
    IF /\ thread[h].reply = "succeeded"
       /\ guest = [status |-> Goal[Action[c]], rev |-> base[c] + 1]
    THEN {"succeeded"} ELSE {"failed"}

\* The state of the last receipt.  A success needs the guest to be where the
\* action leads, one revision later; an exception on the way (deadline, session,
\* authority, provider) makes any reply "unknown".
Outcomes(h) ==
    LET c == thread[h].cmd
        reached == guest = [status |-> Goal[Action[c]], rev |-> base[c] + 1]
    IN  {"unknown"} \cup
        CASE thread[h].reply = "succeeded" /\ reached -> {"succeeded"}
          [] thread[h].reply \in {"failed", "cancelled"} -> {thread[h].reply}
          [] OTHER -> {}

Finish(h, s) ==
    /\ At(h, "replied")
    /\ s \in Outcomes(h)
    /\ Put(thread[h].cmd, s)
    /\ Leave(h)
    /\ UNCHANGED <<base, previews, worker, guest, phase, crashes>>

\* The store refuses the last receipt, or the provider raises in the exception
\* handler itself: the receipt stays "executing" until the next start.
FinishLost(h) ==
    /\ At(h, "replied")
    /\ Leave(h)
    /\ UNCHANGED <<store, base, previews, worker, guest, phase, crashes>>

-----------------------------------------------------------------------------
(* The worker and Proxmox *)

WorkerStep(c, from, to) ==
    /\ worker[c] = from
    /\ worker' = [worker EXCEPT ![c] = to]
    /\ UNCHANGED <<store, base, previews, thread, phase, crashes>>

\* The gate before the request finds the client gone or the deadline passed.
Drop(c) == WorkerStep(c, "packet", "dropped") /\ UNCHANGED guest

Post(c) == WorkerStep(c, "packet", "posted") /\ UNCHANGED guest

\* Proxmox answers 400, 401, 403, 404 or 405.
Reject(c) == WorkerStep(c, "posted", "rejected") /\ UNCHANGED guest

\* Proxmox takes the task.  A change of status advances the revision; a reboot,
\* or a task that found the guest there already, may or may not.
Apply(c) ==
    LET to == Goal[Action[c]] IN
    /\ WorkerStep(c, "posted", "applied")
    /\ \E rev \in {guest.rev, guest.rev + 1} :
         /\ rev <= MaxRevision
         /\ guest.status # to => rev = guest.rev + 1
         /\ guest' = [status |-> to, rev |-> rev]

\* The adapter's second request finds the guest where the action leads.
ReadBack(c) ==
    /\ WorkerStep(c, "applied", "confirmed")
    /\ guest.status = Goal[Action[c]]
    /\ UNCHANGED guest

\* Someone else starts or stops the guest.
OtherChange ==
    /\ guest.rev < MaxRevision
    /\ \E s \in {"stopped", "running"} \ {guest.status} :
         guest' = [status |-> s, rev |-> guest.rev + 1]
    /\ UNCHANGED <<store, base, previews, thread, worker, phase, crashes>>

-----------------------------------------------------------------------------
(* Crash and restart *)

Crash ==
    /\ phase # "down"
    /\ crashes < MaxCrashes
    /\ phase' = "down"
    /\ crashes' = crashes + 1
    /\ previews' = {}
    /\ thread' = [h \in Handler |-> IdleThread]
    /\ UNCHANGED <<store, base, worker, guest>>

Boot ==
    /\ phase = "down"
    /\ phase' = "recovering"
    /\ UNCHANGED <<store, base, previews, thread, worker, guest, crashes>>

\* Mutant: only what was under way is recovered.
InterruptedExecuting == {c \in Command : record[c] = "executing"}

Interrupted == {c \in Command : record[c] \in Unfinished}

\* recover_incomplete: a transaction for each interrupted receipt.
Recover(c) ==
    /\ phase = "recovering"
    /\ c \in Interrupted
    /\ Put(c, "unknown")
    /\ UNCHANGED <<base, previews, thread, worker, guest, phase, crashes>>

\* The store refuses, and the error ends the server's initialisation.
RecoverRefused ==
    /\ phase = "recovering"
    /\ Interrupted # {} /\ Full
    /\ phase' = "down"
    /\ UNCHANGED <<store, base, previews, thread, worker, guest, crashes>>

Ready ==
    /\ phase = "recovering"
    /\ Interrupted = {}
    /\ phase' = "up"
    /\ UNCHANGED <<store, base, previews, thread, worker, guest, crashes>>

Restarting == Boot \/ (\E c \in Command : Recover(c)) \/ RecoverRefused \/ Ready

-----------------------------------------------------------------------------

Confirm(h) ==
    \/ \E c \in Command : Take(h, c)
    \/ Check(h) \/ Accept(h) \/ Begin(h) \/ Abandon(h)
    \/ Send(h) \/ NotSent(h)
    \/ \E reply \in Final : ReadReply(h, reply)
    \/ \E s \in Final : Finish(h, s)
    \/ FinishLost(h)

World ==
    \/ \E c \in Command : Drop(c) \/ Post(c) \/ Reject(c) \/ Apply(c) \/ ReadBack(c)
    \/ OtherChange \/ Crash

Next ==
    \/ \E c \in Command : Preview(c) \/ Expire(c) \/ Cancel(c)
    \/ \E h \in Handler : Confirm(h)
    \/ World
    \/ Restarting

\* A server that stopped is started again, and its initialisation goes on.
Spec == Init /\ [][Next]_vars /\ WF_vars(Restarting)

-----------------------------------------------------------------------------
(* Properties *)

\* Every variable has its type; the tables keep their bounds.
TypeOK ==
    /\ record \in [Command -> Status]
    /\ journal \in Seq([cmd : Command,
                        kind : {"previewed", "preview_cancelled"} \cup Status])
    /\ Len(journal) <= MaxEvents
    /\ base \in [Command -> 0..MaxRevision]
    /\ previews \subseteq Command
    /\ thread \in [Handler -> [pc : {"idle", "taken", "checked", "accepted", "executing",
                                     "sent", "replied"},
                               cmd : Command \cup {None},
                               reply : {"none"} \cup Final]]
    /\ worker \in [Command -> {"none", "packet", "dropped", "posted", "rejected", "applied",
                               "confirmed"}]
    /\ guest \in [status : {"stopped", "running"}, rev : 1..MaxRevision]
    /\ phase \in {"down", "recovering", "up"}
    /\ crashes \in 0..MaxCrashes

\* A cancelled preview never becomes a command, although the cancellation may
\* race the confirmation of the same preview on another thread.
CancelIsFinal ==
    \A c \in Command : Logged(c, "preview_cancelled") =>
        record[c] = "none" /\ worker[c] = "none"

\* "A process restart makes every accepted/in-flight effect uncertain"
\* (recover_incomplete): a stopped server comes up with no command left open.
RestartResolves ==
    phase = "down" ~> (Up /\ \A c \in Command : record[c] \notin Unfinished)

\* What holds of it: the server comes up with no command left open, after a crash
\* during the recovery too, or else its journal has no room left for outcomes.
RestartWithRoom ==
    phase = "down" ~> (Full \/ (Up /\ \A c \in Command : record[c] \notin Unfinished))

\* The receipts keep the promises of a command ledger, a task taken by Proxmox
\* being the effect: concurrent confirmations, a worker that outlives its client
\* and a restart included.
Ledger == INSTANCE CommandLedger WITH
    status <- record,
    effect <- [c \in Command |-> IF worker[c] \in {"applied", "confirmed"} THEN 1 ELSE 0]

LedgerSpec == Ledger!Spec
=============================================================================
