------------------------- MODULE MediaInstallations -------------------------
(***************************************************************************)
(* The installation of managed containers: durable jobs in Core            *)
(* (plugins/media_installations.py), the dispatcher that drives them       *)
(* through their two steps (installation_execution.py), the Unix socket to *)
(* the installation worker (installation_ipc.py, preflight_ipc.py) and the *)
(* worker's own journal around the container engine (worker.py).           *)
(*                                                                         *)
(* Core asks for authority again before each call and decides by the       *)
(* receipts it gets; the worker journals an intent before each effect and  *)
(* afterwards only looks at what the engine has.  Either process can crash *)
(* at any point, an answer can be late or lost, and a request whose sender *)
(* has gone stays in the socket's queue and is still carried out.  The     *)
(* worker is started and repaired by its operator only: a killed one leaves*)
(* its endpoint behind, at which the next one refuses to start, and one    *)
(* whose evidence about the daemon failed goes on refusing everything.     *)
(***************************************************************************)
EXTENDS Naturals, Sequences, FiniteSets

CONSTANTS
    Job,         \* the installations asked for: one per preparation and service
    Dispatcher,  \* processes whose lifespan task calls tick()
    Backlog,     \* connections the worker's socket queues: listen(4)
    MaxFaults,   \* bound: crashes, lost answers and engine failures
    MaxMeddling, \* bound: what somebody else does to the containers
    None

ASSUME ConstantsAssumption ==
    /\ Backlog \in Nat \ {0} /\ MaxFaults \in Nat /\ MaxMeddling \in Nat
    /\ IsFiniteSet(Job)
    /\ None \notin Job \cup Dispatcher

VARIABLES
    job,       \* the rows of media_installations
    permitted, \* whether actor, session, sources and catalogue are as recorded
    expired,   \* whether the deadline in the job's payload has passed
    disp,      \* the tick each dispatcher is in, if any
    inbox,     \* requests queued in the worker's socket
    worker,    \* the request the worker's one serving thread is at
    journal,   \* the worker's operations table
    engine,    \* operations the engine was handed and has not carried out
    container, \* what the engine has under each job's container name
    faults, meddling, \* how much of the two bounds is used up
    creates, starts,  \* history: effects of each job
    began      \* history: the jobs that were ever dispatched

coreVars == <<job, permitted, expired, began>>
workerVars == <<inbox, worker, journal>>
worldVars == <<engine, container, meddling, creates, starts>>
vars == <<coreVars, disp, workerVars, worldVars, faults>>

-----------------------------------------------------------------------------
(* Records *)

Open == {"queued", "running"}
Ended == {"container_started", "needs_attention", "cancelled"}
Step == {"create", "start"}
Operation == {"apply", "reconcile"}
Outcome == {"succeeded", "pending", "needs_attention", "cancelled"}

\* dispatch_id and the rest of a WorkerStep follow from job and step; "to" is
\* the dispatcher whose connection is still open, None when it has given up.
Request == [job : Job, step : Step, op : Operation, to : Dispatcher \cup {None}]

\* The worker's container column; the engine's n-th creation for a job has
\* identity n, a container that somebody else made under the name has 0.
Row == [state : {"none", "prepared", "mutating", "uncertain", "succeeded",
                 "needs_attention"}, id : Nat]
Container == [status : {"absent", "created", "running", "exited"}, id : Nat]

NoRow == [state |-> "none", id |-> 0]
Absent == [status |-> "absent", id |-> 0]
Idle == [pc |-> "idle", job |-> None, step |-> "create", op |-> "apply",
         outcome |-> "pending"]
NoRequest == [job |-> None, step |-> "create", op |-> "apply", to |-> None]
WorkerAt(pc, r) == [pc |-> pc, req |-> r]

\* Without a request: no process, with or without the endpoint of one that was
\* killed; waiting for a request; or serving with a backend that was closed.
Resting == {"down", "stale", "idle", "closed"}
WorkerPc == Resting \cup {"inspect", "submit", "engine", "confirm"}
Listening == worker.pc \notin {"down", "stale"}

TypeOK ==
    /\ job \in [Job -> [state : {"none"} \cup Open \cup Ended, cancel : BOOLEAN,
                        seq : Nat]]
    /\ permitted \in [Job -> BOOLEAN] /\ expired \in [Job -> BOOLEAN]
    /\ disp \in [Dispatcher -> [pc : {"idle", "gate", "wait", "finish"},
                                job : Job \cup {None}, step : Step,
                                op : Operation, outcome : Outcome]]
    /\ inbox \in Seq(Request)
    /\ worker \in [pc : WorkerPc, req : Request \cup {NoRequest}]
    /\ journal \in [Job -> [Step -> Row]]
    /\ engine \in SUBSET [job : Job, step : Step, id : Nat]
    /\ container \in [Job -> Container]
    /\ faults \in 0..MaxFaults /\ meddling \in 0..MaxMeddling
    /\ creates \in [Job -> Nat] /\ starts \in [Job -> Nat]
    /\ began \in SUBSET Job
    /\ \A d \in Dispatcher : disp[d].pc # "idle" => disp[d].job \in Job
    /\ worker.pc \notin Resting => worker.req \in Request

Init ==
    /\ job = [j \in Job |-> [state |-> "none", cancel |-> FALSE, seq |-> 0]]
    /\ permitted = [j \in Job |-> TRUE] /\ expired = [j \in Job |-> FALSE]
    /\ disp = [d \in Dispatcher |-> Idle]
    /\ inbox = <<>> /\ worker = WorkerAt("idle", NoRequest)
    /\ journal = [j \in Job |-> [k \in Step |-> NoRow]]
    /\ engine = {} /\ container = [j \in Job |-> Absent]
    /\ faults = 0 /\ meddling = 0
    /\ creates = [j \in Job |-> 0] /\ starts = [j \in Job |-> 0]
    /\ began = {}

Fault == faults < MaxFaults /\ faults' = faults + 1

-----------------------------------------------------------------------------
(* Core: requests of administrators, and time *)

\* create: a second request for the same preparation and service is answered
\* with the row there is, or refused.
Create(j) ==
    /\ job[j].state = "none" /\ permitted[j]
    /\ job' = [job EXCEPT ![j] =
                 [state |-> "queued", cancel |-> FALSE,
                  seq |-> Cardinality({k \in Job : job[k].state # "none"}) + 1]]
    /\ UNCHANGED <<permitted, expired, began, disp, workerVars, worldVars, faults>>

\* cancel, for an administrator who saw the row's current revision.
Cancel(j) ==
    /\ job[j].state \in Open /\ ~job[j].cancel
    /\ job' = [job EXCEPT ![j].cancel = TRUE,
                          ![j].state = IF @ = "queued" THEN "cancelled" ELSE @]
    /\ UNCHANGED <<permitted, expired, began, disp, workerVars, worldVars, faults>>

\* The account, the preparation, the inspection or the catalogue changes, or the
\* session ends, thirty days after it began at the latest: nothing returns to
\* what the job recorded.
Withdraw(j) ==
    /\ permitted[j]
    /\ permitted' = [permitted EXCEPT ![j] = FALSE]
    /\ UNCHANGED <<job, expired, began, disp, workerVars, worldVars, faults>>

Expire(j) ==
    /\ job[j].state # "none" /\ ~expired[j]
    /\ expired' = [expired EXCEPT ![j] = TRUE]
    /\ UNCHANGED <<job, permitted, began, disp, workerVars, worldVars, faults>>

-----------------------------------------------------------------------------
(* Core: the dispatcher *)

\* Mutant: tick() does not take the dispatch lock.
LockFreeIgnored == TRUE

\* .media-installations.lock: held from the start of a tick to its end, and
\* released by the end of the process.
LockFree == \A d \in Dispatcher : disp[d].pc = "idle"

\* The row tick() selects: a running one before the queued ones, by sequence.
First(j) ==
    /\ job[j].state \in Open
    /\ \A k \in Job \ {j} :
         job[k].state \in Open =>
           \/ job[j].state = "running" /\ job[k].state = "queued"
           \/ job[j].state = job[k].state /\ job[j].seq < job[k].seq

\* Mutant: the gate looks at the cancellation only.
VerdictTrusting(j) == IF job[j].cancel THEN "cancelled" ELSE "allowed"

\* _gate_locked
Verdict(j) ==
    IF job[j].cancel THEN "cancelled"
    ELSE IF permitted[j] THEN "allowed" ELSE "needs_attention"

EndJob(j, s, c) == job' = [job EXCEPT ![j].state = s, ![j].cancel = c]

\* tick, first transaction.  A dispatcher exists only where a backend is
\* configured, so the branch without one is not reached.
Pick(d, j) ==
    /\ LockFree /\ First(j)
    /\ IF Verdict(j) = "allowed"
       THEN /\ job' = [job EXCEPT ![j].state = "running"]
            /\ disp' = [disp EXCEPT ![d] = [Idle EXCEPT !.pc = "gate", !.job = j]]
            /\ began' = began \cup {j}
       ELSE /\ EndJob(j, Verdict(j), Verdict(j) = "cancelled")
            /\ UNCHANGED <<disp, began>>
    /\ UNCHANGED <<permitted, expired, workerVars, worldVars, faults>>

Conclude(d, o) == disp' = [disp EXCEPT ![d].pc = "finish", ![d].outcome = o]

\* InstallationExecution.run: the gate before a call, and the call.  With the
\* worker gone or its queue full the call fails at once.
Call(d) ==
    /\ disp[d].pc = "gate"
    /\ LET v == Verdict(disp[d].job) IN
       \/ /\ v # "allowed" /\ Conclude(d, v) /\ UNCHANGED inbox
       \/ /\ v = "allowed" /\ Listening /\ Len(inbox) < Backlog
          /\ inbox' = Append(inbox, [job |-> disp[d].job, step |-> disp[d].step,
                                     op |-> disp[d].op, to |-> d])
          /\ disp' = [disp EXCEPT ![d].pc = "wait"]
       \/ /\ v = "allowed" /\ (~Listening \/ Len(inbox) >= Backlog)
          /\ Conclude(d, "pending") /\ UNCHANGED inbox
    /\ UNCHANGED <<coreVars, worker, journal, worldVars, faults>>

\* run, on a receipt: what the tick does next.
NextCall(t, state) ==
    CASE state = "succeeded" /\ t.step = "create" ->
           [t EXCEPT !.pc = "gate", !.step = "start", !.op = "apply"]
      [] state = "succeeded" /\ t.step = "start" ->
           [t EXCEPT !.pc = "finish", !.outcome = "succeeded"]
      [] state = "uncertain" /\ t.op = "apply" ->
           [t EXCEPT !.pc = "gate", !.op = "reconcile"]
      [] state = "needs_attention" ->
           [t EXCEPT !.pc = "finish", !.outcome = "needs_attention"]
      [] OTHER -> [t EXCEPT !.pc = "finish", !.outcome = "pending"]

\* The sender's connection is gone; the request is not.
Abandoned(r, d) == IF r.to = d THEN [r EXCEPT !.to = None] ELSE r
Abandon(d) ==
    /\ inbox' = [i \in 1..Len(inbox) |-> Abandoned(inbox[i], d)]
    /\ worker' = [worker EXCEPT !.req = Abandoned(@, d)]

\* The call's five seconds are over, or its answer was an error or garbled.
Timeout(d) ==
    /\ disp[d].pc = "wait"
    /\ Conclude(d, "pending") /\ Abandon(d)
    /\ UNCHANGED <<coreVars, journal, worldVars, faults>>

\* Mutant: a cancellation that arrived during the call is lost.
FinishJobForgetful(j, o) ==
    CASE o = "cancelled" -> EndJob(j, "cancelled", TRUE)
      [] o = "succeeded" -> EndJob(j, "container_started", FALSE)
      [] o = "needs_attention" -> EndJob(j, "needs_attention", FALSE)
      [] OTHER -> UNCHANGED job

\* Mutant: the outcome of the execution is stored as the state of the job.
FinishJobRaw(j, o) ==
    IF o = "pending" THEN UNCHANGED job ELSE EndJob(j, o, job[j].cancel)

\* tick, last transaction: a pending job stays as it is, for the next tick.
FinishJob(j, o) ==
    CASE job[j].cancel \/ o = "cancelled" -> EndJob(j, "cancelled", TRUE)
      [] ~job[j].cancel /\ o = "succeeded" -> EndJob(j, "container_started", FALSE)
      [] ~job[j].cancel /\ o = "needs_attention" -> EndJob(j, "needs_attention", FALSE)
      [] OTHER -> UNCHANGED job

Finish(d) ==
    /\ disp[d].pc = "finish"
    /\ FinishJob(disp[d].job, disp[d].outcome)
    /\ disp' = [disp EXCEPT ![d] = Idle]
    /\ UNCHANGED <<permitted, expired, began, workerVars, worldVars, faults>>

CoreCrash(d) ==
    /\ disp[d].pc # "idle" /\ Fault
    /\ disp' = [disp EXCEPT ![d] = Idle] /\ Abandon(d)
    /\ UNCHANGED <<coreVars, journal, worldVars>>

-----------------------------------------------------------------------------
(* The worker: one thread, one request at a time *)

Answer(to, state) ==
    disp' = IF to = None THEN disp ELSE [disp EXCEPT ![to] = NextCall(@, state)]

\* The request is done and its receipt goes to whoever still waits; or the check
\* after the call fails, of the daemon or of the five seconds the call may last:
\* the receipt is lost and the backend is closed for good.
Reply(state) ==
    \E kept \in BOOLEAN :
      /\ worker' = WorkerAt(IF kept THEN "idle" ELSE "closed", NoRequest)
      /\ Answer(worker.req.to, IF kept THEN state ELSE "error")

Write(r, s, i) ==
    journal' = [journal EXCEPT ![r.job][r.step] = [state |-> s, id |-> i]]

\* Mutant: an intent without a record of its effect is tried again.
UntriedBegun(row) == row.state \in {"prepared", "mutating"}

Untried(row) == row.state = "prepared"

Unsettled(row) == row.state \in {"mutating", "uncertain"}

\* apply refuses a new step that comes too late or out of order; reconcile
\* refuses a step it does not know.
Refused(r) ==
    /\ journal[r.job][r.step].state = "none"
    /\ \/ r.op = "reconcile" \/ expired[r.job]
       \/ r.step = "start" /\ journal[r.job]["create"].state # "succeeded"

\* apply and reconcile up to the first call of the engine.  A binding that
\* cannot be rebuilt is an error; so is a daemon that is not the one verified,
\* which also closes the backend.
Serve ==
    /\ worker.pc = "idle" /\ inbox # <<>>
    /\ inbox' = Tail(inbox)
    /\ LET r == Head(inbox)
           row == journal[r.job][r.step]
       IN \/ /\ Fault /\ Answer(r.to, "error") /\ UNCHANGED journal
             /\ \E pc \in {"idle", "closed"} : worker' = WorkerAt(pc, NoRequest)
          \/ /\ Refused(r)
             /\ Answer(r.to, "error") /\ UNCHANGED <<worker, journal, faults>>
          \/ /\ row.state = "none" /\ ~Refused(r) /\ Write(r, "prepared", 0)
             /\ worker' = WorkerAt("inspect", r) /\ UNCHANGED <<disp, faults>>
          \/ /\ Untried(row) /\ r.op = "apply"
             /\ worker' = WorkerAt("inspect", r)
             /\ UNCHANGED <<disp, journal, faults>>
          \/ /\ Unsettled(row)
             /\ worker' = WorkerAt("confirm", r)
             /\ UNCHANGED <<disp, journal, faults>>
          \/ /\ row.state \in {"succeeded", "needs_attention"}
             /\ Answer(r.to, row.state) /\ UNCHANGED <<worker, journal, faults>>
    /\ UNCHANGED <<coreVars, worldVars>>

\* A closed backend refuses every request there is.
ServeClosed ==
    /\ worker.pc = "closed" /\ inbox # <<>>
    /\ inbox' = Tail(inbox)
    /\ Answer(Head(inbox).to, "error")
    /\ UNCHANGED <<coreVars, worker, journal, worldVars, faults>>

\* Mutant: a container that is there under the name will do.
FitByName(r) ==
    IF r.step = "create" THEN container[r.job].status = "absent"
    ELSE container[r.job].status = "created"

\* What apply finds under the container's name lets the step begin.
Fit(r) ==
    LET c == container[r.job] IN
    IF r.step = "create" THEN c.status = "absent"
    ELSE c.status = "created" /\ c.id # 0 /\ c.id = journal[r.job]["create"].id

\* Mutant: the deadline is checked for new steps only.
BegunLate(r) == FALSE

\* The second look at the deadline, right before the intent is written.
TooLate(r) == expired[r.job]

\* apply: inspect, then write the intent.  The engine cannot be reached, or
\* (create only) the image is not the pinned one.
Inspect ==
    /\ worker.pc = "inspect"
    /\ LET r == worker.req
           c == container[r.job]
           id == IF r.step = "create" THEN 0 ELSE c.id
       IN \/ /\ Fault /\ Reply("prepared") /\ UNCHANGED journal
          \/ /\ r.step = "create" /\ Fault
             /\ Write(r, "needs_attention", 0) /\ Reply("needs_attention")
          \/ /\ ~Fit(r) \/ TooLate(r)
             /\ Write(r, "needs_attention", IF Fit(r) THEN id ELSE 0)
             /\ Reply("needs_attention") /\ UNCHANGED faults
          \/ /\ Fit(r) /\ ~TooLate(r)
             /\ Write(r, "mutating", id)
             /\ worker' = WorkerAt("submit", r) /\ UNCHANGED <<disp, faults>>
    /\ UNCHANGED <<coreVars, inbox, worldVars>>

Op(r) == [job |-> r.job, step |-> r.step, id |-> journal[r.job][r.step].id]

Submit ==
    /\ worker.pc = "submit"
    /\ engine' = engine \cup {Op(worker.req)}
    /\ worker' = WorkerAt("engine", worker.req)
    /\ UNCHANGED <<coreVars, disp, inbox, journal, container, meddling, creates,
                   starts, faults>>

Awaited(op) == worker.pc = "engine" /\ Op(worker.req) = op

\* The engine (external): what the operation does and what it answers.
EngineResult(op) ==
    LET c == container[op.job] IN
    IF op.step = "create"
    THEN IF c.status = "absent" THEN "done" ELSE "conflict"
    ELSE IF c.status # "absent" /\ c.id = op.id THEN "done" ELSE "error"

EngineEffect(op) ==
    LET j == op.job
        done == EngineResult(op) = "done"
    IN /\ engine' = engine \ {op}
       /\ creates' = IF done /\ op.step = "create"
                     THEN [creates EXCEPT ![j] = @ + 1] ELSE creates
       /\ starts' = IF done /\ op.step = "start" /\ container[j].status # "running"
                    THEN [starts EXCEPT ![j] = @ + 1] ELSE starts
       /\ container' = CASE ~done -> container
                         [] done /\ op.step = "create" ->
                              [container EXCEPT ![j] = [status |-> "created",
                                                        id |-> creates[j] + 1]]
                         [] OTHER -> [container EXCEPT ![j].status = "running"]
       /\ UNCHANGED meddling

\* The engine carries the operation out and the worker gets the answer: an
\* identity is recorded before it is confirmed.
EngineAnswers(op) ==
    /\ Awaited(op)
    /\ EngineEffect(op)
    /\ LET r == worker.req
           row == journal[r.job][r.step]
       IN CASE EngineResult(op) = "done" ->
                 /\ Write(r, "mutating",
                          IF r.step = "create" THEN creates[r.job] + 1 ELSE row.id)
                 /\ worker' = WorkerAt("confirm", r) /\ UNCHANGED disp
            [] EngineResult(op) = "conflict" ->
                 Write(r, "needs_attention", row.id) /\ Reply("needs_attention")
            [] OTHER -> Write(r, "uncertain", row.id) /\ Reply("uncertain")
    /\ UNCHANGED <<coreVars, inbox, faults>>

\* It carries the operation out and nobody hears of it.
EngineUnheard(op) ==
    /\ EngineEffect(op)
    /\ \/ ~Awaited(op) /\ UNCHANGED faults
       \/ Awaited(op) /\ Fault
    /\ UNCHANGED <<coreVars, disp, workerVars>>

EngineDrops(op) ==
    /\ Fault
    /\ engine' = engine \ {op}
    /\ UNCHANGED <<coreVars, disp, workerVars, container, meddling, creates, starts>>

\* The worker's thirty seconds with the engine are over; the operation may
\* still be carried out.
GiveUp ==
    /\ worker.pc = "engine"
    /\ \/ Op(worker.req) \notin engine /\ UNCHANGED faults
       \/ Op(worker.req) \in engine /\ Fault
    /\ Write(worker.req, "uncertain", Op(worker.req).id)
    /\ Reply("uncertain")
    /\ UNCHANGED <<coreVars, inbox, worldVars>>

\* _reconcile: the container under the name is the one this journal made, and
\* after a start it runs.
Confirmed(r) ==
    LET c == container[r.job]
        row == journal[r.job][r.step]
    IN IF c.id # 0 /\ (row.id # 0 => c.id = row.id)
          /\ (r.step = "start" => c.status = "running")
       THEN "succeeded" ELSE "needs_attention"

Confirm ==
    /\ worker.pc = "confirm"
    /\ LET r == worker.req
           row == journal[r.job][r.step]
       IN \/ Fault /\ Write(r, "uncertain", row.id) /\ Reply("uncertain")
          \/ /\ Write(r, Confirmed(r),
                      IF Confirmed(r) = "succeeded" THEN container[r.job].id
                      ELSE row.id)
             /\ Reply(Confirmed(r)) /\ UNCHANGED faults
    /\ UNCHANGED <<coreVars, inbox, worldVars>>

\* Queued connections end with the process, and so do the calls that wait.
WorkerEnds(pc) ==
    /\ worker' = WorkerAt(pc, NoRequest) /\ inbox' = <<>>
    /\ disp' = [d \in Dispatcher |->
                  IF disp[d].pc = "wait" THEN NextCall(disp[d], "error") ELSE disp[d]]
    /\ UNCHANGED <<coreVars, journal, worldVars>>

\* The process is killed, or its stop did not come to an end in time.
WorkerCrash == Listening /\ Fault /\ WorkerEnds("stale")

\* close, on SIGTERM: the request being served is finished first (its caller
\* gets no answer, which Timeout covers), then the endpoint is removed.
WorkerStop ==
    worker.pc \in {"idle", "closed"} /\ WorkerEnds("down") /\ UNCHANGED faults

\* start refuses an endpoint that is there.
WorkerStart ==
    /\ worker.pc = "down"
    /\ worker' = WorkerAt("idle", NoRequest)
    /\ UNCHANGED <<coreVars, disp, inbox, journal, worldVars, faults>>

\* The operator sees that the old process is gone and removes its endpoint.
Recover ==
    /\ worker.pc = "stale"
    /\ worker' = WorkerAt("down", NoRequest)
    /\ UNCHANGED <<coreVars, disp, inbox, journal, worldVars, faults>>

\* Somebody with access to the engine removes a container, takes or takes over
\* its name, or stops it.  (A start by hand is left out: the worker would confirm
\* it as its own, since all it looks at is that the container runs.)
Meddle(j) ==
    /\ meddling < MaxMeddling /\ meddling' = meddling + 1
    /\ LET s == container[j].status IN
       \/ s # "absent" /\ container' = [container EXCEPT ![j] = Absent]
       \/ container' = [container EXCEPT ![j] = [status |-> "created", id |-> 0]]
       \/ s = "running" /\ container' = [container EXCEPT ![j].status = "exited"]
    /\ UNCHANGED <<coreVars, disp, workerVars, engine, creates, starts, faults>>

-----------------------------------------------------------------------------
AdminStep == \E j \in Job : Create(j) \/ Cancel(j)
TimeStep == \E j \in Job : Withdraw(j) \/ Expire(j)
DispatcherStep ==
    \E d \in Dispatcher :
      (\E j \in Job : Pick(d, j)) \/ Call(d) \/ Timeout(d) \/ Finish(d)
DispatcherFault == \E d \in Dispatcher : CoreCrash(d)
WorkerStep == Serve \/ ServeClosed \/ Inspect \/ Submit \/ GiveUp \/ Confirm
OperatorStep == WorkerStop \/ WorkerStart \/ Recover
EngineStep == \E op \in engine : EngineAnswers(op) \/ EngineUnheard(op)
EngineFault == \E op \in engine : EngineDrops(op)

Next ==
    \/ AdminStep \/ TimeStep \/ DispatcherStep \/ DispatcherFault
    \/ WorkerStep \/ OperatorStep \/ EngineStep \/ EngineFault \/ WorkerCrash
    \/ \E j \in Job : Meddle(j)

\* The lifespan task calls tick() again a second after it returned, a call of
\* the worker takes five seconds at most, and no session lasts for ever.
\* Nothing is assumed of the worker, its operator or the engine.
Fairness ==
    /\ WF_vars(DispatcherStep)
    /\ \A j \in Job : WF_vars(Withdraw(j))

Spec == Init /\ [][Next]_vars /\ Fairness

-----------------------------------------------------------------------------
(* Properties *)

\* What a job looks like to a reader of the command ledger: a cancellation or
\* a call for attention after the dispatch says nothing about the effect.
LedgerStatus ==
    [j \in Job |->
       CASE job[j].state = "none" -> "none"
         [] job[j].state = "queued" -> "accepted"
         [] job[j].state = "running" -> "executing"
         [] job[j].state = "container_started" -> "succeeded"
         [] job[j].state = "cancelled" /\ j \notin began -> "cancelled"
         [] OTHER -> "unknown"]

CreateLedger == INSTANCE CommandLedger
    WITH Command <- Job, status <- LedgerStatus, effect <- creates
StartLedger == INSTANCE CommandLedger
    WITH Command <- Job, status <- LedgerStatus, effect <- starts

\* Across crashes of both processes, lost answers, repeated and stale requests,
\* each job creates at most one container and starts it at most once, neither
\* before it is dispatched nor if it was cancelled in the queue;
\* container_started means that both happened; a verdict, once given, stays.
LedgerSpecs == CreateLedger!Spec /\ StartLedger!Spec

\* The engine is only ever told to start the container this job's create step
\* is known to have made, whatever now has its name.
StartsOwn ==
    \A op \in engine :
      op.step = "start" =>
        /\ op.id # 0 /\ op.id = journal[op.job]["create"].id
        /\ journal[op.job]["create"].state = "succeeded"

\* At most one job is running, and the tick that is at a job is at that one.
OneRunning ==
    /\ \A j, k \in Job : job[j].state = "running" /\ job[k].state = "running" => j = k
    /\ \A d \in Dispatcher : disp[d].pc # "idle" => job[disp[d].job].state = "running"

Begun(j) ==
    \/ \E op \in engine : op.job = j
    \/ worker.pc \in {"submit", "engine"} /\ worker.req.job = j

\* Once the deadline has passed and nothing of the job is with the engine, no
\* request, however long it was queued or often repeated, starts anything.
QuietAfterDeadline ==
    [][\A j \in Job : expired[j] /\ ~Begun(j) =>
         ~Begun(j)' /\ creates'[j] = creates[j] /\ starts'[j] = starts[j]]_vars

\* An administrator's cancellation ends the job, even one the worker keeps
\* refusing.
CancelEnds == \A j \in Job : job[j].cancel ~> job[j].state = "cancelled"

\* A job ends, whatever becomes of the worker and the engine: at the latest when
\* the session that asked for it does.  It is all that ends a job whose deadline
\* passed before its step began, or whose worker stays closed or down.
EveryJobEnds == \A j \in Job : job[j].state \in Open ~> job[j].state \in Ended
=============================================================================
