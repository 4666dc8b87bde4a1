----------------------- MODULE MediaInstallations_proofs -----------------------
(***************************************************************************)
(* Proofs about MediaInstallations, for any jobs, dispatchers and backlog  *)
(* and any number of crashes, lost answers and interferences.              *)
(*                                                                         *)
(* The inductive invariant follows a request from the tick that sends it   *)
(* through the socket and the worker's journal to the engine: only a row   *)
(* that was never begun is submitted, so the engine holds at most one      *)
(* operation for each step of a job, and that one has had no effect yet.   *)
(***************************************************************************)
EXTENDS MediaInstallations, SequenceTheorems, FiniteSetTheorems, TLAPS

USE DEF Resting, WorkerPc

\* What a job's row says of its dispatch and of its effects.
JobFacts ==
    \A j \in Job :
      /\ job[j].state \in {"none", "queued"} => j \notin began
      /\ job[j].state \in {"running", "container_started"} => j \in began
      /\ job[j].state = "queued" => ~job[j].cancel
      /\ job[j].state = "container_started" => creates[j] = 1 /\ starts[j] = 1

\* One tick at a time, under the dispatch lock; a tick that succeeded has the
\* receipt of its second step.
TickFacts ==
    /\ \A d, e \in Dispatcher : disp[d].pc # "idle" /\ disp[e].pc # "idle" => d = e
    /\ \A d \in Dispatcher : disp[d].pc = "finish" /\ disp[d].outcome = "succeeded" =>
         journal[disp[d].job]["start"].state = "succeeded"

\* A request is of a job that was dispatched, and the tick it is answered to
\* still waits for it.
Sent(r) ==
    /\ r.job \in began
    /\ r.to # None => /\ disp[r.to].pc = "wait" /\ disp[r.to].job = r.job
                      /\ disp[r.to].step = r.step

Serving == worker.pc \notin Resting

RequestFacts ==
    /\ \A i \in 1..Len(inbox) : Sent(inbox[i])
    /\ Serving => Sent(worker.req)
    /\ \A i, k \in 1..Len(inbox) : inbox[i].to # None /\ inbox[i].to = inbox[k].to => i = k
    /\ Serving /\ worker.req.to # None =>
         \A i \in 1..Len(inbox) : inbox[i].to # worker.req.to

\* How often a step of a job took effect.
Effects(j, k) == IF k = "create" THEN creates[j] ELSE starts[j]

\* The worker's journal: a step is begun only by a dispatched job, and the
\* second only after the first; a success is an effect, and a step that was not
\* begun has none.
JournalFacts ==
    \A j \in Job :
      /\ \A k \in Step :
           /\ Effects(j, k) <= 1
           /\ journal[j][k].state # "none" => j \in began
           /\ journal[j][k].state \in {"none", "prepared"} => Effects(j, k) = 0
           /\ journal[j][k].state = "succeeded" => Effects(j, k) = 1
      /\ journal[j]["create"].state = "succeeded" => journal[j]["create"].id # 0
      /\ journal[j]["start"].state # "none" => journal[j]["create"].state = "succeeded"
      /\ container[j].id # 0 => creates[j] = 1
      /\ container[j].status = "running" => starts[j] = 1

\* What the engine was handed is the one attempt of a step, still to take effect.
EngineFacts ==
    /\ \A op \in engine :
         /\ Effects(op.job, op.step) = 0
         /\ journal[op.job][op.step].state \notin {"none", "prepared"}
    /\ \A o, p \in engine : o.job = p.job /\ o.step = p.step => o = p

\* Where the worker is with a request.
WorkerFacts ==
    Serving =>
      LET r == worker.req
          row == journal[r.job][r.step]
      IN /\ worker.pc = "inspect" => row.state = "prepared"
         /\ worker.pc \in {"submit", "engine"} => row.state = "mutating"
         /\ worker.pc = "confirm" => row.state \in {"mutating", "uncertain"}
         /\ worker.pc = "submit" =>
              /\ Effects(r.job, r.step) = 0
              /\ \A op \in engine : ~(op.job = r.job /\ op.step = r.step)
              /\ r.step = "start" => row.id # 0 /\ row.id = journal[r.job]["create"].id

IInv == /\ TypeOK /\ JobFacts /\ OneRunning /\ TickFacts /\ RequestFacts
        /\ JournalFacts /\ EngineFacts /\ StartsOwn /\ WorkerFacts

-----------------------------------------------------------------------------
(* Ticks, requests and rows *)

TickType == [pc : {"idle", "gate", "wait", "finish"}, job : Job \cup {None}, step : Step,
             op : Operation, outcome : Outcome]

\* What the type invariant says, part by part.
LEMMA Types ==
    ASSUME TypeOK
    PROVE  /\ job \in [Job -> [state : {"none"} \cup Open \cup Ended, cancel : BOOLEAN, seq : Nat]]
           /\ disp \in [Dispatcher -> TickType] /\ inbox \in Seq(Request)
           /\ worker \in [pc : WorkerPc,
                          req : Request \cup {NoRequest}]
           /\ journal \in [Job -> [Step -> Row]]
           /\ engine \in SUBSET [job : Job, step : Step, id : Nat]
           /\ container \in [Job -> Container]
           /\ creates \in [Job -> Nat] /\ starts \in [Job -> Nat] /\ began \in SUBSET Job
           /\ \A d \in Dispatcher : disp[d].pc # "idle" => disp[d].job \in Job
           /\ Serving => worker.req \in Request
           /\ faults \in 0..MaxFaults
BY DEF TypeOK, TickType, Serving

\* What a receipt, or an error, makes of a tick: it goes on to another call or
\* is about to finish, with success only on the receipt of the second step.
LEMMA NextCallFacts ==
    ASSUME NEW t \in TickType, NEW state
    PROVE  /\ NextCall(t, state) \in TickType /\ NextCall(t, state).job = t.job
           /\ NextCall(t, state).pc \in {"gate", "finish"}
           /\ NextCall(t, state).pc = "finish" /\ NextCall(t, state).outcome = "succeeded" =>
                state = "succeeded" /\ t.step = "start"
<1>1. CASE state = "succeeded" /\ t.step = "create"
  <2>1. NextCall(t, state) = [t EXCEPT !.pc = "gate", !.step = "start", !.op = "apply"]
    BY <1>1 DEF NextCall
  <2> QED
    BY <2>1 DEF TickType, Step, Operation
<1>2. CASE state = "succeeded" /\ t.step = "start"
  <2>1. NextCall(t, state) = [t EXCEPT !.pc = "finish", !.outcome = "succeeded"]
    BY <1>2 DEF NextCall
  <2> QED
    BY <1>2, <2>1 DEF TickType, Outcome
<1>3. CASE state = "uncertain" /\ t.op = "apply"
  <2>1. NextCall(t, state) = [t EXCEPT !.pc = "gate", !.op = "reconcile"]
    BY <1>3 DEF NextCall
  <2> QED
    BY <2>1 DEF TickType, Operation
<1>4. CASE state = "needs_attention"
  <2>1. NextCall(t, state) = [t EXCEPT !.pc = "finish", !.outcome = "needs_attention"]
    BY <1>4 DEF NextCall
  <2> QED
    BY <2>1 DEF TickType, Outcome
<1>5. CASE ~(state = "succeeded") /\ ~(state = "uncertain" /\ t.op = "apply")
           /\ ~(state = "needs_attention")
  <2>1. NextCall(t, state) = [t EXCEPT !.pc = "finish", !.outcome = "pending"]
    BY <1>5 DEF NextCall
  <2> QED
    BY <2>1 DEF TickType, Outcome
<1> QED
  BY <1>1, <1>2, <1>3, <1>4, <1>5 DEF TickType, Step

\* The tick that a request came from goes on, and no other tick does.
LEMMA AnswerFacts ==
    ASSUME IInv, NEW r \in Request, Sent(r), NEW state, Answer(r.to, state)
    PROVE  /\ disp' \in [Dispatcher -> TickType]
           /\ \A d \in Dispatcher :
                /\ disp'[d].job = disp[d].job /\ (disp'[d].pc # "idle" <=> disp[d].pc # "idle")
                /\ d # r.to => disp'[d] = disp[d]
                /\ disp'[d].pc = "finish" /\ disp'[d].outcome = "succeeded" =>
                     \/ disp'[d] = disp[d]
                     \/ disp[d].job = r.job /\ r.step = "start" /\ state = "succeeded"
<1>1. disp \in [Dispatcher -> TickType] /\ r.to \in Dispatcher \cup {None}
  BY Types DEF IInv, Request
<1>2. CASE r.to = None
  BY <1>1, <1>2, ConstantsAssumption DEF Answer
<1>3. CASE r.to # None
  <2>1. /\ r.to \in Dispatcher /\ disp[r.to].pc = "wait" /\ disp[r.to].job = r.job
        /\ disp[r.to].step = r.step /\ disp[r.to] \in TickType
    BY <1>1, <1>3 DEF Sent
  <2>2. disp' = [disp EXCEPT ![r.to] = NextCall(disp[r.to], state)]
    BY <1>3 DEF Answer
  <2>3. PICK n : n = NextCall(disp[r.to], state)
    OBVIOUS
  <2>4. /\ n \in TickType /\ n.job = r.job /\ n.pc \in {"gate", "finish"}
        /\ n.pc = "finish" /\ n.outcome = "succeeded" => state = "succeeded" /\ r.step = "start"
    BY <2>1, <2>3, NextCallFacts
  <2>5. disp' \in [Dispatcher -> TickType] /\ disp'[r.to] = n
        /\ \A d \in Dispatcher : d # r.to => disp'[d] = disp[d]
    BY <1>1, <2>1, <2>2, <2>3, <2>4
  <2> QED
    BY <2>1, <2>4, <2>5
<1> QED
  BY <1>2, <1>3

\* One row of the worker's journal is written.
LEMMA WriteFacts ==
    ASSUME TypeOK, NEW r, r.job \in Job, r.step \in Step, NEW s, NEW i \in Nat, Write(r, s, i),
           s \in {"prepared", "mutating", "uncertain", "succeeded", "needs_attention"}
    PROVE  /\ journal' \in [Job -> [Step -> Row]]
           /\ \A j \in Job, k \in Step :
                journal'[j][k] = IF j = r.job /\ k = r.step THEN [state |-> s, id |-> i]
                                                            ELSE journal[j][k]
<1>1. journal \in [Job -> [Step -> Row]] /\ [state |-> s, id |-> i] \in Row
  BY Types DEF Row
<1>2. journal' = [journal EXCEPT ![r.job] = [journal[r.job] EXCEPT ![r.step] = [state |-> s, id |-> i]]]
  BY DEF Write
<1>3. PICK row : row = [journal[r.job] EXCEPT ![r.step] = [state |-> s, id |-> i]]
  OBVIOUS
<1>4. /\ row \in [Step -> Row]
      /\ \A k \in Step : row[k] = IF k = r.step THEN [state |-> s, id |-> i] ELSE journal[r.job][k]
  BY <1>1, <1>3
<1>5. journal' \in [Job -> [Step -> Row]]
      /\ \A j \in Job : journal'[j] = IF j = r.job THEN row ELSE journal[j]
  BY <1>1, <1>2, <1>3, <1>4
<1> QED
  BY <1>4, <1>5

\* The bound on failures is kept.
LEMMA FaultsBounded ==
    ASSUME TypeOK, Fault \/ UNCHANGED faults
    PROVE  faults' \in 0..MaxFaults
BY ConstantsAssumption DEF TypeOK, Fault

\* What is queued in the worker's socket.
LEMMA InboxFacts ==
    ASSUME TypeOK
    PROVE  /\ inbox \in Seq(Request) /\ Len(inbox) \in Nat
           /\ \A i \in 1..Len(inbox) : inbox[i] \in Request /\ inbox[i].to \in Dispatcher \cup {None}
<1>1. inbox \in Seq(Request) /\ Len(inbox) \in Nat
  BY Types
<1>2. \A i \in 1..Len(inbox) : inbox[i] \in Request
  BY <1>1, ElementOfSeq, Zenon
<1> QED
  BY <1>1, <1>2 DEF Request

\* The requests of a dispatcher whose connection is gone are answered to nobody.
LEMMA AbandonFacts ==
    ASSUME IInv, NEW d \in Dispatcher, Abandon(d)
    PROVE  /\ inbox' \in Seq(Request) /\ Len(inbox') = Len(inbox)
           /\ \A i \in 1..Len(inbox) :
                /\ inbox'[i].job = inbox[i].job /\ inbox'[i].step = inbox[i].step
                /\ inbox'[i].to = IF inbox[i].to = d THEN None ELSE inbox[i].to
           /\ worker' \in [pc : WorkerPc,
                           req : Request \cup {NoRequest}]
           /\ worker'.pc = worker.pc /\ (Serving => worker'.req \in Request)
           /\ Serving => /\ worker'.req.job = worker.req.job /\ worker'.req.step = worker.req.step
                         /\ worker'.req.to = IF worker.req.to = d THEN None ELSE worker.req.to
<1>0. /\ inbox \in Seq(Request) /\ Len(inbox) \in Nat
      /\ worker \in [pc : WorkerPc,
                     req : Request \cup {NoRequest}]
      /\ Serving => worker.req \in Request
  BY Types DEF IInv
<1>1. ASSUME NEW r \in Request
      PROVE  /\ Abandoned(r, d) \in Request /\ Abandoned(r, d).job = r.job
             /\ Abandoned(r, d).step = r.step
             /\ Abandoned(r, d).to = IF r.to = d THEN None ELSE r.to
  BY DEF Abandoned, Request
<1>2. Abandoned(NoRequest, d) = NoRequest
  <2>1. None # d
    BY ConstantsAssumption
  <2> QED
    BY <2>1 DEF Abandoned, NoRequest
<1>3. \A i \in 1..Len(inbox) : inbox[i] \in Request
  BY <1>0, ElementOfSeq, Zenon
<1>4. inbox' = [i \in 1..Len(inbox) |-> Abandoned(inbox[i], d)]
  BY DEF Abandon
<1>5. inbox' \in Seq(Request) /\ Len(inbox') = Len(inbox)
  BY <1>0, <1>1, <1>3, <1>4
<1>6. worker' = [worker EXCEPT !.req = Abandoned(worker.req, d)]
  BY DEF Abandon
<1>7. worker.req \in Request \cup {NoRequest}
  BY <1>0
<1>8. Abandoned(worker.req, d) \in Request \cup {NoRequest}
  BY <1>1, <1>2, <1>7
<1>9. /\ worker'.pc = worker.pc /\ worker'.req = Abandoned(worker.req, d)
      /\ worker' \in [pc : WorkerPc,
                      req : Request \cup {NoRequest}]
  BY <1>0, <1>6, <1>8
<1>10. \A i \in 1..Len(inbox) :
         /\ inbox'[i].job = inbox[i].job /\ inbox'[i].step = inbox[i].step
         /\ inbox'[i].to = IF inbox[i].to = d THEN None ELSE inbox[i].to
  BY <1>1, <1>3, <1>4
<1>11. Serving => /\ worker'.req.job = worker.req.job /\ worker'.req.step = worker.req.step
                  /\ worker'.req.to = IF worker.req.to = d THEN None ELSE worker.req.to
                  /\ worker'.req \in Request
  BY <1>0, <1>1, <1>9
<1> QED
  BY <1>5, <1>9, <1>10, <1>11

\* The types again, part by part.
LEMMA TypesAgain ==
    ASSUME job' \in [Job -> [state : {"none"} \cup Open \cup Ended, cancel : BOOLEAN, seq : Nat]],
           permitted' \in [Job -> BOOLEAN], expired' \in [Job -> BOOLEAN],
           disp' \in [Dispatcher -> TickType], inbox' \in Seq(Request),
           worker' \in [pc : WorkerPc,
                        req : Request \cup {NoRequest}],
           journal' \in [Job -> [Step -> Row]],
           engine' \in SUBSET [job : Job, step : Step, id : Nat],
           container' \in [Job -> Container],
           faults' \in 0..MaxFaults, meddling' \in 0..MaxMeddling,
           creates' \in [Job -> Nat], starts' \in [Job -> Nat], began' \in SUBSET Job,
           \A d \in Dispatcher : disp'[d].pc # "idle" => disp'[d].job \in Job,
           worker'.pc \notin Resting => worker'.req \in Request
    PROVE  TypeOK'
BY DEF TypeOK, TickType

\* Where the worker, its journal and the engine rest.
LEMMA WorldKept ==
    ASSUME IInv, UNCHANGED <<journal, engine, container, creates, starts>>, began \subseteq began'
    PROVE  JournalFacts' /\ EngineFacts' /\ StartsOwn'
<1>1. JournalFacts'
  BY DEF IInv, JournalFacts, Effects
<1>2. EngineFacts' /\ StartsOwn'
  BY DEF IInv, EngineFacts, StartsOwn, Effects
<1> QED
  BY <1>1, <1>2

\* The same of the request that the worker is at.
LEMMA ServedKept ==
    ASSUME IInv, UNCHANGED <<journal, engine, creates, starts>>, worker'.pc = worker.pc,
           Serving => worker'.req.job = worker.req.job /\ worker'.req.step = worker.req.step
    PROVE  WorkerFacts'
BY DEF IInv, WorkerFacts, Serving, Effects

\* Where no tick and no request moves.
LEMMA RequestsKept ==
    ASSUME IInv, UNCHANGED <<inbox, worker, disp>>, began \subseteq began'
    PROVE  RequestFacts'
BY DEF IInv, RequestFacts, Sent, Serving

-----------------------------------------------------------------------------
(* Core *)

\* Requests of administrators, and time.
LEMMA AdminSteps ==
    ASSUME IInv, NEW j \in Job, Create(j) \/ Cancel(j) \/ Withdraw(j) \/ Expire(j)
    PROVE  IInv'
<1>0. TypeOK /\ UNCHANGED <<disp, inbox, worker, journal, engine, container, meddling,
                            creates, starts, began, faults>>
  BY DEF IInv, Create, Cancel, Withdraw, Expire, workerVars, worldVars
<1>1. /\ job' \in [Job -> [state : {"none"} \cup Open \cup Ended, cancel : BOOLEAN, seq : Nat]]
      /\ \A k \in Job : \/ job'[k] = job[k]
                        \/ job[k].state = "none" /\ job'[k].state = "queued" /\ ~job'[k].cancel
                        \/ job[k].state = "queued" /\ job'[k].state = "cancelled"
                        \/ job[k].state = "running" /\ job'[k].state = "running"
  <2>0. job \in [Job -> [state : {"none"} \cup Open \cup Ended, cancel : BOOLEAN, seq : Nat]]
    BY <1>0, Types
  <2>1. CASE Create(j)
    <3>1. PICK n : n = Cardinality({k \in Job : job[k].state # "none"}) + 1
      OBVIOUS
    <3>2. n \in Nat
      <4>1. IsFiniteSet({k \in Job : job[k].state # "none"})
        BY ConstantsAssumption, FS_Subset
      <4>2. Cardinality({k \in Job : job[k].state # "none"}) \in Nat
        BY <4>1, FS_CardinalityType
      <4> QED
        BY <3>1, <4>2
    <3>3. job[j].state = "none"
          /\ job' = [job EXCEPT ![j] = [state |-> "queued", cancel |-> FALSE, seq |-> n]]
      BY <2>1, <3>1 DEF Create
    <3> QED
      BY <2>0, <3>2, <3>3 DEF Open, Ended
  <2>2. CASE Cancel(j)
    <3>1. /\ job[j].state \in Open
          /\ job' = [job EXCEPT ![j].cancel = TRUE,
                                ![j].state = IF @ = "queued" THEN "cancelled" ELSE @]
      BY <2>2 DEF Cancel
    <3>2. PICK n : n = IF job[j].state = "queued" THEN "cancelled" ELSE job[j].state
      OBVIOUS
    <3>3. job' = [job EXCEPT ![j] = [job[j] EXCEPT !.cancel = TRUE, !.state = n]]
      BY <2>0, <3>1, <3>2
    <3>4. n \in {"none"} \cup Open \cup Ended
      BY <3>1, <3>2 DEF Open, Ended
    <3>5. PICK r : r = [job[j] EXCEPT !.cancel = TRUE, !.state = n]
      OBVIOUS
    <3>6. r \in [state : {"none"} \cup Open \cup Ended, cancel : BOOLEAN, seq : Nat] /\ r.state = n
      BY <2>0, <3>4, <3>5
    <3> QED
      BY <2>0, <3>1, <3>2, <3>3, <3>5, <3>6 DEF Open
  <2>3. CASE Withdraw(j) \/ Expire(j)
    BY <2>0, <2>3 DEF Withdraw, Expire
  <2> QED
    BY <2>1, <2>2, <2>3
<1>2. permitted' \in [Job -> BOOLEAN] /\ expired' \in [Job -> BOOLEAN]
  BY <1>0 DEF Create, Cancel, Withdraw, Expire, TypeOK
<1>3. TypeOK'
  BY <1>0, <1>1, <1>2 DEF TypeOK
<1>4. JobFacts'
  BY <1>0, <1>1 DEF IInv, JobFacts
<1>5. OneRunning' /\ TickFacts'
  <2>1. \A k \in Job : job'[k].state = "running" <=> job[k].state = "running"
    BY <1>1
  <2>2. \A d \in Dispatcher : disp[d].pc # "idle" => disp[d].job \in Job
    BY <1>0, Types
  <2>3. OneRunning'
    BY <1>0, <2>1, <2>2 DEF IInv, OneRunning
  <2>4. TickFacts'
    BY <1>0 DEF IInv, TickFacts
  <2> QED
    BY <2>3, <2>4
<1>6. RequestFacts' /\ JournalFacts' /\ EngineFacts' /\ StartsOwn' /\ WorkerFacts'
  BY <1>0, WorldKept, ServedKept, RequestsKept
<1> QED
  BY <1>3, <1>4, <1>5, <1>6 DEF IInv

\* The first transaction of a tick.
LEMMA PickStep ==
    ASSUME IInv, NEW d \in Dispatcher, NEW j \in Job, Pick(d, j)
    PROVE  IInv'
<1>0. /\ TypeOK /\ UNCHANGED <<permitted, expired, inbox, worker, journal, engine, container,
                               meddling, creates, starts, faults>>
      /\ \A e \in Dispatcher : disp[e].pc = "idle"
      /\ job \in [Job -> [state : {"none"} \cup Open \cup Ended, cancel : BOOLEAN, seq : Nat]]
      /\ disp \in [Dispatcher -> TickType] /\ began \in SUBSET Job
  BY Types DEF IInv, Pick, workerVars, worldVars, LockFree
<1>1. job[j].state \in Open /\ \A k \in Job : job[k].state = "running" => job[j].state = "running" /\ j = k
  <2>1. job[j].state \in Open
    BY DEF Pick, First
  <2>2. ASSUME NEW k \in Job, k # j, job[k].state = "running" PROVE job[j].state = "running"
    BY <2>2 DEF Pick, First, Open
  <2> QED
    BY <2>1, <2>2 DEF IInv, OneRunning
<1>2. CASE Verdict(j) = "allowed"
  <2>0. /\ job' = [job EXCEPT ![j].state = "running"]
        /\ disp' = [disp EXCEPT ![d] = [Idle EXCEPT !.pc = "gate", !.job = j]]
        /\ began' = began \cup {j}
    BY <1>2 DEF Pick
  <2>1. /\ job' \in [Job -> [state : {"none"} \cup Open \cup Ended, cancel : BOOLEAN, seq : Nat]]
        /\ job'[j].state = "running" /\ \A k \in Job : k # j => job'[k] = job[k]
    <3>1. PICK r : r = [job[j] EXCEPT !.state = "running"]
      OBVIOUS
    <3>2. r \in [state : {"none"} \cup Open \cup Ended, cancel : BOOLEAN, seq : Nat]
          /\ r.state = "running"
      BY <1>0, <3>1 DEF Open
    <3> QED
      BY <1>0, <2>0, <3>1, <3>2
  <2>2. PICK t : t = [Idle EXCEPT !.pc = "gate", !.job = j]
    OBVIOUS
  <2>3. t \in TickType /\ t.pc = "gate" /\ t.job = j
    BY <2>2 DEF Idle, TickType, Step, Operation, Outcome
  <2>4. /\ disp' \in [Dispatcher -> TickType] /\ disp'[d] = t
        /\ \A e \in Dispatcher : e # d => disp'[e] = disp[e]
    BY <1>0, <2>0, <2>2, <2>3
  <2>5. TypeOK'
    <3>1. /\ began' \in SUBSET Job
          /\ \A e \in Dispatcher : disp'[e].pc # "idle" => disp'[e].job \in Job
      BY <1>0, <2>0, <2>3, <2>4
    <3> QED
      BY <1>0, <2>1, <2>4, <3>1 DEF TypeOK, TickType
  <2>6. JobFacts'
    BY <1>0, <2>0, <2>1 DEF IInv, JobFacts
  <2>7. OneRunning'
    <3>1. \A k \in Job : job'[k].state = "running" => k = j
      BY <1>1, <2>1
    <3> QED
      BY <1>0, <2>1, <2>3, <2>4, <3>1 DEF OneRunning
  <2>8. TickFacts'
    BY <1>0, <2>3, <2>4 DEF TickFacts
  <2>9. ASSUME NEW r, r.to \in Dispatcher \cup {None}, Sent(r) PROVE Sent(r)' /\ r.to = None
    <3>1. r.to = None
      BY <1>0, <2>9 DEF Sent
    <3> QED
      BY <2>0, <2>9, <3>1 DEF Sent
  <2>10. RequestFacts'
    <3>1. \A i \in 1..Len(inbox) : inbox[i] \in Request /\ inbox[i].to \in Dispatcher \cup {None}
      BY <1>0, InboxFacts
    <3>2. Serving => worker.req.to \in Dispatcher \cup {None}
      BY <1>0, Types DEF Request
    <3>3. \A i \in 1..Len(inbox) : Sent(inbox[i]) /\ inbox[i].to = None
      BY <2>9, <3>1 DEF IInv, RequestFacts
    <3>4. Serving => Sent(worker.req) /\ worker.req.to = None
      BY <2>9, <3>2 DEF IInv, RequestFacts
    <3> QED
      BY <1>0, <2>0, <3>3, <3>4 DEF RequestFacts, Sent, Serving
  <2>11. JournalFacts' /\ EngineFacts' /\ StartsOwn' /\ WorkerFacts'
    BY <1>0, <2>0, WorldKept, ServedKept
  <2> QED
    BY <2>5, <2>6, <2>7, <2>8, <2>10, <2>11 DEF IInv
<1>3. CASE Verdict(j) # "allowed"
  <2>0. UNCHANGED <<disp, began>>
        /\ job' = [job EXCEPT ![j].state = Verdict(j), ![j].cancel = (Verdict(j) = "cancelled")]
    BY <1>3 DEF Pick, EndJob
  <2>1. PICK s : s = Verdict(j)
    OBVIOUS
  <2>2. s \in {"cancelled", "needs_attention"}
    BY <1>3, <2>1 DEF Verdict
  <2>3. /\ job' \in [Job -> [state : {"none"} \cup Open \cup Ended, cancel : BOOLEAN, seq : Nat]]
        /\ job'[j].state = s /\ \A k \in Job : k # j => job'[k] = job[k]
    <3>1. PICK r : r = [job[j] EXCEPT !.state = s, !.cancel = (s = "cancelled")]
      OBVIOUS
    <3>2. r \in [state : {"none"} \cup Open \cup Ended, cancel : BOOLEAN, seq : Nat] /\ r.state = s
      BY <1>0, <2>2, <3>1 DEF Ended
    <3>3. job' = [job EXCEPT ![j] = r]
      BY <1>0, <2>0, <2>1, <3>1
    <3> QED
      BY <1>0, <3>2, <3>3
  <2>4. TypeOK'
    BY <1>0, <2>0, <2>3 DEF TypeOK
  <2>5. JobFacts'
    BY <1>0, <2>0, <2>2, <2>3 DEF IInv, JobFacts
  <2>6. OneRunning' /\ TickFacts'
    BY <1>0, <1>1, <2>0, <2>2, <2>3 DEF OneRunning, TickFacts
  <2>7. RequestFacts' /\ JournalFacts' /\ EngineFacts' /\ StartsOwn' /\ WorkerFacts'
    BY <1>0, <2>0, WorldKept, ServedKept, RequestsKept
  <2> QED
    BY <2>4, <2>5, <2>6, <2>7 DEF IInv
<1> QED
  BY <1>2, <1>3

\* A tick goes on, or gives up, without the worker: its call is refused by the
\* gate or finds no worker, times out, or ends with its process.
LEMMA TickMoves ==
    ASSUME IInv, NEW d \in Dispatcher, NEW t \in TickType, disp' = [disp EXCEPT ![d] = t],
           disp[d].pc # "idle", t.job = disp[d].job, t.pc # "idle",
           t.pc = "finish" => t.outcome # "succeeded",
           UNCHANGED <<job, permitted, expired, began, journal, engine, container, meddling,
                       creates, starts>>,
           faults' \in 0..MaxFaults,
           inbox' \in Seq(Request),
           worker' \in [pc : WorkerPc,
                        req : Request \cup {NoRequest}],
           worker'.pc = worker.pc,
           Serving => /\ worker'.req \in Request
                      /\ worker'.req.job = worker.req.job /\ worker'.req.step = worker.req.step,
           RequestFacts'
    PROVE  IInv'
<1>0. TypeOK /\ disp \in [Dispatcher -> TickType] /\ disp[d].job \in Job
  BY Types DEF IInv
<1>1. /\ disp' \in [Dispatcher -> TickType] /\ disp'[d] = t
      /\ \A e \in Dispatcher : e # d => disp'[e] = disp[e]
  BY <1>0
<1>2. TypeOK'
  <2>1. \A e \in Dispatcher : disp'[e].pc # "idle" => disp'[e].job \in Job
    BY <1>0, <1>1, Types
  <2>2. worker'.pc \notin Resting => worker'.req \in Request
    BY DEF Serving
  <2> QED
    BY <1>0, <1>1, <2>1, <2>2 DEF TypeOK, TickType
<1>3. JobFacts'
  BY DEF IInv, JobFacts
<1>4. OneRunning'
  BY <1>1 DEF IInv, OneRunning
<1>5. TickFacts'
  BY <1>1 DEF IInv, TickFacts
<1>6. JournalFacts' /\ EngineFacts' /\ StartsOwn' /\ WorkerFacts'
  BY WorldKept, ServedKept
<1> QED
  BY <1>2, <1>3, <1>4, <1>5, <1>6 DEF IInv

\* The gate before a call, and the call.
LEMMA CallStep ==
    ASSUME IInv, NEW d \in Dispatcher, Call(d)
    PROVE  IInv'
<1>0. /\ TypeOK /\ disp \in [Dispatcher -> TickType] /\ disp[d].job \in Job /\ disp[d].pc = "gate"
      /\ disp[d] \in TickType
  BY Types DEF IInv, Call
<1>1. /\ UNCHANGED <<job, permitted, expired, began, worker, journal, engine, container, meddling,
                     creates, starts, faults>>
      /\ faults' \in 0..MaxFaults
      /\ worker' \in [pc : WorkerPc,
                      req : Request \cup {NoRequest}]
      /\ Serving => worker'.req \in Request
  BY <1>0, Types DEF Call, coreVars, worldVars
<1>2. /\ inbox \in Seq(Request) /\ Len(inbox) \in Nat
      /\ \A i \in 1..Len(inbox) : inbox[i] \in Request /\ inbox[i].to \in Dispatcher \cup {None}
  BY <1>0, InboxFacts
<1>3. \A r \in Request : Sent(r) => r.to # d
  BY <1>0, ConstantsAssumption DEF Sent
<1>4. ASSUME NEW t \in TickType, disp' = [disp EXCEPT ![d] = t],
             NEW r \in Request, Sent(r)
      PROVE  Sent(r)'
  BY <1>0, <1>1, <1>3, <1>4 DEF Sent, Request
<1>5. ASSUME NEW o \in {"cancelled", "needs_attention", "pending"}, Conclude(d, o), UNCHANGED inbox
      PROVE  IInv'
  <2>1. PICK t : t = [disp[d] EXCEPT !.pc = "finish", !.outcome = o]
    OBVIOUS
  <2>2. t \in TickType /\ t.pc = "finish" /\ t.outcome = o /\ t.job = disp[d].job
    BY <1>0, <2>1 DEF TickType, Outcome
  <2>3. disp' = [disp EXCEPT ![d] = t]
    BY <1>0, <1>5, <2>1 DEF Conclude
  <2>4. \A i \in 1..Len(inbox) : Sent(inbox[i])
    BY DEF IInv, RequestFacts
  <2>5. Serving => Sent(worker.req) /\ worker.req \in Request
    BY <1>0, Types DEF IInv, RequestFacts
  <2>6. RequestFacts'
    <3>1. \A r \in Request : Sent(r) => Sent(r)'
      BY <1>4, <2>2, <2>3
    <3> QED
      BY <1>1, <1>2, <1>5, <2>4, <2>5, <3>1 DEF IInv, RequestFacts, Serving, Sent
  <2> QED
    BY <1>0, <1>1, <1>2, <1>5, <2>2, <2>3, <2>6, TickMoves
<1>6. CASE /\ inbox' = Append(inbox, [job |-> disp[d].job, step |-> disp[d].step,
                                      op |-> disp[d].op, to |-> d])
           /\ disp' = [disp EXCEPT ![d].pc = "wait"]
  <2>1. PICK t : t = [disp[d] EXCEPT !.pc = "wait"]
    OBVIOUS
  <2>2. t \in TickType /\ t.pc = "wait" /\ t.job = disp[d].job /\ t.step = disp[d].step
    BY <1>0, <2>1 DEF TickType
  <2>3. disp' = [disp EXCEPT ![d] = t] /\ disp'[d] = t
    BY <1>0, <1>6, <2>1
  <2>4. PICK q : q = [job |-> disp[d].job, step |-> disp[d].step, op |-> disp[d].op, to |-> d]
    OBVIOUS
  <2>5. q \in Request /\ q.job = disp[d].job /\ q.step = disp[d].step /\ q.to = d
    BY <1>0, <2>4 DEF Request, TickType
  <2>6. /\ inbox' \in Seq(Request) /\ Len(inbox') = Len(inbox) + 1
        /\ \A i \in 1..Len(inbox) : inbox'[i] = inbox[i]
        /\ inbox'[Len(inbox) + 1] = q
    BY <1>2, <1>6, <2>4, <2>5
  <2>7. disp[d].job \in began'
    <3>1. job[disp[d].job].state = "running"
      BY <1>0 DEF IInv, OneRunning
    <3> QED
      BY <1>0, <1>1, <3>1 DEF IInv, JobFacts
  <2>8. q.job \in began' /\ disp'[q.to].pc = "wait" /\ disp'[q.to].job = q.job /\ disp'[q.to].step = q.step
    BY <2>2, <2>3, <2>5, <2>7
  <2>9. \A i \in 1..Len(inbox) : Sent(inbox[i]) /\ inbox[i].to # d
    BY <1>2, <1>3 DEF IInv, RequestFacts
  <2>10. Serving => Sent(worker.req) /\ worker.req \in Request /\ worker.req.to # d
    BY <1>0, <1>3, Types DEF IInv, RequestFacts
  <2>11. RequestFacts'
    <3>0. \A r \in Request : Sent(r) => Sent(r)'
      BY <1>4, <2>2, <2>3
    <3>1. \A i \in 1..Len(inbox') : i \in 1..Len(inbox) \/ i = Len(inbox) + 1
      BY <1>2, <2>6
    <3>2. \A i \in 1..Len(inbox') : Sent(inbox[i])' 
      BY <1>2, <2>6, <2>8, <2>9, <3>0, <3>1 DEF Sent
    <3>3. Serving => Sent(worker.req)'
      BY <1>1, <2>10, <3>0 DEF Sent
    <3>4. \A i, k \in 1..Len(inbox') : inbox'[i].to # None /\ inbox'[i].to = inbox'[k].to => i = k
      BY <2>5, <2>6, <2>9, <3>1 DEF IInv, RequestFacts
    <3>5. Serving /\ worker.req.to # None => \A i \in 1..Len(inbox') : inbox'[i].to # worker.req.to
      BY <2>5, <2>6, <2>10, <3>1 DEF IInv, RequestFacts
    <3> QED
      BY <1>1, <3>2, <3>3, <3>4, <3>5 DEF RequestFacts, Serving
  <2> QED
    BY <1>0, <1>1, <2>2, <2>3, <2>6, <2>11, TickMoves
<1>7. CASE Verdict(disp[d].job) # "allowed" /\ Conclude(d, Verdict(disp[d].job)) /\ UNCHANGED inbox
  <2>1. Verdict(disp[d].job) \in {"cancelled", "needs_attention"}
    BY <1>7 DEF Verdict
  <2> QED
    BY <1>5, <1>7, <2>1
<1> QED
  BY <1>5, <1>6, <1>7 DEF Call

\* The last transaction of a tick.
LEMMA FinishStep ==
    ASSUME IInv, NEW d \in Dispatcher, Finish(d)
    PROVE  IInv'
<1>0. /\ TypeOK /\ disp \in [Dispatcher -> TickType] /\ disp[d].job \in Job /\ disp[d].pc = "finish"
      /\ job \in [Job -> [state : {"none"} \cup Open \cup Ended, cancel : BOOLEAN, seq : Nat]]
  BY Types DEF IInv, Finish
<1>1. /\ UNCHANGED <<permitted, expired, began, inbox, worker, journal, engine, container, meddling,
                     creates, starts, faults>>
      /\ disp' = [disp EXCEPT ![d] = Idle]
  BY DEF Finish, workerVars, worldVars
<1>2. job[disp[d].job].state = "running" /\ \A e \in Dispatcher : e # d => disp[e].pc = "idle"
  BY <1>0 DEF IInv, OneRunning, TickFacts
<1>3. /\ job' \in [Job -> [state : {"none"} \cup Open \cup Ended, cancel : BOOLEAN, seq : Nat]]
      /\ \A k \in Job : k # disp[d].job => job'[k] = job[k]
      /\ job'[disp[d].job].state \in {"running", "cancelled", "needs_attention", "container_started"}
      /\ job'[disp[d].job].state = "container_started" => disp[d].outcome = "succeeded"
  <2>1. ASSUME NEW s \in {"cancelled", "needs_attention", "container_started"}, NEW c \in BOOLEAN,
               EndJob(disp[d].job, s, c)
        PROVE  /\ job' \in [Job -> [state : {"none"} \cup Open \cup Ended, cancel : BOOLEAN, seq : Nat]]
               /\ \A k \in Job : k # disp[d].job => job'[k] = job[k]
               /\ job'[disp[d].job].state = s
    <3>1. PICK r : r = [job[disp[d].job] EXCEPT !.state = s, !.cancel = c]
      OBVIOUS
    <3>2. r \in [state : {"none"} \cup Open \cup Ended, cancel : BOOLEAN, seq : Nat] /\ r.state = s
      BY <1>0, <3>1 DEF Ended
    <3>3. job' = [job EXCEPT ![disp[d].job] = r]
      BY <1>0, <2>1, <3>1 DEF EndJob
    <3> QED
      BY <1>0, <3>2, <3>3
  <2>2. CASE EndJob(disp[d].job, "cancelled", TRUE)
    BY <2>1, <2>2
  <2>3. CASE EndJob(disp[d].job, "container_started", FALSE) /\ disp[d].outcome = "succeeded"
    BY <2>1, <2>3
  <2>4. CASE EndJob(disp[d].job, "needs_attention", FALSE)
    BY <2>1, <2>4
  <2>5. CASE UNCHANGED job
    BY <1>0, <1>2, <2>5
  <2> QED
    BY <2>2, <2>3, <2>4, <2>5 DEF Finish, FinishJob
<1>4. /\ disp' \in [Dispatcher -> TickType] /\ \A e \in Dispatcher : disp'[e].pc = "idle"
  <2>1. Idle \in TickType /\ Idle.pc = "idle"
    BY DEF Idle, TickType, Step, Operation, Outcome
  <2> QED
    BY <1>0, <1>1, <1>2, <2>1
<1>5. TypeOK'
  BY <1>0, <1>1, <1>3, <1>4 DEF TypeOK, TickType
<1>6. JobFacts'
  <2>1. disp[d].outcome = "succeeded" => creates[disp[d].job] = 1 /\ starts[disp[d].job] = 1
    <3>1. SUFFICES ASSUME disp[d].outcome = "succeeded"
                   PROVE  creates[disp[d].job] = 1 /\ starts[disp[d].job] = 1
      OBVIOUS
    <3>2. journal[disp[d].job]["start"].state = "succeeded"
      BY <1>0, <3>1 DEF IInv, TickFacts
    <3>3. journal[disp[d].job]["create"].state = "succeeded"
      BY <1>0, <3>2 DEF IInv, JournalFacts
    <3>4. "create" \in Step /\ "start" \in Step
      BY DEF Step
    <3> QED
      BY <1>0, <3>2, <3>3, <3>4 DEF IInv, JournalFacts, Effects
  <2>2. disp[d].job \in began
    BY <1>0, <1>2 DEF IInv, JobFacts
  <2> QED
    BY <1>0, <1>1, <1>3, <2>1, <2>2 DEF IInv, JobFacts
<1>7. OneRunning'
  <2>1. \A k \in Job : job'[k].state = "running" => job[k].state = "running"
    BY <1>0, <1>2, <1>3
  <2> QED
    BY <1>4, <2>1 DEF IInv, OneRunning
<1>8. TickFacts'
  BY <1>4 DEF TickFacts
<1>9. RequestFacts'
  <2>1. \A r \in Request : Sent(r) => r.to = None
    BY <1>0, <1>2 DEF Sent, Request
  <2>2. \A i \in 1..Len(inbox) : Sent(inbox[i]) /\ inbox[i].to = None
    BY <1>0, <2>1, InboxFacts DEF IInv, RequestFacts
  <2>3. Serving => Sent(worker.req) /\ worker.req.to = None
    BY <1>0, <2>1, Types DEF IInv, RequestFacts
  <2> QED
    BY <1>1, <2>2, <2>3 DEF RequestFacts, Sent, Serving
<1>10. JournalFacts' /\ EngineFacts' /\ StartsOwn' /\ WorkerFacts'
  BY <1>1, WorldKept, ServedKept
<1> QED
  BY <1>5, <1>6, <1>7, <1>8, <1>9, <1>10 DEF IInv

\* Once a dispatcher's requests are abandoned, whatever its tick does is right
\* for the requests that are left.
LEMMA AbandonedRequests ==
    ASSUME IInv, NEW d \in Dispatcher, Abandon(d), NEW t, disp' = [disp EXCEPT ![d] = t],
           began' = began
    PROVE  RequestFacts'
<1>0. TypeOK /\ None \notin Dispatcher /\ disp \in [Dispatcher -> TickType]
  BY ConstantsAssumption, Types DEF IInv
<1>1. /\ Len(inbox') = Len(inbox)
      /\ \A i \in 1..Len(inbox) :
           /\ inbox'[i].job = inbox[i].job /\ inbox'[i].step = inbox[i].step
           /\ inbox'[i].to = IF inbox[i].to = d THEN None ELSE inbox[i].to
      /\ worker'.pc = worker.pc
      /\ Serving => /\ worker'.req.job = worker.req.job /\ worker'.req.step = worker.req.step
                    /\ worker'.req.to = IF worker.req.to = d THEN None ELSE worker.req.to
  BY AbandonFacts
<1>2. /\ \A i \in 1..Len(inbox) : inbox[i].to \in Dispatcher \cup {None}
      /\ Serving => worker.req.to \in Dispatcher \cup {None}
  BY <1>0, InboxFacts, Types DEF Request
<1>3. \A e \in Dispatcher : e # d => disp'[e] = disp[e]
  BY <1>0
<1>4. \A i \in 1..Len(inbox') : Sent(inbox[i])'
  BY <1>0, <1>1, <1>2, <1>3 DEF IInv, RequestFacts, Sent
<1>5. Serving' => Sent(worker.req)'
  BY <1>0, <1>1, <1>2, <1>3 DEF IInv, RequestFacts, Sent, Serving
<1>6. \A i, k \in 1..Len(inbox') : inbox'[i].to # None /\ inbox'[i].to = inbox'[k].to => i = k
  BY <1>1 DEF IInv, RequestFacts
<1>7. Serving' /\ worker'.req.to # None =>
        \A i \in 1..Len(inbox') : inbox'[i].to # worker'.req.to
  BY <1>1 DEF IInv, RequestFacts, Serving
<1> QED
  BY <1>4, <1>5, <1>6, <1>7 DEF RequestFacts

\* A call that ends without an answer.
LEMMA TimeoutStep ==
    ASSUME IInv, NEW d \in Dispatcher, Timeout(d)
    PROVE  IInv'
<1>0. /\ TypeOK /\ disp \in [Dispatcher -> TickType] /\ disp[d] \in TickType /\ disp[d].pc = "wait"
  BY Types DEF IInv, Timeout
<1>1. /\ UNCHANGED <<job, permitted, expired, began, journal, engine, container, meddling,
                     creates, starts>>
      /\ Abandon(d) /\ Conclude(d, "pending") /\ UNCHANGED faults
  BY DEF Timeout, coreVars, worldVars
<1>2. PICK t : t = [disp[d] EXCEPT !.pc = "finish", !.outcome = "pending"]
  OBVIOUS
<1>3. t \in TickType /\ t.pc = "finish" /\ t.outcome = "pending" /\ t.job = disp[d].job
  BY <1>0, <1>2 DEF TickType, Outcome
<1>4. disp' = [disp EXCEPT ![d] = t]
  BY <1>0, <1>1, <1>2 DEF Conclude
<1>5. RequestFacts'
  BY <1>1, <1>4, AbandonedRequests
<1>6. faults' \in 0..MaxFaults
  BY <1>0, <1>1, Types
<1>7. /\ inbox' \in Seq(Request)
      /\ worker' \in [pc : WorkerPc,
                      req : Request \cup {NoRequest}]
      /\ worker'.pc = worker.pc
      /\ Serving => /\ worker'.req \in Request
                    /\ worker'.req.job = worker.req.job /\ worker'.req.step = worker.req.step
  BY <1>1, AbandonFacts
<1> QED
  BY <1>0, <1>1, <1>3, <1>4, <1>5, <1>6, <1>7, TickMoves

\* Core ends in the middle of a tick.
LEMMA CoreCrashStep ==
    ASSUME IInv, NEW d \in Dispatcher, CoreCrash(d)
    PROVE  IInv'
<1>0. TypeOK /\ disp \in [Dispatcher -> TickType]
  BY Types DEF IInv
<1>1. /\ UNCHANGED <<job, permitted, expired, began, journal, engine, container, meddling,
                     creates, starts>>
      /\ Abandon(d) /\ disp' = [disp EXCEPT ![d] = Idle] /\ Fault
  BY DEF CoreCrash, coreVars, worldVars
<1>2. /\ disp' \in [Dispatcher -> TickType] /\ disp'[d].pc = "idle"
      /\ \A e \in Dispatcher : e # d => disp'[e] = disp[e]
  <2>1. Idle \in TickType /\ Idle.pc = "idle"
    BY DEF Idle, TickType, Step, Operation, Outcome
  <2> QED
    BY <1>0, <1>1, <2>1
<1>3. /\ inbox' \in Seq(Request)
      /\ worker' \in [pc : WorkerPc,
                      req : Request \cup {NoRequest}]
      /\ worker'.pc = worker.pc
      /\ Serving => /\ worker'.req \in Request
                    /\ worker'.req.job = worker.req.job /\ worker'.req.step = worker.req.step
  BY <1>1, AbandonFacts
<1>4. TypeOK'
  <2>1. \A e \in Dispatcher : disp'[e].pc # "idle" => disp'[e].job \in Job
    BY <1>0, <1>2, Types
  <2>2. worker'.pc \notin Resting => worker'.req \in Request
    BY <1>3 DEF Serving
  <2>3. faults' \in 0..MaxFaults
    BY <1>0, <1>1, FaultsBounded
  <2> QED
    BY <1>0, <1>1, <1>2, <1>3, <2>1, <2>2, <2>3 DEF TypeOK, TickType
<1>5. JobFacts'
  BY <1>1 DEF IInv, JobFacts
<1>6. OneRunning' /\ TickFacts'
  BY <1>1, <1>2 DEF IInv, OneRunning, TickFacts
<1>7. RequestFacts'
  BY <1>1, AbandonedRequests
<1>8. JournalFacts' /\ EngineFacts' /\ StartsOwn' /\ WorkerFacts'
  BY <1>1, <1>3, WorldKept, ServedKept
<1> QED
  BY <1>4, <1>5, <1>6, <1>7, <1>8 DEF IInv

-----------------------------------------------------------------------------
(* The worker *)

\* An answer keeps what is true of the ticks, and the requests to other ticks
\* are still waited for.
LEMMA Answered ==
    ASSUME IInv, NEW r \in Request, Sent(r), NEW state, Answer(r.to, state),
           UNCHANGED <<job, began>>,
           \A j \in Job : journal[j]["start"].state = "succeeded" =>
                            journal'[j]["start"].state = "succeeded",
           state = "succeeded" /\ r.step = "start" => journal'[r.job]["start"].state = "succeeded"
    PROVE  /\ disp' \in [Dispatcher -> TickType]
           /\ \A d \in Dispatcher : disp'[d].pc # "idle" => disp'[d].job \in Job
           /\ OneRunning' /\ TickFacts'
           /\ \A q \in Request : Sent(q) /\ (q.to # None => q.to # r.to) => Sent(q)'
<1>0. TypeOK /\ \A d \in Dispatcher : disp[d].pc # "idle" => disp[d].job \in Job
  BY Types DEF IInv
<1>1. /\ disp' \in [Dispatcher -> TickType]
      /\ \A d \in Dispatcher :
           /\ disp'[d].job = disp[d].job /\ (disp'[d].pc # "idle" <=> disp[d].pc # "idle")
           /\ d # r.to => disp'[d] = disp[d]
           /\ disp'[d].pc = "finish" /\ disp'[d].outcome = "succeeded" =>
                \/ disp'[d] = disp[d]
                \/ disp[d].job = r.job /\ r.step = "start" /\ state = "succeeded"
  BY AnswerFacts
<1>2. OneRunning'
  BY <1>1 DEF IInv, OneRunning
<1>3. TickFacts'
  BY <1>0, <1>1 DEF IInv, TickFacts
<1>4. \A q \in Request : Sent(q) /\ (q.to # None => q.to # r.to) => Sent(q)'
  BY <1>1 DEF Sent, Request
<1> QED
  BY <1>0, <1>1, <1>2, <1>3, <1>4

\* A served request is answered and the worker waits for the next.
LEMMA ReplyStep ==
    ASSUME IInv, Serving, NEW state, Reply(state), UNCHANGED <<job, began, inbox>>,
           \A j \in Job : journal[j]["start"].state = "succeeded" =>
                            journal'[j]["start"].state = "succeeded",
           state = "succeeded" /\ worker.req.step = "start" =>
             journal'[worker.req.job]["start"].state = "succeeded"
    PROVE  /\ disp' \in [Dispatcher -> TickType]
           /\ \A d \in Dispatcher : disp'[d].pc # "idle" => disp'[d].job \in Job
           /\ OneRunning' /\ TickFacts' /\ RequestFacts' /\ WorkerFacts'
           /\ worker' \in [pc : WorkerPc,
                           req : Request \cup {NoRequest}]
           /\ worker'.pc \in {"idle", "closed"}
<1>0. /\ TypeOK /\ worker.req \in Request /\ Sent(worker.req)
  BY Types DEF IInv, RequestFacts
<1>1. PICK r \in Request : r = worker.req
  BY <1>0
<1>a. PICK kept \in BOOLEAN :
        /\ worker' = WorkerAt(IF kept THEN "idle" ELSE "closed", NoRequest)
        /\ Answer(worker.req.to, IF kept THEN state ELSE "error")
  BY DEF Reply
<1>b. PICK s : s = IF kept THEN state ELSE "error"
  OBVIOUS
<1>c. /\ Answer(r.to, s) /\ (s = "succeeded" => s = state)
      /\ s = "succeeded" /\ r.step = "start" => journal'[r.job]["start"].state = "succeeded"
  BY <1>1, <1>a, <1>b
<1>2. /\ disp' \in [Dispatcher -> TickType]
      /\ \A d \in Dispatcher : disp'[d].pc # "idle" => disp'[d].job \in Job
      /\ OneRunning' /\ TickFacts'
      /\ \A q \in Request : Sent(q) /\ (q.to # None => q.to # r.to) => Sent(q)'
  BY <1>0, <1>1, <1>c, Answered
<1>3. worker'.pc \in {"idle", "closed"} /\ worker'.req = NoRequest
      /\ worker' \in [pc : WorkerPc,
                      req : Request \cup {NoRequest}]
  BY <1>a DEF WorkerAt
<1>4. WorkerFacts'
  BY <1>3 DEF WorkerFacts, Serving
<1>5. \A i \in 1..Len(inbox) : inbox[i] \in Request /\ Sent(inbox[i])
                               /\ (inbox[i].to # None => inbox[i].to # r.to)
  BY <1>0, <1>1, InboxFacts DEF IInv, RequestFacts
<1>6. \A i \in 1..Len(inbox') : Sent(inbox[i])'
  BY <1>2, <1>5 DEF Sent
<1>7. RequestFacts'
  BY <1>3, <1>6 DEF IInv, RequestFacts, Serving
<1> QED
  BY <1>2, <1>3, <1>4, <1>7

\* A row may be written while its step is not recorded as a success: as
\* prepared only when it is new and in order, as a success only with its effect.
LEMMA WriteKeeps ==
    ASSUME IInv, NEW r \in Request, r.job \in began, NEW s, NEW i \in Nat, Write(r, s, i),
           s \in {"prepared", "mutating", "uncertain", "succeeded", "needs_attention"},
           UNCHANGED <<engine, container, creates, starts, began>>,
           journal[r.job][r.step].state # "succeeded",
           s = "prepared" <=> journal[r.job][r.step].state = "none",
           s = "prepared" /\ r.step = "start" => journal[r.job]["create"].state = "succeeded",
           s = "succeeded" => Effects(r.job, r.step) = 1 /\ (r.step = "create" => i # 0)
    PROVE  /\ journal' \in [Job -> [Step -> Row]] /\ JournalFacts' /\ EngineFacts' /\ StartsOwn'
           /\ \A j \in Job : journal[j]["start"].state = "succeeded" =>
                               journal'[j]["start"].state = "succeeded"
           /\ journal'[r.job][r.step] = [state |-> s, id |-> i]
<1>0. TypeOK /\ r.job \in Job /\ r.step \in Step /\ "create" \in Step /\ "start" \in Step
      /\ engine \in SUBSET [job : Job, step : Step, id : Nat]
  BY Types DEF IInv, Request, Step
<1>1. /\ journal' \in [Job -> [Step -> Row]]
      /\ \A j \in Job, k \in Step :
           journal'[j][k] = IF j = r.job /\ k = r.step THEN [state |-> s, id |-> i]
                                                       ELSE journal[j][k]
  BY <1>0, WriteFacts
<1>2. \A j \in Job, k \in Step : Effects(j, k)' = Effects(j, k)
  BY DEF Effects
<1>3. ASSUME NEW j \in Job, NEW k \in Step
      PROVE  /\ Effects(j, k)' <= 1
             /\ journal'[j][k].state # "none" => j \in began'
             /\ journal'[j][k].state \in {"none", "prepared"} => Effects(j, k)' = 0
             /\ journal'[j][k].state = "succeeded" => Effects(j, k)' = 1
  <2>1. CASE j = r.job /\ k = r.step
    BY <1>0, <1>1, <1>2, <2>1 DEF IInv, JournalFacts
  <2>2. CASE ~(j = r.job /\ k = r.step)
    BY <1>1, <1>2, <2>2 DEF IInv, JournalFacts
  <2> QED
    BY <2>1, <2>2
<1>4. ASSUME NEW j \in Job
      PROVE  /\ journal'[j]["create"].state = "succeeded" => journal'[j]["create"].id # 0
             /\ journal'[j]["start"].state # "none" => journal'[j]["create"].state = "succeeded"
             /\ container'[j].id # 0 => creates'[j] = 1
             /\ container'[j].status = "running" => starts'[j] = 1
  <2>1. CASE j # r.job
    BY <1>0, <1>1, <2>1 DEF IInv, JournalFacts
  <2>2. CASE j = r.job /\ r.step = "create"
    BY <1>0, <1>1, <2>2 DEF IInv, JournalFacts
  <2>3. CASE j = r.job /\ r.step = "start"
    BY <1>0, <1>1, <2>3 DEF IInv, JournalFacts
  <2> QED
    BY <1>0, <2>1, <2>2, <2>3 DEF Step
<1>5. JournalFacts'
  BY <1>3, <1>4 DEF JournalFacts
<1>6. EngineFacts'
  BY <1>0, <1>1, <1>2 DEF IInv, EngineFacts
<1>7. StartsOwn'
  BY <1>0, <1>1 DEF IInv, StartsOwn
<1> QED
  BY <1>0, <1>1, <1>5, <1>6, <1>7

\* What an operation of the engine changes: one effect of its own step, which
\* had none before.
LEMMA EffectFacts ==
    ASSUME IInv, NEW op \in engine, EngineEffect(op)
    PROVE  /\ engine' = engine \ {op} /\ meddling' = meddling
           /\ container' \in [Job -> Container]
           /\ creates' \in [Job -> Nat] /\ starts' \in [Job -> Nat]
           /\ \A j \in Job : /\ container'[j].id # 0 => creates'[j] = 1
                             /\ container'[j].status = "running" => starts'[j] = 1
           /\ \/ UNCHANGED <<creates, starts>>
              \/ /\ op.step = "create" /\ creates[op.job] = 0 /\ UNCHANGED starts
                 /\ creates' = [creates EXCEPT ![op.job] = 1] /\ EngineResult(op) = "done"
              \/ /\ op.step = "start" /\ starts[op.job] = 0 /\ UNCHANGED creates
                 /\ starts' = [starts EXCEPT ![op.job] = 1]
           /\ op.step = "create" /\ EngineResult(op) = "done" => creates[op.job] = 0
<1>0. /\ TypeOK /\ op.job \in Job /\ op.step \in Step
      /\ container \in [Job -> Container] /\ creates \in [Job -> Nat] /\ starts \in [Job -> Nat]
      /\ Effects(op.job, op.step) = 0
      /\ \A j \in Job : /\ container[j].id # 0 => creates[j] = 1
                        /\ container[j].status = "running" => starts[j] = 1
  BY Types DEF IInv, EngineFacts, JournalFacts
<1>1. engine' = engine \ {op} /\ meddling' = meddling
  BY DEF EngineEffect
<1>2. CASE EngineResult(op) # "done"
  <2>1. UNCHANGED <<creates, starts, container>>
    BY <1>2 DEF EngineEffect
  <2> QED
    BY <1>0, <1>1, <1>2, <2>1
<1>3. CASE EngineResult(op) = "done" /\ op.step = "create"
  <2>1. creates[op.job] = 0
    BY <1>0, <1>3 DEF Effects
  <2>2. /\ creates' = [creates EXCEPT ![op.job] = 1] /\ UNCHANGED starts
        /\ container' = [container EXCEPT ![op.job] = [status |-> "created", id |-> 1]]
    BY <1>0, <1>3, <2>1 DEF EngineEffect
  <2>3. [status |-> "created", id |-> 1] \in Container
    BY DEF Container
  <2> QED
    BY <1>0, <1>1, <1>3, <2>1, <2>2, <2>3
<1>4. CASE EngineResult(op) = "done" /\ op.step = "start"
  <2>1. starts[op.job] = 0
    BY <1>0, <1>4 DEF Effects
  <2>2. container[op.job].status # "running"
    BY <1>0, <2>1
  <2>3. /\ starts' = [starts EXCEPT ![op.job] = 1] /\ UNCHANGED creates
        /\ container' = [container EXCEPT ![op.job].status = "running"]
    BY <1>0, <1>4, <2>1, <2>2 DEF EngineEffect
  <2>4. PICK c : c = [container[op.job] EXCEPT !.status = "running"]
    OBVIOUS
  <2>5. c \in Container /\ c.id = container[op.job].id
    BY <1>0, <2>4 DEF Container
  <2>6. container' = [container EXCEPT ![op.job] = c]
    BY <1>0, <2>3, <2>4
  <2> QED
    BY <1>0, <1>1, <1>4, <2>1, <2>3, <2>5, <2>6
<1> QED
  BY <1>0, <1>2, <1>3, <1>4 DEF Step

WorkerType == [pc : WorkerPc,
               req : Request \cup {NoRequest}]

\* A step of the worker or of the engine leaves the jobs alone.
LEMMA Assembled ==
    ASSUME IInv, UNCHANGED coreVars, faults' \in 0..MaxFaults, meddling' = meddling,
           inbox' \in Seq(Request), worker' \in WorkerType,
           worker'.pc \notin Resting => worker'.req \in Request,
           disp' \in [Dispatcher -> TickType],
           \A d \in Dispatcher : disp'[d].pc # "idle" => disp'[d].job \in Job,
           journal' \in [Job -> [Step -> Row]],
           engine' \in SUBSET [job : Job, step : Step, id : Nat],
           container' \in [Job -> Container],
           creates' \in [Job -> Nat], starts' \in [Job -> Nat],
           \A j \in Job : /\ creates[j] = 1 => creates'[j] = 1
                          /\ starts[j] = 1 => starts'[j] = 1,
           OneRunning', TickFacts', RequestFacts', JournalFacts', EngineFacts', StartsOwn',
           WorkerFacts'
    PROVE  IInv'
<1>1. TypeOK'
  BY TypesAgain DEF IInv, TypeOK, coreVars, WorkerType
<1>2. JobFacts'
  BY DEF IInv, JobFacts, coreVars
<1> QED
  BY <1>1, <1>2 DEF IInv

\* The worker takes the first request of its queue.
LEMMA TakenFacts ==
    ASSUME IInv, inbox # <<>>, inbox' = Tail(inbox)
    PROVE  /\ Head(inbox) \in Request /\ Sent(Head(inbox)) /\ inbox' \in Seq(Request)
           /\ \A i \in 1..Len(inbox') :
                /\ inbox'[i] \in Request /\ Sent(inbox'[i])
                /\ inbox'[i].to # None => inbox'[i].to # Head(inbox).to
           /\ \A i, k \in 1..Len(inbox') :
                inbox'[i].to # None /\ inbox'[i].to = inbox'[k].to => i = k
<1>1. /\ inbox \in Seq(Request) /\ Len(inbox) \in Nat
      /\ \A i \in 1..Len(inbox) : inbox[i] \in Request
      /\ \A i \in 1..Len(inbox) : Sent(inbox[i])
      /\ \A i, k \in 1..Len(inbox) : inbox[i].to # None /\ inbox[i].to = inbox[k].to => i = k
  BY InboxFacts DEF IInv, RequestFacts
<1>2. Len(inbox) >= 1 /\ Head(inbox) = inbox[1]
  BY <1>1
<1>3. /\ inbox' \in Seq(Request) /\ Len(inbox') = Len(inbox) - 1
      /\ \A i \in 1..Len(inbox') : inbox'[i] = inbox[i + 1]
  BY <1>1, <1>2
<1>4. \A i \in 1..Len(inbox') : i \in Nat /\ i + 1 \in 1..Len(inbox) /\ i + 1 # 1
  BY <1>1, <1>3
<1>5. 1 \in 1..Len(inbox)
  BY <1>1, <1>2
<1>6. \A i \in 1..Len(inbox') :
         /\ inbox'[i] \in Request /\ Sent(inbox'[i])
         /\ inbox'[i].to # None => inbox'[i].to # Head(inbox).to
  BY <1>1, <1>2, <1>3, <1>4, <1>5
<1>7. ASSUME NEW i \in 1..Len(inbox'), NEW k \in 1..Len(inbox'),
             inbox'[i].to # None, inbox'[i].to = inbox'[k].to
      PROVE  i = k
  <2>1. i + 1 = k + 1
    BY <1>1, <1>3, <1>4, <1>7
  <2> QED
    BY <1>4, <2>1
<1> QED
  BY <1>1, <1>2, <1>3, <1>5, <1>6, <1>7

\* A request from the queue that is answered at once.
LEMMA AnsweredAtOnce ==
    ASSUME IInv, worker' \in WorkerType, worker'.pc \in Resting, inbox # <<>>, inbox' = Tail(inbox), NEW state,
           Answer(Head(inbox).to, state), UNCHANGED <<coreVars, worldVars, journal>>,
           faults' \in 0..MaxFaults,
           state = "succeeded" =>
             journal[Head(inbox).job][Head(inbox).step].state = "succeeded"
    PROVE  IInv'
<1>1. PICK r : r = Head(inbox)
  OBVIOUS
<1>2. /\ r \in Request /\ Sent(r) /\ inbox' \in Seq(Request)
      /\ \A i \in 1..Len(inbox') : /\ inbox'[i] \in Request /\ Sent(inbox'[i])
                                   /\ inbox'[i].to # None => inbox'[i].to # r.to
      /\ \A i, k \in 1..Len(inbox') :
           inbox'[i].to # None /\ inbox'[i].to = inbox'[k].to => i = k
  BY <1>1, TakenFacts
<1>3. /\ UNCHANGED <<job, began, engine, container, creates, starts, journal, meddling>>
      /\ state = "succeeded" /\ r.step = "start" => journal'[r.job]["start"].state = "succeeded"
      /\ \A j \in Job : journal[j]["start"].state = "succeeded" =>
                          journal'[j]["start"].state = "succeeded"
      /\ Answer(r.to, state)
  BY <1>1 DEF coreVars, worldVars
<1>4. /\ disp' \in [Dispatcher -> TickType]
      /\ \A d \in Dispatcher : disp'[d].pc # "idle" => disp'[d].job \in Job
      /\ OneRunning' /\ TickFacts'
      /\ \A q \in Request : Sent(q) /\ (q.to # None => q.to # r.to) => Sent(q)'
  BY <1>2, <1>3, Answered
<1>5. ~Serving'
  BY DEF Serving
<1>6. \A i \in 1..Len(inbox') : Sent(inbox[i])'
  <2>1. ASSUME NEW i \in 1..Len(inbox') PROVE Sent(inbox[i])'
    <3>1. PICK q \in Request : q = inbox'[i]
      BY <1>2
    <3>2. Sent(q)'
      BY <1>2, <1>4, <3>1
    <3> QED
      BY <3>1, <3>2 DEF Sent
  <2> QED
    BY <2>1
<1>7. RequestFacts' /\ WorkerFacts'
  BY <1>2, <1>5, <1>6 DEF RequestFacts, WorkerFacts
<1>8. JournalFacts' /\ EngineFacts' /\ StartsOwn'
  BY <1>3, WorldKept
<1>9. /\ journal' \in [Job -> [Step -> Row]]
      /\ engine' \in SUBSET [job : Job, step : Step, id : Nat]
      /\ container' \in [Job -> Container]
      /\ creates' \in [Job -> Nat] /\ starts' \in [Job -> Nat]
  BY <1>3, Types DEF IInv, WorkerType
<1> QED
  BY <1>2, <1>3, <1>4, <1>7, <1>8, <1>9, Assembled

\* A request from the queue that the worker goes on with.
LEMMA TakenUp ==
    ASSUME IInv, worker.pc = "idle", inbox # <<>>, inbox' = Tail(inbox),
           NEW pc \in {"inspect", "confirm"}, worker' = WorkerAt(pc, Head(inbox)),
           UNCHANGED <<coreVars, worldVars, disp, faults>>,
           journal' \in [Job -> [Step -> Row]],
           \A j \in Job : journal[j]["start"].state = "succeeded" =>
                            journal'[j]["start"].state = "succeeded",
           JournalFacts', EngineFacts', StartsOwn',
           pc = "inspect" => journal'[Head(inbox).job][Head(inbox).step].state = "prepared",
           pc = "confirm" =>
             journal'[Head(inbox).job][Head(inbox).step].state \in {"mutating", "uncertain"}
    PROVE  IInv'
<1>1. PICK r : r = Head(inbox)
  OBVIOUS
<1>2. /\ r \in Request /\ Sent(r) /\ inbox' \in Seq(Request)
      /\ \A i \in 1..Len(inbox') : /\ inbox'[i] \in Request /\ Sent(inbox'[i])
                                   /\ inbox'[i].to # None => inbox'[i].to # r.to
      /\ \A i, k \in 1..Len(inbox') :
           inbox'[i].to # None /\ inbox'[i].to = inbox'[k].to => i = k
  BY <1>1, TakenFacts
<1>3. UNCHANGED <<job, began, disp, engine, container, creates, starts, meddling, faults>>
  BY DEF coreVars, worldVars
<1>4. worker'.pc = pc /\ worker'.req = r /\ worker' \in WorkerType
  BY <1>1, <1>2 DEF WorkerAt, WorkerType
<1>5. TypeOK /\ \A d \in Dispatcher : disp[d].pc # "idle" => disp[d].job \in Job
  BY Types DEF IInv
<1>6. OneRunning' /\ TickFacts'
  BY <1>3, <1>5 DEF IInv, OneRunning, TickFacts
<1>7. \A i \in 1..Len(inbox') : Sent(inbox[i])'
  BY <1>2, <1>3 DEF Sent
<1>8. Sent(worker.req)'
  BY <1>2, <1>3, <1>4 DEF Sent
<1>9. RequestFacts'
  BY <1>2, <1>4, <1>7, <1>8 DEF RequestFacts
<1>10. WorkerFacts'
  BY <1>1, <1>4 DEF WorkerFacts
<1>11. /\ engine' \in SUBSET [job : Job, step : Step, id : Nat]
       /\ container' \in [Job -> Container] /\ disp' \in [Dispatcher -> TickType]
       /\ creates' \in [Job -> Nat] /\ starts' \in [Job -> Nat] /\ faults' \in 0..MaxFaults
       /\ \A d \in Dispatcher : disp'[d].pc # "idle" => disp'[d].job \in Job
  BY <1>3, <1>5, Types
<1> QED
  BY <1>2, <1>3, <1>4, <1>6, <1>9, <1>10, <1>11, Assembled

\* apply and reconcile up to the first call of the engine.
LEMMA ServeStep ==
    ASSUME IInv, Serve
    PROVE  IInv'
<1>0. /\ worker.pc = "idle" /\ inbox # <<>> /\ inbox' = Tail(inbox)
      /\ UNCHANGED <<coreVars, worldVars>>
      /\ UNCHANGED <<engine, container, creates, starts, began>>
  BY DEF Serve, coreVars, worldVars
<1>1. PICK r : r = Head(inbox)
  OBVIOUS
<1>2. r \in Request /\ Sent(r) /\ r.job \in Job /\ r.step \in Step /\ r.job \in began
      /\ "create" \in Step /\ "start" \in Step
  <2>1. r \in Request /\ Sent(r)
    BY <1>0, <1>1, TakenFacts
  <2> QED
    BY <2>1 DEF Sent, Request, Step
<1>3. TypeOK /\ journal \in [Job -> [Step -> Row]] /\ journal[r.job][r.step] \in Row
  BY <1>2, Types DEF IInv
<1>a. worker \in WorkerType /\ worker.pc \in Resting
      /\ \A pc \in {"idle", "closed"} : /\ WorkerAt(pc, NoRequest) \in WorkerType
                                        /\ WorkerAt(pc, NoRequest).pc \in Resting
  BY <1>0, <1>3, Types DEF WorkerType, WorkerAt
<1>4. CASE /\ Answer(r.to, "error") /\ UNCHANGED journal
           /\ \/ UNCHANGED worker
              \/ \E pc \in {"idle", "closed"} : worker' = WorkerAt(pc, NoRequest)
           /\ Fault \/ UNCHANGED faults
  <2>1. worker' \in WorkerType /\ worker'.pc \in Resting
    BY <1>4, <1>a
  <2>2. faults' \in 0..MaxFaults
    BY <1>3, <1>4, FaultsBounded
  <2> QED
    BY <1>0, <1>1, <1>4, <2>1, <2>2, AnsweredAtOnce
<1>5. CASE /\ journal[r.job][r.step].state = "none" /\ ~Refused(r) /\ Write(r, "prepared", 0)
           /\ worker' = WorkerAt("inspect", r) /\ UNCHANGED <<disp, faults>>
  <2>1. r.step = "start" => journal[r.job]["create"].state = "succeeded"
    BY <1>5 DEF Refused
  <2>2. /\ journal' \in [Job -> [Step -> Row]] /\ JournalFacts' /\ EngineFacts' /\ StartsOwn'
        /\ \A j \in Job : journal[j]["start"].state = "succeeded" =>
                            journal'[j]["start"].state = "succeeded"
        /\ journal'[r.job][r.step] = [state |-> "prepared", id |-> 0]
    BY <1>0, <1>2, <1>5, <2>1, WriteKeeps
  <2>3. journal'[r.job][r.step].state = "prepared"
    BY <2>2
  <2> QED
    BY <1>0, <1>1, <1>5, <2>2, <2>3, TakenUp
<1>6. ASSUME NEW pc \in {"inspect", "confirm"}, worker' = WorkerAt(pc, r),
             UNCHANGED <<disp, journal, faults>>,
             pc = "inspect" => journal[r.job][r.step].state = "prepared",
             pc = "confirm" => journal[r.job][r.step].state \in {"mutating", "uncertain"}
      PROVE  IInv'
  <2>1. JournalFacts' /\ EngineFacts' /\ StartsOwn'
    BY <1>0, <1>6, WorldKept
  <2>2. /\ \A j \in Job : journal[j]["start"].state = "succeeded" =>
                            journal'[j]["start"].state = "succeeded"
        /\ journal' \in [Job -> [Step -> Row]]
        /\ pc = "inspect" => journal'[r.job][r.step].state = "prepared"
        /\ pc = "confirm" => journal'[r.job][r.step].state \in {"mutating", "uncertain"}
    BY <1>3, <1>6
  <2> QED
    BY <1>0, <1>1, <1>6, <2>1, <2>2, TakenUp
<1>7. CASE Untried(journal[r.job][r.step]) /\ worker' = WorkerAt("inspect", r)
           /\ UNCHANGED <<disp, journal, faults>>
  BY <1>6, <1>7 DEF Untried
<1>8. CASE Unsettled(journal[r.job][r.step]) /\ worker' = WorkerAt("confirm", r)
           /\ UNCHANGED <<disp, journal, faults>>
  BY <1>6, <1>8 DEF Unsettled
<1>9. CASE /\ Answer(r.to, journal[r.job][r.step].state)
           /\ UNCHANGED <<worker, journal, faults>>
  <2>1. PICK s : s = journal[r.job][r.step].state
    OBVIOUS
  <2> QED
    BY <1>0, <1>1, <1>3, <1>9, <1>a, <2>1, FaultsBounded, AnsweredAtOnce
<1> QED
  BY <1>1, <1>4, <1>5, <1>7, <1>8, <1>9 DEF Serve

\* A closed backend answers with an error.
LEMMA ServeClosedStep ==
    ASSUME IInv, ServeClosed
    PROVE  IInv'
<1>1. /\ worker.pc = "closed" /\ inbox # <<>> /\ inbox' = Tail(inbox)
      /\ Answer(Head(inbox).to, "error")
      /\ UNCHANGED <<coreVars, worldVars, journal, worker, faults>>
  BY DEF ServeClosed
<1>2. worker' \in WorkerType /\ worker'.pc \in Resting /\ faults' \in 0..MaxFaults
  BY <1>1, Types DEF IInv, WorkerType
<1> QED
  BY <1>1, <1>2, AnsweredAtOnce

\* The worker's request, once it is served.
LEMMA ServedFacts ==
    ASSUME IInv, Serving
    PROVE  /\ worker.req \in Request /\ worker.req.job \in Job /\ worker.req.step \in Step
           /\ Sent(worker.req) /\ worker.req.job \in began
           /\ journal[worker.req.job][worker.req.step] \in Row
           /\ container[worker.req.job] \in Container
<1>1. worker.req \in Request /\ Sent(worker.req)
  BY Types DEF IInv, RequestFacts
<1> QED
  BY <1>1, Types DEF IInv, Request, Sent

\* The worker writes what became of a step and answers with it.
LEMMA WrittenAndAnswered ==
    ASSUME IInv, Serving, NEW s \in {"uncertain", "succeeded", "needs_attention"},
           NEW i \in Nat, Write(worker.req, s, i), Reply(s),
           UNCHANGED <<coreVars, inbox, worldVars>>, faults' \in 0..MaxFaults,
           journal[worker.req.job][worker.req.step].state \notin {"none", "succeeded"},
           s = "succeeded" => /\ Effects(worker.req.job, worker.req.step) = 1
                              /\ worker.req.step = "create" => i # 0
    PROVE  IInv'
<1>1. PICK r : r = worker.req
  OBVIOUS
<1>2. r \in Request /\ r.job \in began /\ TypeOK
  BY <1>1, ServedFacts DEF IInv
<1>3. /\ UNCHANGED <<engine, container, creates, starts, job, began, inbox, meddling>>
  BY DEF coreVars, worldVars
<1>4. /\ journal' \in [Job -> [Step -> Row]] /\ JournalFacts' /\ EngineFacts' /\ StartsOwn'
      /\ \A j \in Job : journal[j]["start"].state = "succeeded" =>
                          journal'[j]["start"].state = "succeeded"
      /\ journal'[r.job][r.step] = [state |-> s, id |-> i]
  BY <1>1, <1>2, <1>3, WriteKeeps
<1>5. s = "succeeded" /\ worker.req.step = "start" =>
        journal'[worker.req.job]["start"].state = "succeeded"
  BY <1>1, <1>4
<1>6. /\ disp' \in [Dispatcher -> TickType]
      /\ \A d \in Dispatcher : disp'[d].pc # "idle" => disp'[d].job \in Job
      /\ OneRunning' /\ TickFacts' /\ RequestFacts' /\ WorkerFacts'
      /\ worker' \in WorkerType /\ worker'.pc \in {"idle", "closed"}
  BY <1>3, <1>4, <1>5, ReplyStep DEF WorkerType
<1>7. /\ engine' \in SUBSET [job : Job, step : Step, id : Nat]
      /\ container' \in [Job -> Container] /\ inbox' \in Seq(Request)
      /\ creates' \in [Job -> Nat] /\ starts' \in [Job -> Nat]
  BY <1>2, <1>3, Types
<1> QED
  BY <1>3, <1>4, <1>6, <1>7, Assembled

\* The worker goes on with its request.
LEMMA GoesOn ==
    ASSUME IInv, Serving, NEW pc \in {"submit", "engine", "confirm"},
           worker' = WorkerAt(pc, worker.req), UNCHANGED <<coreVars, disp, inbox>>,
           \A j \in Job : journal[j]["start"].state = "succeeded" =>
                            journal'[j]["start"].state = "succeeded"
    PROVE  /\ worker' \in WorkerType /\ worker'.req \in Request
           /\ worker'.pc = pc /\ worker'.req = worker.req
           /\ disp' \in [Dispatcher -> TickType] /\ inbox' \in Seq(Request)
           /\ \A d \in Dispatcher : disp'[d].pc # "idle" => disp'[d].job \in Job
           /\ OneRunning' /\ TickFacts' /\ RequestFacts'
<1>1. worker.req \in Request /\ Sent(worker.req) /\ TypeOK
  BY ServedFacts DEF IInv
<1>2. worker'.pc = pc /\ worker'.req = worker.req /\ worker' \in WorkerType
  BY <1>1 DEF WorkerAt, WorkerType
<1>3. UNCHANGED <<job, began, disp, inbox>> /\ Serving'
  BY <1>2 DEF coreVars, Serving
<1>4. /\ disp \in [Dispatcher -> TickType] /\ inbox \in Seq(Request)
      /\ \A d \in Dispatcher : disp[d].pc # "idle" => disp[d].job \in Job
  BY <1>1, Types
<1>5. OneRunning' /\ TickFacts'
  BY <1>3, <1>4 DEF IInv, OneRunning, TickFacts
<1>6. RequestFacts'
  BY <1>2, <1>3 DEF IInv, RequestFacts, Sent
<1> QED
  BY <1>1, <1>2, <1>3, <1>4, <1>5, <1>6

\* apply: what the engine has is looked at, then the intent is written.
LEMMA InspectStep ==
    ASSUME IInv, Inspect
    PROVE  IInv'
<1>0. /\ worker.pc = "inspect" /\ Serving /\ UNCHANGED <<coreVars, inbox, worldVars>>
      /\ UNCHANGED <<job, began, inbox, engine, container, creates, starts, meddling>>
  BY DEF Inspect, Serving, coreVars, worldVars
<1>1. PICK r : r = worker.req
  OBVIOUS
<1>2. /\ r \in Request /\ r.job \in Job /\ r.step \in Step /\ r.job \in began
      /\ container[r.job] \in Container /\ TypeOK /\ "create" \in Step
  BY <1>0, <1>1, ServedFacts DEF IInv, Step
<1>3. journal[r.job][r.step].state = "prepared"
  BY <1>0, <1>1 DEF IInv, WorkerFacts
<1>4. PICK id : id = IF r.step = "create" THEN 0 ELSE container[r.job].id
  OBVIOUS
<1>5. id \in Nat
  BY <1>2, <1>4 DEF Container
<1>6. CASE Fault /\ Reply("prepared") /\ UNCHANGED journal
  <2>1. faults' \in 0..MaxFaults
    BY <1>2, <1>6, FaultsBounded
  <2>2. /\ disp' \in [Dispatcher -> TickType]
        /\ \A d \in Dispatcher : disp'[d].pc # "idle" => disp'[d].job \in Job
        /\ OneRunning' /\ TickFacts' /\ RequestFacts' /\ WorkerFacts'
        /\ worker' \in WorkerType /\ worker'.pc \in {"idle", "closed"}
    BY <1>0, <1>6, ReplyStep DEF WorkerType
  <2>3. JournalFacts' /\ EngineFacts' /\ StartsOwn'
    BY <1>0, <1>6, WorldKept
  <2>4. /\ engine' \in SUBSET [job : Job, step : Step, id : Nat]
        /\ container' \in [Job -> Container] /\ inbox' \in Seq(Request)
        /\ creates' \in [Job -> Nat] /\ starts' \in [Job -> Nat]
        /\ journal' \in [Job -> [Step -> Row]]
    BY <1>0, <1>2, <1>6, Types
  <2> QED
    BY <1>0, <2>1, <2>2, <2>3, <2>4, Assembled
<1>7. ASSUME NEW i \in Nat, Write(r, "needs_attention", i), Reply("needs_attention"),
             Fault \/ UNCHANGED faults
      PROVE  IInv'
  <2>1. faults' \in 0..MaxFaults
    BY <1>2, <1>7, FaultsBounded
  <2>2. Write(worker.req, "needs_attention", i)
    BY <1>1, <1>7
  <2>3. journal[worker.req.job][worker.req.step].state \notin {"none", "succeeded"}
    BY <1>1, <1>3
  <2> QED
    BY <1>0, <1>7, <2>1, <2>2, <2>3, WrittenAndAnswered
<1>8. CASE /\ Fit(r) /\ ~TooLate(r) /\ Write(r, "mutating", id)
           /\ worker' = WorkerAt("submit", r) /\ UNCHANGED <<disp, faults>>
  <2>1. /\ journal' \in [Job -> [Step -> Row]] /\ JournalFacts' /\ EngineFacts' /\ StartsOwn'
        /\ \A j \in Job : journal[j]["start"].state = "succeeded" =>
                            journal'[j]["start"].state = "succeeded"
        /\ journal'[r.job][r.step] = [state |-> "mutating", id |-> id]
    BY <1>0, <1>2, <1>3, <1>5, <1>8, WriteKeeps
  <2>2. /\ worker' \in WorkerType /\ worker'.req \in Request
        /\ worker'.pc = "submit" /\ worker'.req = r
        /\ disp' \in [Dispatcher -> TickType] /\ inbox' \in Seq(Request)
        /\ \A d \in Dispatcher : disp'[d].pc # "idle" => disp'[d].job \in Job
        /\ OneRunning' /\ TickFacts' /\ RequestFacts'
    BY <1>0, <1>1, <1>8, <2>1, GoesOn
  <2>3. Effects(r.job, r.step)' = 0
    BY <1>0, <1>2, <1>3 DEF IInv, JournalFacts, Effects
  <2>4. \A op \in engine' : ~(op.job = r.job /\ op.step = r.step)
    BY <1>0, <1>3 DEF IInv, EngineFacts
  <2>5. r.step = "start" => id # 0 /\ id = journal'[r.job]["create"].id
    <3>1. r.step = "start" => id # 0 /\ id = journal[r.job]["create"].id
      BY <1>4, <1>8 DEF Fit
    <3>2. r.step = "start" => journal'[r.job]["create"] = journal[r.job]["create"]
      <4>1. Write(r, "mutating", id) /\ TypeOK
        BY <1>2, <1>8
      <4>2. \A j \in Job, k \in Step :
              journal'[j][k] = IF j = r.job /\ k = r.step THEN [state |-> "mutating", id |-> id]
                                                          ELSE journal[j][k]
        BY <1>2, <1>5, <4>1, WriteFacts
      <4> QED
        BY <1>2, <4>2
    <3> QED
      BY <3>1, <3>2
  <2>6. WorkerFacts'
    BY <2>1, <2>2, <2>3, <2>4, <2>5 DEF WorkerFacts, Effects
  <2>7. /\ engine' \in SUBSET [job : Job, step : Step, id : Nat]
        /\ container' \in [Job -> Container] /\ faults' \in 0..MaxFaults
        /\ creates' \in [Job -> Nat] /\ starts' \in [Job -> Nat]
    BY <1>0, <1>2, <1>8, Types
  <2> QED
    BY <1>0, <2>1, <2>2, <2>6, <2>7, Assembled
<1>9. \/ Fault /\ Reply("prepared") /\ UNCHANGED journal
      \/ Fault /\ Write(r, "needs_attention", 0) /\ Reply("needs_attention")
      \/ /\ Write(r, "needs_attention", IF Fit(r) THEN id ELSE 0)
         /\ Reply("needs_attention") /\ UNCHANGED faults
      \/ /\ Fit(r) /\ ~TooLate(r) /\ Write(r, "mutating", id)
         /\ worker' = WorkerAt("submit", r) /\ UNCHANGED <<disp, faults>>
  BY <1>1, <1>4 DEF Inspect
<1>10. PICK n : n = IF Fit(r) THEN id ELSE 0
  OBVIOUS
<1>11. n \in Nat
  BY <1>5, <1>10
<1> QED
  BY <1>6, <1>7, <1>8, <1>9, <1>10, <1>11

\* The intent's operation is handed to the engine.
LEMMA SubmitStep ==
    ASSUME IInv, Submit
    PROVE  IInv'
<1>0. /\ worker.pc = "submit" /\ Serving /\ engine' = engine \cup {Op(worker.req)}
      /\ worker' = WorkerAt("engine", worker.req)
      /\ UNCHANGED <<coreVars, disp, inbox, journal, container, meddling, creates, starts, faults>>
      /\ UNCHANGED <<job, began>>
  BY DEF Submit, Serving, coreVars
<1>1. PICK r : r = worker.req
  OBVIOUS
<1>2. /\ r \in Request /\ r.job \in Job /\ r.step \in Step
      /\ journal[r.job][r.step] \in Row /\ TypeOK
      /\ engine \in SUBSET [job : Job, step : Step, id : Nat]
  BY <1>0, <1>1, ServedFacts, Types DEF IInv
<1>3. /\ journal[r.job][r.step].state = "mutating" /\ Effects(r.job, r.step) = 0
      /\ \A op \in engine : ~(op.job = r.job /\ op.step = r.step)
      /\ r.step = "start" => /\ journal[r.job][r.step].id # 0
                             /\ journal[r.job][r.step].id = journal[r.job]["create"].id
  BY <1>0, <1>1 DEF IInv, WorkerFacts
<1>4. PICK o : o = Op(r)
  OBVIOUS
<1>5. /\ o.job = r.job /\ o.step = r.step /\ o.id = journal[r.job][r.step].id
      /\ o \in [job : Job, step : Step, id : Nat] /\ engine' = engine \cup {o}
  BY <1>0, <1>1, <1>2, <1>4 DEF Op, Row
<1>6. JournalFacts'
  BY <1>0 DEF IInv, JournalFacts, Effects
<1>7. EngineFacts'
  <2>1. \A op \in engine' : /\ Effects(op.job, op.step)' = 0
                            /\ journal'[op.job][op.step].state \notin {"none", "prepared"}
    BY <1>0, <1>3, <1>5 DEF IInv, EngineFacts, Effects
  <2>2. \A p, q \in engine' : p.job = q.job /\ p.step = q.step => p = q
    BY <1>3, <1>5 DEF IInv, EngineFacts
  <2> QED
    BY <2>1, <2>2 DEF EngineFacts
<1>8. StartsOwn'
  <2>1. r.step = "start" => journal[r.job]["create"].state = "succeeded"
    BY <1>2, <1>3 DEF IInv, JournalFacts
  <2> QED
    BY <1>0, <1>3, <1>5, <2>1 DEF IInv, StartsOwn
<1>9. /\ worker' \in WorkerType /\ worker'.req \in Request
      /\ worker'.pc = "engine" /\ worker'.req = r
      /\ disp' \in [Dispatcher -> TickType] /\ inbox' \in Seq(Request)
      /\ \A d \in Dispatcher : disp'[d].pc # "idle" => disp'[d].job \in Job
      /\ OneRunning' /\ TickFacts' /\ RequestFacts'
  BY <1>0, <1>1, GoesOn
<1>10. WorkerFacts'
  BY <1>0, <1>3, <1>9 DEF WorkerFacts
<1>11. /\ engine' \in SUBSET [job : Job, step : Step, id : Nat]
       /\ container' \in [Job -> Container] /\ faults' \in 0..MaxFaults
       /\ creates' \in [Job -> Nat] /\ starts' \in [Job -> Nat]
       /\ journal' \in [Job -> [Step -> Row]]
  BY <1>0, <1>2, <1>5, Types
<1> QED
  BY <1>0, <1>6, <1>7, <1>8, <1>9, <1>10, <1>11, Assembled

\* The worker stops waiting for the engine.
LEMMA GiveUpStep ==
    ASSUME IInv, GiveUp
    PROVE  IInv'
<1>0. /\ worker.pc = "engine" /\ Serving /\ UNCHANGED <<coreVars, inbox, worldVars>>
      /\ Reply("uncertain") /\ TypeOK /\ (Fault \/ UNCHANGED faults)
      /\ Write(worker.req, "uncertain", Op(worker.req).id)
  BY DEF GiveUp, Serving, IInv
<1>1. PICK i : i = Op(worker.req).id
  OBVIOUS
<1>2. i \in Nat
  BY <1>0, <1>1, ServedFacts DEF Op, Row
<1>3. journal[worker.req.job][worker.req.step].state \notin {"none", "succeeded"}
  BY <1>0 DEF IInv, WorkerFacts
<1>4. faults' \in 0..MaxFaults
  BY <1>0, FaultsBounded
<1> QED
  BY <1>0, <1>1, <1>2, <1>3, <1>4, WrittenAndAnswered

\* The worker looks at what the engine has.
LEMMA ConfirmStep ==
    ASSUME IInv, Confirm
    PROVE  IInv'
<1>0. /\ worker.pc = "confirm" /\ Serving /\ UNCHANGED <<coreVars, inbox, worldVars>> /\ TypeOK
  BY DEF Confirm, Serving, IInv
<1>1. PICK r : r = worker.req
  OBVIOUS
<1>2. /\ r.job \in Job /\ r.step \in Step
      /\ journal[r.job][r.step] \in Row /\ container[r.job] \in Container
  BY <1>0, <1>1, ServedFacts
<1>3. journal[r.job][r.step].state \in {"mutating", "uncertain"}
  BY <1>0, <1>1 DEF IInv, WorkerFacts
<1>4. PICK i : i = journal[r.job][r.step].id
  OBVIOUS
<1>5. PICK c : c = container[r.job].id
  OBVIOUS
<1>6. i \in Nat /\ c \in Nat
  BY <1>2, <1>4, <1>5 DEF Row, Container
<1>7. ASSUME NEW s \in {"uncertain", "succeeded", "needs_attention"}, NEW n \in Nat,
             Write(r, s, n), Reply(s), Fault \/ UNCHANGED faults,
             s = "succeeded" => Effects(r.job, r.step) = 1 /\ (r.step = "create" => n # 0)
      PROVE  IInv'
  <2>1. faults' \in 0..MaxFaults
    BY <1>0, <1>7, FaultsBounded
  <2>2. /\ journal[worker.req.job][worker.req.step].state \notin {"none", "succeeded"}
        /\ Write(worker.req, s, n)
        /\ s = "succeeded" => /\ Effects(worker.req.job, worker.req.step) = 1
                              /\ worker.req.step = "create" => n # 0
    BY <1>1, <1>3, <1>7
  <2> QED
    BY <1>0, <1>7, <2>1, <2>2, WrittenAndAnswered
<1>8. PICK s : s = Confirmed(r)
  OBVIOUS
<1>9. /\ s \in {"uncertain", "succeeded", "needs_attention"}
      /\ s = "succeeded" => Effects(r.job, r.step) = 1 /\ c # 0
  <2>1. s = "succeeded" => c # 0 /\ (r.step = "start" => container[r.job].status = "running")
    BY <1>5, <1>8 DEF Confirmed
  <2>2. /\ c # 0 => creates[r.job] = 1
        /\ container[r.job].status = "running" => starts[r.job] = 1
    BY <1>2, <1>5 DEF IInv, JournalFacts
  <2>3. s \in {"succeeded", "needs_attention"}
    BY <1>8 DEF Confirmed
  <2> QED
    BY <1>2, <2>1, <2>2, <2>3 DEF Effects, Step
<1>10. PICK n : n = IF s = "succeeded" THEN c ELSE i
  OBVIOUS
<1>11. n \in Nat /\ (s = "succeeded" => n # 0)
  BY <1>6, <1>9, <1>10
<1>12. \/ Fault /\ Write(r, "uncertain", i) /\ Reply("uncertain")
       \/ Write(r, s, n) /\ Reply(s) /\ UNCHANGED faults
  BY <1>1, <1>4, <1>5, <1>8, <1>10 DEF Confirm
<1> QED
  BY <1>6, <1>7, <1>9, <1>11, <1>12

-----------------------------------------------------------------------------
(* The engine *)

\* An operation takes effect once, and only the row of its own step may be
\* written with it.
LEMMA EffectKeeps ==
    ASSUME IInv, NEW op \in engine, EngineEffect(op), UNCHANGED began,
           journal' \in [Job -> [Step -> Row]],
           \A j \in Job, k \in Step :
             ~(j = op.job /\ k = op.step) => journal'[j][k] = journal[j][k],
           journal'[op.job][op.step].state \notin {"none", "prepared", "succeeded"}
    PROVE  /\ engine' = engine \ {op} /\ meddling' = meddling
           /\ engine' \in SUBSET [job : Job, step : Step, id : Nat]
           /\ container' \in [Job -> Container]
           /\ creates' \in [Job -> Nat] /\ starts' \in [Job -> Nat]
           /\ \A j \in Job : /\ creates[j] = 1 => creates'[j] = 1
                             /\ starts[j] = 1 => starts'[j] = 1
           /\ JournalFacts' /\ EngineFacts' /\ StartsOwn'
           /\ \A j \in Job, k \in Step : ~(j = op.job /\ k = op.step) =>
                                           Effects(j, k)' = Effects(j, k)
           /\ \A j \in Job : journal[j]["start"].state = "succeeded" =>
                               journal'[j]["start"].state = "succeeded"
<1>0. /\ TypeOK /\ engine \in SUBSET [job : Job, step : Step, id : Nat]
      /\ op.job \in Job /\ op.step \in Step /\ "create" \in Step /\ "start" \in Step
      /\ creates \in [Job -> Nat] /\ starts \in [Job -> Nat]
      /\ Effects(op.job, op.step) = 0
      /\ journal[op.job][op.step].state \notin {"none", "prepared"}
  BY Types DEF IInv, EngineFacts, Step
<1>1. /\ engine' = engine \ {op} /\ meddling' = meddling
      /\ container' \in [Job -> Container]
      /\ creates' \in [Job -> Nat] /\ starts' \in [Job -> Nat]
      /\ \A j \in Job : /\ container'[j].id # 0 => creates'[j] = 1
                        /\ container'[j].status = "running" => starts'[j] = 1
      /\ \/ UNCHANGED <<creates, starts>>
         \/ /\ op.step = "create" /\ creates[op.job] = 0 /\ UNCHANGED starts
            /\ creates' = [creates EXCEPT ![op.job] = 1]
         \/ /\ op.step = "start" /\ starts[op.job] = 0 /\ UNCHANGED creates
            /\ starts' = [starts EXCEPT ![op.job] = 1]
  BY EffectFacts
<1>2. /\ \A j \in Job : /\ creates[j] = 1 => creates'[j] = 1
                        /\ starts[j] = 1 => starts'[j] = 1
      /\ \A j \in Job : j # op.job => creates'[j] = creates[j] /\ starts'[j] = starts[j]
      /\ op.step = "create" => starts' = starts
      /\ op.step = "start" => creates' = creates
  BY <1>0, <1>1
<1>3. \A j \in Job, k \in Step : ~(j = op.job /\ k = op.step) => Effects(j, k)' = Effects(j, k)
  BY <1>0, <1>2 DEF Effects, Step
<1>4. Effects(op.job, op.step)' <= 1
  BY <1>0, <1>1 DEF Effects
<1>5. journal[op.job][op.step].state # "succeeded" /\ op.job \in began
  BY <1>0 DEF IInv, JournalFacts
<1>6. ASSUME NEW j \in Job, NEW k \in Step
      PROVE  /\ Effects(j, k)' <= 1
             /\ journal'[j][k].state # "none" => j \in began'
             /\ journal'[j][k].state \in {"none", "prepared"} => Effects(j, k)' = 0
             /\ journal'[j][k].state = "succeeded" => Effects(j, k)' = 1
  <2>1. CASE j = op.job /\ k = op.step
    BY <1>4, <1>5, <2>1
  <2>2. CASE ~(j = op.job /\ k = op.step)
    BY <1>3, <2>2 DEF IInv, JournalFacts
  <2> QED
    BY <2>1, <2>2
<1>7. ASSUME NEW j \in Job
      PROVE  /\ journal'[j]["create"].state = "succeeded" => journal'[j]["create"].id # 0
             /\ journal'[j]["start"].state # "none" => journal'[j]["create"].state = "succeeded"
  <2>1. CASE j # op.job
    BY <1>0, <2>1 DEF IInv, JournalFacts
  <2>2. CASE j = op.job /\ op.step = "create"
    BY <1>0, <1>5, <2>2 DEF IInv, JournalFacts
  <2>3. CASE j = op.job /\ op.step = "start"
    BY <1>0, <2>3 DEF IInv, JournalFacts
  <2> QED
    BY <1>0, <2>1, <2>2, <2>3 DEF Step
<1>8. JournalFacts'
  BY <1>1, <1>6, <1>7 DEF JournalFacts
<1>9. \A p \in engine' : /\ p \in engine /\ p.job \in Job /\ p.step \in Step
                         /\ ~(p.job = op.job /\ p.step = op.step)
  BY <1>0, <1>1 DEF IInv, EngineFacts
<1>10. EngineFacts'
  <2>1. \A p \in engine' : /\ Effects(p.job, p.step)' = 0
                           /\ journal'[p.job][p.step].state \notin {"none", "prepared"}
    BY <1>3, <1>9 DEF IInv, EngineFacts
  <2>2. \A p, q \in engine' : p.job = q.job /\ p.step = q.step => p = q
    BY <1>9 DEF IInv, EngineFacts
  <2> QED
    BY <2>1, <2>2 DEF EngineFacts
<1>11. StartsOwn'
  <2>1. ASSUME NEW p \in engine', p.step = "start"
        PROVE  /\ p.id # 0 /\ p.id = journal'[p.job]["create"].id
               /\ journal'[p.job]["create"].state = "succeeded"
    <3>1. /\ p.id # 0 /\ p.id = journal[p.job]["create"].id
          /\ journal[p.job]["create"].state = "succeeded" /\ p.job \in Job
      BY <1>9, <2>1 DEF IInv, StartsOwn
    <3>2. ~(p.job = op.job /\ "create" = op.step)
      BY <1>5, <3>1
    <3> QED
      BY <1>0, <3>1, <3>2
  <2> QED
    BY <2>1 DEF StartsOwn
<1>12. \A j \in Job : journal[j]["start"].state = "succeeded" =>
                        journal'[j]["start"].state = "succeeded"
  BY <1>0, <1>5
<1> QED
  BY <1>0, <1>1, <1>2, <1>3, <1>8, <1>10, <1>11, <1>12

\* The engine carries an operation out and the worker hears of it.
LEMMA EngineAnswersStep ==
    ASSUME IInv, NEW op \in engine, EngineAnswers(op)
    PROVE  IInv'
<1>0. /\ Awaited(op) /\ EngineEffect(op) /\ UNCHANGED <<coreVars, inbox, faults>>
      /\ UNCHANGED <<job, began>> /\ worker.pc = "engine" /\ Serving /\ TypeOK
  BY DEF EngineAnswers, Awaited, Serving, IInv, coreVars
<1>1. PICK r : r = worker.req
  OBVIOUS
<1>2. /\ r \in Request /\ r.job \in Job /\ r.step \in Step
      /\ journal[r.job][r.step] \in Row /\ op.job = r.job /\ op.step = r.step
      /\ creates \in [Job -> Nat] /\ inbox \in Seq(Request) /\ faults \in 0..MaxFaults
  BY <1>0, <1>1, ServedFacts, Types DEF Awaited, Op
<1>3. PICK i : i = journal[r.job][r.step].id
  OBVIOUS
<1>4. PICK n : n = IF r.step = "create" THEN creates[r.job] + 1 ELSE i
  OBVIOUS
<1>5. i \in Nat /\ n \in Nat
  BY <1>2, <1>3, <1>4 DEF Row
<1>6. ASSUME NEW s \in {"mutating", "uncertain", "needs_attention"}, NEW m \in Nat, Write(r, s, m)
      PROVE  /\ meddling' = meddling /\ journal' \in [Job -> [Step -> Row]]
             /\ engine' \in SUBSET [job : Job, step : Step, id : Nat]
             /\ container' \in [Job -> Container]
             /\ creates' \in [Job -> Nat] /\ starts' \in [Job -> Nat]
             /\ \A j \in Job : /\ creates[j] = 1 => creates'[j] = 1
                               /\ starts[j] = 1 => starts'[j] = 1
             /\ JournalFacts' /\ EngineFacts' /\ StartsOwn'
             /\ \A j \in Job : journal[j]["start"].state = "succeeded" =>
                                 journal'[j]["start"].state = "succeeded"
             /\ journal'[r.job][r.step].state = s
  <2>1. /\ journal' \in [Job -> [Step -> Row]]
        /\ \A j \in Job, k \in Step :
             journal'[j][k] = IF j = r.job /\ k = r.step THEN [state |-> s, id |-> m]
                                                         ELSE journal[j][k]
    BY <1>0, <1>2, <1>6, WriteFacts
  <2>2. /\ journal'[r.job][r.step].state = s
        /\ journal'[op.job][op.step].state \notin {"none", "prepared", "succeeded"}
        /\ \A j \in Job, k \in Step :
             ~(j = op.job /\ k = op.step) => journal'[j][k] = journal[j][k]
    BY <1>2, <2>1
  <2> QED
    BY <1>0, <2>1, <2>2, EffectKeeps
<1>7. CASE /\ Write(r, "mutating", n) /\ worker' = WorkerAt("confirm", r) /\ UNCHANGED disp
  <2>1. /\ meddling' = meddling /\ journal' \in [Job -> [Step -> Row]]
        /\ engine' \in SUBSET [job : Job, step : Step, id : Nat]
        /\ container' \in [Job -> Container]
        /\ creates' \in [Job -> Nat] /\ starts' \in [Job -> Nat]
        /\ \A j \in Job : /\ creates[j] = 1 => creates'[j] = 1
                          /\ starts[j] = 1 => starts'[j] = 1
        /\ JournalFacts' /\ EngineFacts' /\ StartsOwn'
        /\ \A j \in Job : journal[j]["start"].state = "succeeded" =>
                            journal'[j]["start"].state = "succeeded"
        /\ journal'[r.job][r.step].state = "mutating"
    BY <1>5, <1>6, <1>7
  <2>2. /\ worker' \in WorkerType /\ worker'.req \in Request
        /\ worker'.pc = "confirm" /\ worker'.req = r
        /\ disp' \in [Dispatcher -> TickType] /\ inbox' \in Seq(Request)
        /\ \A d \in Dispatcher : disp'[d].pc # "idle" => disp'[d].job \in Job
        /\ OneRunning' /\ TickFacts' /\ RequestFacts'
    BY <1>0, <1>1, <1>7, <2>1, GoesOn
  <2>3. WorkerFacts'
    BY <2>1, <2>2 DEF WorkerFacts
  <2> QED
    BY <1>0, <1>2, <2>1, <2>2, <2>3, Assembled
<1>8. ASSUME NEW s \in {"uncertain", "needs_attention"}, Write(r, s, i), Reply(s)
      PROVE  IInv'
  <2>1. /\ meddling' = meddling /\ journal' \in [Job -> [Step -> Row]]
        /\ engine' \in SUBSET [job : Job, step : Step, id : Nat]
        /\ container' \in [Job -> Container]
        /\ creates' \in [Job -> Nat] /\ starts' \in [Job -> Nat]
        /\ \A j \in Job : /\ creates[j] = 1 => creates'[j] = 1
                          /\ starts[j] = 1 => starts'[j] = 1
        /\ JournalFacts' /\ EngineFacts' /\ StartsOwn'
        /\ \A j \in Job : journal[j]["start"].state = "succeeded" =>
                            journal'[j]["start"].state = "succeeded"
    BY <1>5, <1>6, <1>8
  <2>2. /\ disp' \in [Dispatcher -> TickType]
        /\ \A d \in Dispatcher : disp'[d].pc # "idle" => disp'[d].job \in Job
        /\ OneRunning' /\ TickFacts' /\ RequestFacts' /\ WorkerFacts'
        /\ worker' \in WorkerType /\ worker'.pc \in {"idle", "closed"}
    BY <1>0, <1>8, <2>1, ReplyStep DEF WorkerType
  <2> QED
    BY <1>0, <1>2, <2>1, <2>2, Assembled
<1>9. \/ Write(r, "mutating", n) /\ worker' = WorkerAt("confirm", r) /\ UNCHANGED disp
      \/ Write(r, "needs_attention", i) /\ Reply("needs_attention")
      \/ Write(r, "uncertain", i) /\ Reply("uncertain")
  BY <1>1, <1>3, <1>4 DEF EngineAnswers
<1> QED
  BY <1>7, <1>8, <1>9

\* It carries an operation out unheard, or drops it.
LEMMA EngineUnheardStep ==
    ASSUME IInv, NEW op \in engine, EngineUnheard(op)
    PROVE  IInv'
<1>0. /\ EngineEffect(op) /\ UNCHANGED <<coreVars, disp, inbox, worker, journal>>
      /\ UNCHANGED <<job, began>> /\ TypeOK /\ (Fault \/ UNCHANGED faults)
  BY DEF EngineUnheard, IInv, coreVars, workerVars
<1>1. /\ journal[op.job][op.step].state \notin {"none", "prepared", "succeeded"}
      /\ journal \in [Job -> [Step -> Row]]
  <2>1. op.job \in Job /\ op.step \in Step
    BY <1>0, Types
  <2> QED
    BY <1>0, <2>1, Types DEF IInv, EngineFacts, JournalFacts
<1>2. /\ engine' = engine \ {op} /\ meddling' = meddling
      /\ engine' \in SUBSET [job : Job, step : Step, id : Nat]
      /\ container' \in [Job -> Container]
      /\ creates' \in [Job -> Nat] /\ starts' \in [Job -> Nat]
      /\ \A j \in Job : /\ creates[j] = 1 => creates'[j] = 1
                        /\ starts[j] = 1 => starts'[j] = 1
      /\ JournalFacts' /\ EngineFacts' /\ StartsOwn'
      /\ \A j \in Job, k \in Step : ~(j = op.job /\ k = op.step) =>
                                      Effects(j, k)' = Effects(j, k)
  BY <1>0, <1>1, EffectKeeps
<1>3. WorkerFacts'
  <2>1. CASE Serving
    <3>1. PICK r : r = worker.req
      OBVIOUS
    <3>2. r.job \in Job /\ r.step \in Step
      BY <2>1, <3>1, ServedFacts
    <3>3. worker.pc = "submit" => /\ ~(r.job = op.job /\ r.step = op.step)
                                  /\ Effects(r.job, r.step) = 0
      BY <2>1, <3>1 DEF IInv, WorkerFacts
    <3>4. worker.pc = "submit" => Effects(r.job, r.step)' = 0
      BY <1>2, <3>2, <3>3
    <3> QED
      BY <1>0, <1>2, <2>1, <3>1, <3>4 DEF IInv, WorkerFacts, Serving, Effects
  <2>2. CASE ~Serving
    BY <1>0, <2>2 DEF WorkerFacts, Serving
  <2> QED
    BY <2>1, <2>2
<1>4. /\ disp \in [Dispatcher -> TickType] /\ inbox \in Seq(Request) /\ worker \in WorkerType
      /\ \A d \in Dispatcher : disp[d].pc # "idle" => disp[d].job \in Job
      /\ worker.pc \notin Resting => worker.req \in Request
      /\ faults' \in 0..MaxFaults
  BY <1>0, Types, FaultsBounded DEF WorkerType, Serving
<1>5. OneRunning' /\ TickFacts'
  BY <1>0, <1>4 DEF IInv, OneRunning, TickFacts
<1>6. RequestFacts'
  BY <1>0, RequestsKept
<1> QED
  BY <1>0, <1>1, <1>2, <1>3, <1>4, <1>5, <1>6, Assembled

\* The engine drops an operation, or the worker starts again.
LEMMA QuietSteps ==
    ASSUME IInv, (\E op \in engine : EngineDrops(op)) \/ WorkerStart \/ Recover
    PROVE  IInv'
<1>0. /\ UNCHANGED <<coreVars, disp, inbox, journal, container, meddling, creates, starts>>
      /\ UNCHANGED <<job, began>> /\ TypeOK /\ (Fault \/ UNCHANGED faults)
      /\ engine' \subseteq engine
      /\ worker' = worker \/ \E pc \in Resting : worker' = WorkerAt(pc, NoRequest)
  BY DEF IInv, EngineDrops, WorkerStart, Recover, coreVars, workerVars, worldVars
<1>1. /\ disp \in [Dispatcher -> TickType] /\ inbox \in Seq(Request) /\ worker \in WorkerType
      /\ \A d \in Dispatcher : disp[d].pc # "idle" => disp[d].job \in Job
      /\ worker.pc \notin Resting => worker.req \in Request
      /\ journal \in [Job -> [Step -> Row]] /\ container \in [Job -> Container]
      /\ creates \in [Job -> Nat] /\ starts \in [Job -> Nat]
      /\ engine' \in SUBSET [job : Job, step : Step, id : Nat]
  BY <1>0, Types DEF WorkerType, Serving
<1>2. faults' \in 0..MaxFaults
  BY <1>0, FaultsBounded
<1>3. JournalFacts' /\ EngineFacts' /\ StartsOwn'
  BY <1>0 DEF IInv, JournalFacts, EngineFacts, StartsOwn, Effects
<1>4. OneRunning' /\ TickFacts'
  BY <1>0, <1>1 DEF IInv, OneRunning, TickFacts
<1>5. CASE worker' = worker
  <2>1. RequestFacts' /\ WorkerFacts'
    BY <1>0, <1>5, RequestsKept DEF IInv, WorkerFacts, Serving, Effects
  <2> QED
    BY <1>0, <1>1, <1>2, <1>3, <1>4, <1>5, <2>1, Assembled
<1>6. CASE \E pc \in Resting : worker' = WorkerAt(pc, NoRequest)
  <2>1. worker'.pc \in Resting /\ worker' \in WorkerType /\ ~Serving'
    BY <1>6 DEF WorkerAt, WorkerType, Serving
  <2>2. RequestFacts' /\ WorkerFacts'
    BY <1>0, <2>1 DEF IInv, RequestFacts, Sent, WorkerFacts
  <2> QED
    BY <1>0, <1>1, <1>2, <1>3, <1>4, <2>1, <2>2, Assembled
<1> QED
  BY <1>0, <1>5, <1>6

\* Somebody else changes a container, never into one that runs or has an
\* identity it did not have.
LEMMA MeddleStep ==
    ASSUME IInv, NEW j \in Job, Meddle(j)
    PROVE  IInv'
<1>0. /\ UNCHANGED <<job, permitted, expired, began, disp, inbox, worker, journal, engine,
                     creates, starts, faults>>
      /\ TypeOK /\ meddling < MaxMeddling /\ meddling' = meddling + 1
      /\ container \in [Job -> Container]
  BY Types DEF IInv, Meddle, coreVars, workerVars
<1>1. PICK c : container' = [container EXCEPT ![j] = c] /\ c \in Container
               /\ (c.id # 0 => c.id = container[j].id) /\ c.status # "running"
  <2>1. CASE container' = [container EXCEPT ![j] = Absent]
    <3>1. Absent \in Container /\ Absent.id = 0 /\ Absent.status # "running"
      BY DEF Absent, Container
    <3> QED
      BY <2>1, <3>1
  <2>2. CASE container' = [container EXCEPT ![j] = [status |-> "created", id |-> 0]]
    <3>1. PICK c : c = [status |-> "created", id |-> 0]
      OBVIOUS
    <3>2. c \in Container /\ c.id = 0 /\ c.status # "running"
      BY <3>1 DEF Container
    <3> QED
      BY <2>2, <3>1, <3>2
  <2>3. CASE container' = [container EXCEPT ![j].status = "exited"]
    <3>1. PICK c : c = [container[j] EXCEPT !.status = "exited"]
      OBVIOUS
    <3>2. c \in Container /\ c.id = container[j].id /\ c.status # "running"
      BY <1>0, <3>1 DEF Container
    <3>3. container' = [container EXCEPT ![j] = c]
      BY <1>0, <2>3, <3>1
    <3> QED
      BY <3>2, <3>3
  <2> QED
    BY <2>1, <2>2, <2>3 DEF Meddle
<1>2. /\ container' \in [Job -> Container]
      /\ \A k \in Job : /\ container'[k].id # 0 => container[k].id # 0
                        /\ container'[k].status = "running" => container[k].status = "running"
  BY <1>0, <1>1
<1>3. meddling' \in 0..MaxMeddling
  BY <1>0, ConstantsAssumption DEF TypeOK
<1>4. TypeOK'
  BY <1>0, <1>2, <1>3 DEF TypeOK
<1>5. JobFacts' /\ OneRunning' /\ TickFacts'
  BY <1>0 DEF IInv, JobFacts, OneRunning, TickFacts
<1>6. JournalFacts'
  BY <1>0, <1>2 DEF IInv, JournalFacts, Effects
<1>7. EngineFacts' /\ StartsOwn'
  BY <1>0 DEF IInv, EngineFacts, StartsOwn, Effects
<1>8. RequestFacts' /\ WorkerFacts'
  BY <1>0, RequestsKept, ServedKept
<1> QED
  BY <1>4, <1>5, <1>6, <1>7, <1>8 DEF IInv

\* The worker ends, and with it its connections.
LEMMA WorkerEndsStep ==
    ASSUME IInv, WorkerCrash \/ WorkerStop
    PROVE  IInv'
<1>0. /\ UNCHANGED <<coreVars, journal, worldVars>>
      /\ UNCHANGED <<job, began, journal, engine, container, creates, starts, meddling>>
      /\ TypeOK /\ (Fault \/ UNCHANGED faults)
      /\ inbox' = <<>> /\ \E pc \in Resting : worker' = WorkerAt(pc, NoRequest)
      /\ disp' = [d \in Dispatcher |->
                    IF disp[d].pc = "wait" THEN NextCall(disp[d], "error") ELSE disp[d]]
      /\ disp \in [Dispatcher -> TickType]
      /\ \A d \in Dispatcher : disp[d].pc # "idle" => disp[d].job \in Job
  BY Types DEF IInv, WorkerCrash, WorkerStop, WorkerEnds, coreVars, worldVars
<1>1. \A d \in Dispatcher :
        /\ NextCall(disp[d], "error") \in TickType /\ NextCall(disp[d], "error").job = disp[d].job
        /\ NextCall(disp[d], "error").pc \in {"gate", "finish"}
        /\ ~(NextCall(disp[d], "error").pc = "finish"
             /\ NextCall(disp[d], "error").outcome = "succeeded")
  BY <1>0, NextCallFacts
<1>2. ASSUME NEW d \in Dispatcher
      PROVE  /\ disp'[d] \in TickType /\ disp'[d].job = disp[d].job
             /\ disp'[d].pc # "idle" => disp[d].pc # "idle"
             /\ disp'[d].pc = "finish" /\ disp'[d].outcome = "succeeded" => disp'[d] = disp[d]
  <2>1. CASE disp[d].pc = "wait"
    BY <1>0, <1>1, <2>1
  <2>2. CASE disp[d].pc # "wait"
    BY <1>0, <2>2
  <2> QED
    BY <2>1, <2>2
<1>3. /\ disp' \in [Dispatcher -> TickType]
      /\ \A d \in Dispatcher : disp'[d].pc # "idle" => disp'[d].job \in Job
  BY <1>0, <1>2
<1>4. OneRunning' /\ TickFacts'
  BY <1>0, <1>2 DEF IInv, OneRunning, TickFacts
<1>5. worker'.pc \in Resting /\ worker' \in WorkerType /\ ~Serving'
  BY <1>0 DEF WorkerAt, WorkerType, Serving
<1>6. inbox' \in Seq(Request) /\ Len(inbox') = 0
  BY <1>0
<1>7. RequestFacts' /\ WorkerFacts'
  BY <1>5, <1>6 DEF RequestFacts, WorkerFacts
<1>8. JournalFacts' /\ EngineFacts' /\ StartsOwn'
  BY <1>0, WorldKept
<1>9. /\ journal' \in [Job -> [Step -> Row]] /\ container' \in [Job -> Container]
      /\ engine' \in SUBSET [job : Job, step : Step, id : Nat]
      /\ creates' \in [Job -> Nat] /\ starts' \in [Job -> Nat] /\ faults' \in 0..MaxFaults
  BY <1>0, Types, FaultsBounded
<1> QED
  BY <1>0, <1>3, <1>4, <1>5, <1>6, <1>7, <1>8, <1>9, Assembled

-----------------------------------------------------------------------------
(* The invariant *)

\* The first state.
LEMMA InitIInv ==
    ASSUME Init
    PROVE  IInv
<1>1. /\ \A j \in Job : job[j].state = "none" /\ job[j].cancel = FALSE
      /\ \A d \in Dispatcher : disp[d] = Idle /\ disp[d].pc = "idle"
      /\ worker.pc = "idle" /\ Len(inbox) = 0 /\ engine = {} /\ began = {}
      /\ \A j \in Job, k \in Step : journal[j][k] = NoRow /\ journal[j][k].state = "none"
      /\ \A j \in Job : container[j].status = "absent" /\ container[j].id = 0
      /\ \A j \in Job : creates[j] = 0 /\ starts[j] = 0
      /\ "create" \in Step /\ "start" \in Step
  BY DEF Init, Idle, WorkerAt, NoRow, Absent, Step
<1>2. TypeOK
  <2>1. Idle \in TickType
    BY DEF Idle, TickType, Step, Operation, Outcome
  <2>2. NoRow \in Row /\ Absent \in Container
    BY DEF NoRow, Row, Absent, Container
  <2>3. job \in [Job -> [state : {"none"} \cup Open \cup Ended, cancel : BOOLEAN, seq : Nat]]
    BY DEF Init
  <2>4. /\ disp \in [Dispatcher -> TickType] /\ journal \in [Job -> [Step -> Row]]
        /\ container \in [Job -> Container] /\ inbox \in Seq(Request)
    BY <2>1, <2>2 DEF Init
  <2>5. worker \in WorkerType
    BY DEF Init, WorkerAt, WorkerType
  <2>6. /\ permitted \in [Job -> BOOLEAN] /\ expired \in [Job -> BOOLEAN]
        /\ creates \in [Job -> Nat] /\ starts \in [Job -> Nat] /\ began \in SUBSET Job
        /\ engine \in SUBSET [job : Job, step : Step, id : Nat]
        /\ faults \in 0..MaxFaults /\ meddling \in 0..MaxMeddling
    BY ConstantsAssumption DEF Init
  <2> QED
    BY <1>1, <2>3, <2>4, <2>5, <2>6 DEF TypeOK, TickType, WorkerType
<1>3. JobFacts /\ OneRunning /\ TickFacts
  BY <1>1 DEF JobFacts, OneRunning, TickFacts
<1>4. RequestFacts /\ WorkerFacts
  BY <1>1 DEF RequestFacts, WorkerFacts, Serving
<1>5. JournalFacts /\ EngineFacts /\ StartsOwn
  BY <1>1 DEF JournalFacts, EngineFacts, StartsOwn, Effects
<1> QED
  BY <1>2, <1>3, <1>4, <1>5 DEF IInv

\* Every step keeps the invariant.
LEMMA NextIInv ==
    ASSUME IInv, [Next]_vars
    PROVE  IInv'
<1>1. CASE AdminStep \/ TimeStep
  BY <1>1, AdminSteps DEF AdminStep, TimeStep
<1>2. CASE DispatcherStep
  BY <1>2, PickStep, CallStep, TimeoutStep, FinishStep DEF DispatcherStep
<1>3. CASE DispatcherFault
  BY <1>3, CoreCrashStep DEF DispatcherFault
<1>4. CASE WorkerStep
  BY <1>4, ServeStep, ServeClosedStep, InspectStep, SubmitStep, GiveUpStep, ConfirmStep
     DEF WorkerStep
<1>5. CASE EngineStep
  BY <1>5, EngineAnswersStep, EngineUnheardStep DEF EngineStep
<1>6. CASE EngineFault \/ WorkerCrash \/ OperatorStep
  BY <1>6, QuietSteps, WorkerEndsStep DEF EngineFault, OperatorStep
<1>7. CASE \E j \in Job : Meddle(j)
  BY <1>7, MeddleStep
<1>8. CASE UNCHANGED vars
  <2>1. UNCHANGED <<job, permitted, expired, began, disp, inbox, worker, journal, engine,
                    container, meddling, creates, starts, faults>>
    BY <1>8 DEF vars, coreVars, workerVars, worldVars
  <2>2. TypeOK' /\ JobFacts' /\ OneRunning' /\ TickFacts'
    BY <2>1 DEF IInv, TypeOK, JobFacts, OneRunning, TickFacts
  <2>3. RequestFacts' /\ JournalFacts' /\ EngineFacts' /\ StartsOwn' /\ WorkerFacts'
    BY <2>1, RequestsKept, WorldKept, ServedKept
  <2> QED
    BY <2>2, <2>3 DEF IInv
<1> QED
  BY <1>1, <1>2, <1>3, <1>4, <1>5, <1>6, <1>7, <1>8 DEF Next

\* The inductive invariant holds in every reachable state, however the ticks of
\* installation_execution.py, the worker of worker.py and the engine interleave.
THEOREM InstallationInvariant == Spec => []IInv
<1>1. Init => IInv
  BY InitIInv
<1>2. IInv /\ [Next]_vars => IInv'
  BY NextIInv
<1> QED
  BY <1>1, <1>2, PTL DEF Spec

\* Type correctness of the jobs, the ticks, the socket's queue, the worker and
\* its journal, and the engine.
THEOREM InstallationTypeCorrect == Spec => []TypeOK
<1>1. IInv => TypeOK
  BY DEF IInv
<1> QED
  BY <1>1, InstallationInvariant, PTL

\* At most one job is running, and the tick of installation_execution.py that is
\* at a job is at that one.
THEOREM OneJobRuns == Spec => []OneRunning
<1>1. IInv => OneRunning
  BY DEF IInv
<1> QED
  BY <1>1, InstallationInvariant, PTL

\* The engine is only ever told to start the container that the job's own create
\* step is recorded to have made, whatever has its name by then.
THEOREM OwnContainerStarted == Spec => []StartsOwn
<1>1. IInv => StartsOwn
  BY DEF IInv
<1> QED
  BY <1>1, InstallationInvariant, PTL

-----------------------------------------------------------------------------
(* The deadline *)

Late(j) == expired[j] /\ ~Begun(j)

Rests(j) == ~Begun(j)' /\ creates'[j] = creates[j] /\ starts'[j] = starts[j]

\* A step that hands the engine nothing and writes no intent begins nothing.
LEMMA NothingBegun ==
    ASSUME NEW j \in Job, Late(j), engine' \subseteq engine,
           worker'.pc \in {"submit", "engine"} =>
             worker'.pc = worker.pc /\ worker'.req.job = worker.req.job,
           creates'[j] = creates[j], starts'[j] = starts[j]
    PROVE  Rests(j)
BY DEF Late, Rests, Begun

\* The same of the worker's answer.
LEMMA ReplyBeginsNothing ==
    ASSUME NEW j \in Job, Late(j), NEW state, Reply(state), UNCHANGED worldVars
    PROVE  Rests(j)
<1>1. worker'.pc \in {"idle", "closed"}
  BY DEF Reply, WorkerAt
<1>2. UNCHANGED <<engine, creates, starts>>
  BY DEF worldVars
<1> QED
  BY <1>1, <1>2, NothingBegun

\* After the deadline of a job, with nothing of it begun, nothing is.
LEMMA LateStep ==
    ASSUME IInv, Next, NEW j \in Job, Late(j)
    PROVE  Rests(j)
<1>0. TypeOK
  BY DEF IInv
<1>1. CASE \/ AdminStep \/ TimeStep
           \/ \E d \in Dispatcher : (\E k \in Job : Pick(d, k)) \/ Call(d) \/ Finish(d)
  <2>1. UNCHANGED <<worker, engine, creates, starts>>
    BY <1>1 DEF AdminStep, TimeStep, Create, Cancel, Withdraw, Expire, Pick, Call,
                Finish, workerVars, worldVars
  <2> QED
    BY <2>1, NothingBegun
<1>2. CASE DispatcherFault \/ \E d \in Dispatcher : Timeout(d)
  <2>1. PICK d \in Dispatcher : Abandon(d) /\ UNCHANGED <<engine, creates, starts>>
    BY <1>2 DEF DispatcherFault, Timeout, CoreCrash, worldVars
  <2>2. /\ worker'.pc = worker.pc
        /\ Serving => worker'.req.job = worker.req.job
    BY <2>1, AbandonFacts
  <2> QED
    BY <2>1, <2>2, NothingBegun DEF Serving
<1>3. CASE Serve
  <2>1. UNCHANGED <<engine, creates, starts>> /\ worker.pc = "idle"
    BY <1>3 DEF Serve, worldVars
  <2>2. \/ worker' = worker
        \/ \E pc \in {"idle", "closed", "inspect", "confirm"} : \E r : worker' = WorkerAt(pc, r)
    BY <1>3 DEF Serve
  <2>3. worker'.pc \notin {"submit", "engine"}
    BY <2>1, <2>2 DEF WorkerAt
  <2> QED
    BY <2>1, <2>3, NothingBegun
<1>4. CASE Inspect
  <2>1. UNCHANGED worldVars /\ UNCHANGED <<engine, creates, starts>>
    BY <1>4 DEF Inspect, worldVars
  <2>2. CASE \E state : Reply(state)
    BY <2>1, <2>2, ReplyBeginsNothing
  <2>3. CASE ~TooLate(worker.req) /\ worker' = WorkerAt("submit", worker.req)
    <3>1. worker'.pc = "submit" /\ worker'.req.job # j
      BY <2>3 DEF WorkerAt, TooLate, Late
    <3> QED
      BY <2>1, <3>1 DEF Late, Rests, Begun
  <2> QED
    BY <1>4, <2>2, <2>3 DEF Inspect
<1>5. CASE Submit
  <2>1. /\ worker.pc = "submit" /\ engine' = engine \cup {Op(worker.req)}
        /\ worker' = WorkerAt("engine", worker.req) /\ UNCHANGED <<creates, starts>>
    BY <1>5 DEF Submit
  <2>2. worker.req.job # j /\ Op(worker.req).job = worker.req.job
    BY <2>1 DEF Late, Begun, Op
  <2>3. worker'.req.job # j
    BY <2>1, <2>2 DEF WorkerAt
  <2> QED
    BY <2>1, <2>2, <2>3 DEF Late, Rests, Begun
<1>6. CASE GiveUp \/ Confirm
  <2>1. UNCHANGED worldVars /\ \E state : Reply(state)
    BY <1>6 DEF GiveUp, Confirm
  <2> QED
    BY <2>1, ReplyBeginsNothing
<1>7. CASE ServeClosed \/ OperatorStep \/ WorkerCrash
  <2>1. UNCHANGED <<engine, creates, starts>> /\ worker'.pc \in Resting
    BY <1>7 DEF ServeClosed, OperatorStep, WorkerStart, WorkerStop, Recover, WorkerCrash, WorkerEnds,
                worldVars, WorkerAt
  <2> QED
    BY <2>1, NothingBegun
<1>8. CASE EngineStep
  <2>1. PICK op \in engine : EngineEffect(op) /\ (EngineAnswers(op) \/ EngineUnheard(op))
    BY <1>8 DEF EngineStep, EngineAnswers, EngineUnheard
  <2>2. op.job # j
    BY <2>1 DEF Late, Begun
  <2>3. engine' \subseteq engine /\ creates'[j] = creates[j] /\ starts'[j] = starts[j]
    BY <1>0, <2>1, <2>2 DEF EngineEffect, TypeOK
  <2>4. worker' = worker \/ worker'.pc \in {"confirm", "idle", "closed"}
    BY <2>1 DEF EngineAnswers, EngineUnheard, workerVars, Reply, WorkerAt
  <2> QED
    BY <2>3, <2>4, NothingBegun
<1>9. CASE EngineFault \/ \E k \in Job : Meddle(k)
  <2>1. UNCHANGED <<worker, creates, starts>> /\ engine' \subseteq engine
    BY <1>9 DEF EngineFault, EngineDrops, Meddle, workerVars
  <2> QED
    BY <2>1, NothingBegun
<1> QED
  BY <1>1, <1>2, <1>3, <1>4, <1>5, <1>6, <1>7, <1>8, <1>9
     DEF Next, WorkerStep, DispatcherStep

\* Once a job's deadline has passed with nothing of it at the engine, no request
\* still queued or sent again makes the worker of worker.py begin anything.
THEOREM DeadlineKept == Spec => QuietAfterDeadline
<1>1. IInv /\ [Next]_vars =>
        [\A j \in Job : expired[j] /\ ~Begun(j) =>
           ~Begun(j)' /\ creates'[j] = creates[j] /\ starts'[j] = starts[j]]_vars
  BY LateStep DEF Late, Rests
<1> QED
  BY <1>1, InstallationInvariant, PTL DEF Spec, QuietAfterDeadline

-----------------------------------------------------------------------------
(* Refinement *)

\* A job in the ledger, by the state of its row and whether it was dispatched.
StatusOf(s, b) ==
    CASE s = "none" -> "none"
      [] s = "queued" -> "accepted"
      [] s = "running" -> "executing"
      [] s = "container_started" -> "succeeded"
      [] s = "cancelled" /\ ~b -> "cancelled"
      [] OTHER -> "unknown"

\* The ledger's view of a job depends on nothing else.
LEMMA StatusFacts ==
    /\ LedgerStatus = [j \in Job |-> StatusOf(job[j].state, j \in began)]
    /\ LedgerStatus' = [j \in Job |-> StatusOf(job'[j].state, j \in began')]
    /\ \A b : /\ StatusOf("none", b) = "none" /\ StatusOf("queued", b) = "accepted"
              /\ StatusOf("running", b) = "executing"
              /\ StatusOf("container_started", b) = "succeeded"
              /\ StatusOf("needs_attention", b) = "unknown"
    /\ StatusOf("cancelled", FALSE) = "cancelled" /\ StatusOf("cancelled", TRUE) = "unknown"
<1>1. LedgerStatus = [j \in Job |-> StatusOf(job[j].state, j \in began)]
  BY DEF LedgerStatus, StatusOf
<1>2. LedgerStatus' = [j \in Job |-> StatusOf(job'[j].state, j \in began')]
  BY DEF LedgerStatus, StatusOf
<1>3. /\ \A b : /\ StatusOf("none", b) = "none" /\ StatusOf("queued", b) = "accepted"
                /\ StatusOf("running", b) = "executing"
                /\ StatusOf("container_started", b) = "succeeded"
                /\ StatusOf("needs_attention", b) = "unknown"
      /\ StatusOf("cancelled", FALSE) = "cancelled" /\ StatusOf("cancelled", TRUE) = "unknown"
  BY DEF StatusOf
<1> QED
  BY <1>1, <1>2, <1>3

Moved(j, s, t) == LedgerStatus[j] = s /\ LedgerStatus' = [LedgerStatus EXCEPT ![j] = t]

\* A step of both ledgers: a status moves, or one effect happens.
StatusMove(j) ==
    /\ UNCHANGED <<creates, starts>>
    /\ \/ Moved(j, "none", "accepted") \/ Moved(j, "accepted", "executing")
       \/ Moved(j, "accepted", "cancelled")
       \/ Moved(j, "executing", "succeeded") /\ creates[j] = 1 /\ starts[j] = 1
       \/ \E s \in {"accepted", "executing"} : Moved(j, s, "unknown")

EffectMove(j) ==
    /\ UNCHANGED LedgerStatus /\ LedgerStatus[j] \in {"executing", "unknown"}
    /\ \/ creates[j] = 0 /\ creates' = [creates EXCEPT ![j] = 1] /\ UNCHANGED starts
       \/ starts[j] = 0 /\ starts' = [starts EXCEPT ![j] = 1] /\ UNCHANGED creates

LedgerMove ==
    \/ UNCHANGED <<LedgerStatus, creates, starts>>
    \/ \E j \in Job : StatusMove(j) \/ EffectMove(j)

\* Only one job's row changes.
LEMMA RowMoves ==
    ASSUME NEW j \in Job, \A k \in Job : k # j => job'[k].state = job[k].state,
           began' \ {j} = began \ {j}
    PROVE  LedgerStatus' = [LedgerStatus EXCEPT ![j] = StatusOf(job'[j].state, j \in began')]
<1>1. \A k \in Job : k # j => (k \in began' <=> k \in began)
  OBVIOUS
<1>2. \A k \in Job : k # j =>
        StatusOf(job'[k].state, k \in began') = StatusOf(job[k].state, k \in began)
  <2>1. ASSUME NEW k \in Job, k # j
        PROVE  StatusOf(job'[k].state, k \in began') = StatusOf(job[k].state, k \in began)
    <3>1. (k \in began') = (k \in began)
      BY <1>1, <2>1
    <3> QED
      BY <2>1, <3>1
  <2> QED
    BY <2>1
<1> QED
  BY <1>2, StatusFacts

\* Where no row changes and nothing takes effect, the ledgers rest.
LEMMA LedgersRest ==
    ASSUME UNCHANGED <<job, began, creates, starts>>
    PROVE  LedgerMove
BY DEF LedgerMove, LedgerStatus

\* Requests of administrators.
LEMMA AdminMoves ==
    ASSUME IInv, NEW j \in Job, Create(j) \/ Cancel(j)
    PROVE  LedgerMove
<1>0. /\ UNCHANGED <<began, creates, starts>>
      /\ job \in [Job -> [state : {"none"} \cup Open \cup Ended, cancel : BOOLEAN, seq : Nat]]
  BY Types DEF IInv, Create, Cancel, worldVars
<1>1. CASE Create(j)
  <2>1. /\ job[j].state = "none" /\ job'[j].state = "queued"
        /\ \A k \in Job : k # j => job'[k].state = job[k].state
    BY <1>0, <1>1 DEF Create
  <2>2. Moved(j, "none", "accepted")
    BY <1>0, <2>1, RowMoves, StatusFacts DEF Moved
  <2> QED
    BY <1>0, <2>2 DEF LedgerMove, StatusMove
<1>2. CASE Cancel(j)
  <2>1. /\ job[j].state \in Open
        /\ job'[j].state = IF job[j].state = "queued" THEN "cancelled" ELSE job[j].state
        /\ \A k \in Job : k # j => job'[k].state = job[k].state
    BY <1>0, <1>2 DEF Cancel
  <2>2. CASE job[j].state = "queued"
    <3>1. (j \in began') = FALSE
      BY <1>0, <2>2 DEF IInv, JobFacts
    <3>2. Moved(j, "accepted", "cancelled")
      <4>1. job'[j].state = "cancelled"
        BY <2>1, <2>2
      <4>2. StatusOf("cancelled", j \in began') = "cancelled"
        BY <3>1, StatusFacts
      <4>3. LedgerStatus' = [LedgerStatus EXCEPT ![j] = "cancelled"]
        BY <1>0, <2>1, <4>1, <4>2, RowMoves
      <4> QED
        BY <2>2, <4>3, StatusFacts DEF Moved
    <3> QED
      BY <1>0, <3>2 DEF LedgerMove, StatusMove
  <2>3. CASE job[j].state # "queued"
    <3>1. \A k \in Job : job'[k].state = job[k].state
      BY <2>1, <2>3
    <3>2. UNCHANGED LedgerStatus
      BY <1>0, <3>1 DEF LedgerStatus
    <3> QED
      BY <1>0, <3>2 DEF LedgerMove
  <2> QED
    BY <2>2, <2>3
<1> QED
  BY <1>1, <1>2

\* A tick begins a job, goes on with it, or closes it unbegun or given up.
LEMMA PickMoves ==
    ASSUME IInv, NEW d \in Dispatcher, NEW j \in Job, Pick(d, j)
    PROVE  LedgerMove
<1>0. /\ UNCHANGED <<creates, starts>> /\ job[j].state \in {"queued", "running"}
      /\ job \in [Job -> [state : {"none"} \cup Open \cup Ended, cancel : BOOLEAN, seq : Nat]]
      /\ job[j].state = "running" <=> j \in began
      /\ job[j].state = "queued" => ~job[j].cancel
  BY Types DEF IInv, JobFacts, Pick, First, Open, worldVars
<1>1. CASE Verdict(j) = "allowed"
  <2>1. job' = [job EXCEPT ![j].state = "running"] /\ began' = began \cup {j}
    BY <1>1 DEF Pick
  <2>2. job'[j].state = "running" /\ \A k \in Job : k # j => job'[k].state = job[k].state
    BY <1>0, <2>1
  <2>3. LedgerStatus' = [LedgerStatus EXCEPT ![j] = "executing"]
    BY <2>1, <2>2, RowMoves, StatusFacts
  <2>4. CASE job[j].state = "queued"
    <3>1. Moved(j, "accepted", "executing")
      BY <2>3, <2>4, StatusFacts DEF Moved
    <3> QED
      BY <1>0, <3>1 DEF LedgerMove, StatusMove
  <2>5. CASE job[j].state = "running"
    <3>1. LedgerStatus[j] = "executing"
      BY <2>5, StatusFacts
    <3>2. UNCHANGED LedgerStatus
      BY <2>3, <3>1, StatusFacts
    <3> QED
      BY <1>0, <3>2 DEF LedgerMove
  <2> QED
    BY <1>0, <2>4, <2>5
<1>2. CASE Verdict(j) # "allowed"
  <2>1. PICK s : s = Verdict(j)
    OBVIOUS
  <2>2. /\ UNCHANGED began
        /\ job' = [job EXCEPT ![j].state = s, ![j].cancel = (s = "cancelled")]
    BY <1>2, <2>1 DEF Pick, EndJob
  <2>3. s = "needs_attention" \/ (s = "cancelled" /\ job[j].state = "running")
    BY <1>0, <1>2, <2>1 DEF Verdict
  <2>4. job'[j].state = s /\ \A k \in Job : k # j => job'[k].state = job[k].state
    BY <1>0, <2>2
  <2>5. StatusOf(s, j \in began') = "unknown"
    <3>1. s = "cancelled" => (j \in began') = TRUE
      BY <1>0, <2>2, <2>3
    <3> QED
      BY <2>3, <3>1, StatusFacts
  <2>6. LedgerStatus' = [LedgerStatus EXCEPT ![j] = "unknown"]
    BY <2>2, <2>4, <2>5, RowMoves
  <2>7. LedgerStatus[j] \in {"accepted", "executing"}
    BY <1>0, StatusFacts
  <2> QED
    BY <1>0, <2>6, <2>7 DEF LedgerMove, StatusMove, Moved
<1> QED
  BY <1>1, <1>2

\* A tick ends: a success has both effects, and any other verdict leaves open
\* what happened.
LEMMA FinishMoves ==
    ASSUME IInv, NEW d \in Dispatcher, Finish(d)
    PROVE  LedgerMove
<1>0. /\ UNCHANGED <<began, creates, starts>> /\ TypeOK /\ disp[d].pc = "finish"
      /\ FinishJob(disp[d].job, disp[d].outcome)
      /\ job \in [Job -> [state : {"none"} \cup Open \cup Ended, cancel : BOOLEAN, seq : Nat]]
  BY Types DEF IInv, Finish, worldVars
<1>1. PICK j \in Job : j = disp[d].job
  BY <1>0, Types
<1>2. job[j].state = "running" /\ (j \in began') = TRUE
  BY <1>0, <1>1 DEF IInv, OneRunning, JobFacts
<1>3. LedgerStatus[j] = "executing"
  BY <1>2, StatusFacts
<1>4. disp[d].outcome = "succeeded" => creates[j] = 1 /\ starts[j] = 1
  <2>1. disp[d].outcome = "succeeded" => journal[j]["start"].state = "succeeded"
    BY <1>0, <1>1 DEF IInv, TickFacts
  <2>2. "create" \in Step /\ "start" \in Step
    BY DEF Step
  <2> QED
    BY <2>1, <2>2 DEF IInv, JournalFacts, Effects
<1>5. \/ UNCHANGED job
      \/ \E s \in {"cancelled", "needs_attention"} : \E c : EndJob(j, s, c)
      \/ EndJob(j, "container_started", FALSE) /\ disp[d].outcome = "succeeded"
  BY <1>0, <1>1 DEF FinishJob
<1>6. ASSUME NEW s, NEW c, EndJob(j, s, c)
      PROVE  LedgerStatus' = [LedgerStatus EXCEPT ![j] = StatusOf(s, TRUE)]
  <2>1. job'[j].state = s /\ \A k \in Job : k # j => job'[k].state = job[k].state
    BY <1>0, <1>6 DEF EndJob
  <2> QED
    BY <1>0, <1>2, <2>1, RowMoves
<1>7. CASE UNCHANGED job
  BY <1>0, <1>7, LedgersRest
<1>8. CASE \E s \in {"cancelled", "needs_attention"} : \E c : EndJob(j, s, c)
  <2>0. PICK s \in {"cancelled", "needs_attention"} : \E c : EndJob(j, s, c)
    BY <1>8
  <2>1. LedgerStatus' = [LedgerStatus EXCEPT ![j] = "unknown"]
    <3>1. StatusOf(s, TRUE) = "unknown"
      BY <2>0, StatusFacts
    <3> QED
      BY <1>6, <2>0, <3>1
  <2> QED
    BY <1>0, <1>3, <2>1 DEF LedgerMove, StatusMove, Moved
<1>9. CASE EndJob(j, "container_started", FALSE) /\ disp[d].outcome = "succeeded"
  <2>1. LedgerStatus' = [LedgerStatus EXCEPT ![j] = "succeeded"]
    BY <1>6, <1>9, StatusFacts
  <2> QED
    BY <1>0, <1>3, <1>4, <1>9, <2>1 DEF LedgerMove, StatusMove, Moved
<1> QED
  BY <1>5, <1>7, <1>8, <1>9

\* An operation takes effect for a job that was dispatched and has not succeeded.
LEMMA EffectMoves ==
    ASSUME IInv, NEW op \in engine, EngineEffect(op), UNCHANGED <<job, began>>
    PROVE  LedgerMove
<1>0. /\ TypeOK /\ op.job \in Job /\ op.step \in Step
      /\ job \in [Job -> [state : {"none"} \cup Open \cup Ended, cancel : BOOLEAN, seq : Nat]]
  BY Types DEF IInv
<1>1. /\ Effects(op.job, op.step) = 0 /\ op.job \in began
  BY <1>0 DEF IInv, EngineFacts, JournalFacts
<1>2. /\ job[op.job].state \in {"running", "needs_attention", "cancelled"}
  <2>1. job[op.job].state # "container_started"
    BY <1>0, <1>1 DEF IInv, JobFacts, Effects
  <2>2. job[op.job].state \in {"none", "queued", "running", "container_started",
                               "needs_attention", "cancelled"}
    BY <1>0 DEF Open, Ended
  <2> QED
    BY <1>0, <1>1, <2>1, <2>2 DEF IInv, JobFacts
<1>3. LedgerStatus[op.job] \in {"executing", "unknown"}
  <2>1. (op.job \in began) = TRUE
    BY <1>1
  <2> QED
    BY <1>0, <1>2, <2>1, StatusFacts
<1>4. UNCHANGED LedgerStatus
  BY DEF LedgerStatus
<1>5. \/ UNCHANGED <<creates, starts>>
      \/ /\ op.step = "create" /\ creates[op.job] = 0 /\ UNCHANGED starts
         /\ creates' = [creates EXCEPT ![op.job] = 1]
      \/ /\ op.step = "start" /\ starts[op.job] = 0 /\ UNCHANGED creates
         /\ starts' = [starts EXCEPT ![op.job] = 1]
  BY EffectFacts
<1> QED
  BY <1>0, <1>3, <1>4, <1>5 DEF LedgerMove, EffectMove

\* Every step of the system is a step of both ledgers.
LEMMA NextMoves ==
    ASSUME IInv, [Next]_vars
    PROVE  LedgerMove
<1>1. CASE AdminStep
  BY <1>1, AdminMoves DEF AdminStep
<1>2. CASE DispatcherStep
  <2>1. ASSUME NEW d \in Dispatcher, Call(d) \/ Timeout(d) PROVE LedgerMove
    BY <2>1, LedgersRest DEF Call, Timeout, coreVars, worldVars
  <2> QED
    BY <1>2, <2>1, PickMoves, FinishMoves DEF DispatcherStep
<1>3. CASE TimeStep \/ DispatcherFault \/ WorkerStep \/ OperatorStep \/ EngineFault
           \/ WorkerCrash \/ (\E j \in Job : Meddle(j)) \/ UNCHANGED vars
  <2>1. UNCHANGED <<job, began, creates, starts>>
    BY <1>3 DEF TimeStep, Withdraw, Expire, DispatcherFault, CoreCrash, WorkerStep, Serve,
                ServeClosed, Inspect, Submit, GiveUp, Confirm, OperatorStep, WorkerStop, WorkerStart, Recover,
                WorkerEnds, EngineFault, EngineDrops,
                WorkerCrash, Meddle, vars, coreVars, worldVars
  <2> QED
    BY <2>1, LedgersRest
<1>4. CASE EngineStep
  <2>1. PICK op \in engine : EngineEffect(op) /\ UNCHANGED <<job, began>>
    BY <1>4 DEF EngineStep, EngineAnswers, EngineUnheard, coreVars
  <2> QED
    BY <2>1, EffectMoves
<1> QED
  BY <1>1, <1>2, <1>3, <1>4 DEF Next

\* What such a step is to the ledger of creations.
LEMMA CreateLedgerStep ==
    ASSUME LedgerMove
    PROVE  [CreateLedger!Next]_(CreateLedger!vars)
<1>1. CASE UNCHANGED <<LedgerStatus, creates, starts>>
  BY <1>1 DEF CreateLedger!vars
<1>2. ASSUME NEW j \in Job, StatusMove(j) PROVE CreateLedger!Next
  <2>0. UNCHANGED creates
    BY <1>2 DEF StatusMove
  <2>1. CASE Moved(j, "none", "accepted") \/ Moved(j, "accepted", "executing")
             \/ Moved(j, "accepted", "cancelled")
    BY <2>0, <2>1 DEF Moved, CreateLedger!Next, CreateLedger!Accept, CreateLedger!Begin,
                      CreateLedger!Cancel, CreateLedger!Become
  <2>2. CASE Moved(j, "executing", "succeeded") /\ creates[j] = 1
    BY <2>0, <2>2 DEF Moved, CreateLedger!Next, CreateLedger!Succeed, CreateLedger!Become
  <2>3. CASE \E s \in {"accepted", "executing"} : Moved(j, s, "unknown")
    <3>1. /\ LedgerStatus[j] \in {"accepted", "executing"}
          /\ LedgerStatus' = [LedgerStatus EXCEPT ![j] = "unknown"]
      BY <2>3 DEF Moved
    <3>2. LedgerStatus' = [k \in Job |-> IF k \in {j} THEN "unknown" ELSE LedgerStatus[k]]
      BY <3>1, StatusFacts
    <3>3. CreateLedger!GiveUp({j})
      BY <2>0, <3>1, <3>2 DEF CreateLedger!GiveUp, CreateLedger!Unfinished
    <3> QED
      BY <3>3 DEF CreateLedger!Next
  <2> QED
    BY <1>2, <2>1, <2>2, <2>3 DEF StatusMove
<1>3. ASSUME NEW j \in Job, EffectMove(j)
      PROVE  CreateLedger!Next \/ UNCHANGED CreateLedger!vars
  BY <1>3 DEF EffectMove, CreateLedger!Next, CreateLedger!TakeEffect, CreateLedger!vars
<1> QED
  BY <1>1, <1>2, <1>3 DEF LedgerMove

\* And to the ledger of starts.
LEMMA StartLedgerStep ==
    ASSUME LedgerMove
    PROVE  [StartLedger!Next]_(StartLedger!vars)
<1>1. CASE UNCHANGED <<LedgerStatus, creates, starts>>
  BY <1>1 DEF StartLedger!vars
<1>2. ASSUME NEW j \in Job, StatusMove(j) PROVE StartLedger!Next
  <2>0. UNCHANGED starts
    BY <1>2 DEF StatusMove
  <2>1. CASE Moved(j, "none", "accepted") \/ Moved(j, "accepted", "executing")
             \/ Moved(j, "accepted", "cancelled")
    BY <2>0, <2>1 DEF Moved, StartLedger!Next, StartLedger!Accept, StartLedger!Begin,
                      StartLedger!Cancel, StartLedger!Become
  <2>2. CASE Moved(j, "executing", "succeeded") /\ starts[j] = 1
    BY <2>0, <2>2 DEF Moved, StartLedger!Next, StartLedger!Succeed, StartLedger!Become
  <2>3. CASE \E s \in {"accepted", "executing"} : Moved(j, s, "unknown")
    <3>1. /\ LedgerStatus[j] \in {"accepted", "executing"}
          /\ LedgerStatus' = [LedgerStatus EXCEPT ![j] = "unknown"]
      BY <2>3 DEF Moved
    <3>2. LedgerStatus' = [k \in Job |-> IF k \in {j} THEN "unknown" ELSE LedgerStatus[k]]
      BY <3>1, StatusFacts
    <3>3. StartLedger!GiveUp({j})
      BY <2>0, <3>1, <3>2 DEF StartLedger!GiveUp, StartLedger!Unfinished
    <3> QED
      BY <3>3 DEF StartLedger!Next
  <2> QED
    BY <1>2, <2>1, <2>2, <2>3 DEF StatusMove
<1>3. ASSUME NEW j \in Job, EffectMove(j)
      PROVE  StartLedger!Next \/ UNCHANGED StartLedger!vars
  BY <1>3 DEF EffectMove, StartLedger!Next, StartLedger!TakeEffect, StartLedger!vars
<1> QED
  BY <1>1, <1>2, <1>3 DEF LedgerMove

\* The installation of a job implements the command ledger twice over: across
\* crashes of Core and of the worker, lost answers, stale and repeated requests
\* and other people's containers, it creates at most one container and starts it
\* at most once, only when it was dispatched, and container_started means both.
THEOREM InstallationImplementsLedgers == Spec => LedgerSpecs
<1>1. Init => CreateLedger!Init /\ StartLedger!Init
  <2> SUFFICES ASSUME Init PROVE CreateLedger!Init /\ StartLedger!Init
    OBVIOUS
  <2>1. \A j \in Job : job[j].state = "none"
    BY DEF Init
  <2>2. LedgerStatus = [j \in Job |-> "none"]
    BY <2>1, StatusFacts
  <2> QED
    BY <2>2 DEF Init, CreateLedger!Init, StartLedger!Init
<1>2. IInv /\ [Next]_vars => /\ [CreateLedger!Next]_(CreateLedger!vars)
                             /\ [StartLedger!Next]_(StartLedger!vars)
  BY NextMoves, CreateLedgerStep, StartLedgerStep
<1> QED
  BY <1>1, <1>2, InstallationInvariant, PTL
     DEF Spec, LedgerSpecs, CreateLedger!Spec, StartLedger!Spec
=============================================================================
