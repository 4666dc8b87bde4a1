--------------------------- MODULE ComponentRestore ---------------------------
(***************************************************************************)
(* The restore of the data volumes of managed components as one batch      *)
(* (core_backups/component_restore_recovery.py), over the Docker adapter   *)
(* that pauses the services (component_docker_adapter.py) and the Linux    *)
(* engine that archives, stages and exchanges the trees                    *)
(* (component_linux_restore.py).                                           *)
(*                                                                         *)
(* The coordinator writes a journal after each phase; a later invocation   *)
(* finds the journal and finishes the batch: forward once "committed" is   *)
(* durable, back to the archives before.  The process can be killed        *)
(* between any two steps, a call or a journal write can fail, the          *)
(* invocation's deadline can pass, and somebody else can pause or unpause  *)
(* the containers.                                                         *)
(***************************************************************************)
EXTENDS Naturals, FiniteSets

CONSTANTS
    Volumes,    \* number of volumes in the plan
    Container,  \* the containers of the planned services
    Owner,      \* the container that each volume is mounted in
    MaxFaults,  \* bound: kills, failing calls and writes, passed deadlines
    MaxMeddling \* bound: pauses and unpauses by somebody else

Volume == 1..Volumes

ASSUME RestoreAssumption ==
    /\ Volumes \in Nat \ {0} /\ MaxFaults \in Nat /\ MaxMeddling \in Nat
    /\ Container # {} /\ IsFiniteSet(Container)
    /\ Owner \in [Volume -> Container]

VARIABLES
    journal,  \* the recovery journal; phase "none" when there is no file
    data,     \* the generation of each volume's tree
    touched,  \* whether the service wrote since the tree was archived or put there
    archive, staging, \* recovery artifacts beside each volume
    paused,   \* the containers that are paused
    session,  \* the coordinator's call in progress
    decision, \* componentState of the Core restore journal ("none": no journal)
    leftover, \* whether restore-journal.json is still in Core's stage directory
    late,     \* whether the invocation's deadline has passed
    foreign,  \* history: somebody else unpaused a container during a batch
    faults, meddling  \* how much of the two bounds is used up

durable == <<journal, data, touched, archive, staging, decision, leftover>>
outside == <<foreign, meddling>>
vars == <<durable, paused, session, late, outside, faults>>

-----------------------------------------------------------------------------
(* Phases *)

PreCommit == {"quiesced", "rollback_snapshots", "staging", "pre_commit"}
Phase == {"acquiring", "acquired", "committed", "committed_finalized",
          "rolled_back", "rollback_finalized", "released"} \cup PreCommit

\* The phases before which _restore_locked looks at the deadline, and whose
\* failure it cleans up after.
Early == PreCommit \cup {"acquired", "committed"}

NoJournal == [phase |-> "none", paused |-> FALSE, rollbacks |-> 0, stages |-> 0]

\* The journal of a batch of another snapshot, unfinished at the same path: the
\* path is outside Core's data directory, and an empty target says nothing of it.
OtherJournal == [NoJournal EXCEPT !.phase = "other"]
Ours == journal.phase \notin {"none", "other"}

\* A session works towards its "phase": it carries out the effect, volume by
\* volume ("at", "half" in the middle of one), and then persists the phase.
\* "known" says whether paused_containers is the planned set or still empty.
Session(mode, phase, j) ==
    [pc |-> "effect", mode |-> mode, phase |-> phase, at |-> 1, half |-> FALSE,
     rollbacks |-> j.rollbacks, stages |-> j.stages, known |-> j.paused,
     leased |-> FALSE, adopted |-> {}, attempted |-> {}]
NoSession == [Session("restore", "acquired", NoJournal) EXCEPT !.pc = "idle"]
Raised == [NoSession EXCEPT !.pc = "raised"]
Returned == [NoSession EXCEPT !.pc = "returned"]

TypeOK ==
    /\ journal \in [phase : {"none", "other"} \cup Phase, paused : BOOLEAN,
                    rollbacks : 0..Volumes, stages : 0..Volumes]
    /\ data \in [Volume -> {"old", "new", "mixed"}]
    /\ touched \in [Volume -> BOOLEAN]
    /\ archive \in [Volume -> BOOLEAN] /\ staging \in [Volume -> BOOLEAN]
    /\ paused \in SUBSET Container
    /\ session \in [pc : {"idle", "effect", "persist", "checkpoint", "clear",
                          "returned", "raised"},
                    mode : {"restore", "cleanup", "recover"}, phase : Phase,
                    at : 0..Volumes + 1, half : BOOLEAN,
                    rollbacks : 0..Volumes, stages : 0..Volumes,
                    known : BOOLEAN, leased : BOOLEAN,
                    adopted : SUBSET Container, attempted : SUBSET Container]
    /\ decision \in {"none", "plain", "pending", "released"}
    /\ leftover \in BOOLEAN /\ late \in BOOLEAN /\ foreign \in BOOLEAN
    /\ faults \in 0..MaxFaults /\ meddling \in 0..MaxMeddling

RestoreInit ==
    /\ journal \in {NoJournal, OtherJournal}
    /\ data = [v \in Volume |-> "old"] /\ touched = [v \in Volume |-> FALSE]
    /\ archive = [v \in Volume |-> FALSE] /\ staging = [v \in Volume |-> FALSE]
    /\ paused = {} /\ session = NoSession
    /\ decision = "none" /\ leftover = FALSE
    /\ late = FALSE /\ foreign = FALSE /\ faults = 0 /\ meddling = 0

\* What archive_component_directory and the digest of it tell of a volume.
Digest(v) == IF touched[v] THEN "other" ELSE data[v]

Fault == faults < MaxFaults /\ faults' = faults + 1

\* Something that is checked against the deadline fails.
Trouble == (late /\ UNCHANGED faults) \/ (~late /\ Fault)

At(phase) == session.pc = "effect" /\ session.phase = phase

\* An exception: _restore_locked cleans up unless the batch is committed or
\* its release was begun; _cleanup and recover give up where they are.
Failed(s) ==
    IF s.mode = "restore" /\ s.phase \in Early
    THEN [s EXCEPT !.mode = "cleanup", !.pc = "effect", !.phase = "rolled_back",
                   !.at = s.rollbacks, !.half = FALSE]
    ELSE Raised

Fail == session' = Failed(session)

Persisting(s) == [s EXCEPT !.pc = "persist"]
Effected == session' = Persisting(session)

-----------------------------------------------------------------------------
(* The journal *)

Entry(s) == [phase |-> s.phase, paused |-> s.known,
             rollbacks |-> s.rollbacks, stages |-> s.stages]

\* Mutant: one volume too many is archived.
NextPhaseBeyond(s) ==
    CASE s.phase = "acquired" -> "quiesced"
      [] s.phase = "quiesced" -> "rollback_snapshots"
      [] s.phase = "rollback_snapshots" /\ s.rollbacks <= Volumes -> s.phase
      [] OTHER -> "released"

\* The phase that follows a persisted one.
NextPhase(s) ==
    CASE s.phase = "acquired" -> "quiesced"
      [] s.phase = "quiesced" -> "rollback_snapshots"
      [] s.phase = "rollback_snapshots" ->
           IF s.rollbacks < Volumes THEN s.phase ELSE "staging"
      [] s.phase = "staging" -> IF s.stages < Volumes THEN s.phase ELSE "pre_commit"
      [] s.phase = "pre_commit" -> "committed"
      [] s.phase = "committed" -> "committed_finalized"
      [] s.phase = "rolled_back" -> "rollback_finalized"
      [] OTHER -> "released"

\* A cleanup that got as far as the release clears the journal without telling
\* Core; restore and recover tell it first.
Persisted(s) ==
    IF s.phase # "released"
    THEN [s EXCEPT !.pc = "effect", !.phase = NextPhase(s), !.at = 1]
    ELSE [s EXCEPT !.pc = IF s.mode = "cleanup" THEN "clear" ELSE "checkpoint"]

\* _persist.  A write that fails may have replaced the file already.
Persist ==
    /\ session.pc = "persist"
    /\ LET due == late /\ session.mode = "restore" /\ session.phase \in Early IN
       \/ ~due /\ journal' = Entry(session) /\ session' = Persisted(session)
          /\ UNCHANGED faults
       \/ due /\ Fail /\ UNCHANGED <<journal, faults>>
       \/ ~due /\ Fault /\ Fail /\ journal' \in {journal, Entry(session)}
    /\ UNCHANGED <<data, touched, archive, staging, decision, leftover, paused,
                   late, outside>>

\* _component_checkpoint and _replace_journal: a file beside the journal, then
\* the replacement.  The file is created exclusively.
Checkpoint ==
    /\ session.pc = "checkpoint"
    /\ \/ /\ decision = "released"
          /\ session' = [session EXCEPT !.pc = "clear"]
          /\ UNCHANGED <<decision, leftover, faults>>
       \/ /\ decision = "pending" /\ ~leftover /\ leftover' = TRUE
          /\ session' = [session EXCEPT !.half = TRUE]
          /\ UNCHANGED <<decision, faults>>
       \/ /\ decision = "pending" /\ leftover /\ session.half
          /\ decision' = "released" /\ leftover' = FALSE
          /\ session' = [session EXCEPT !.half = FALSE] /\ UNCHANGED faults
       \/ /\ decision = "pending" /\ leftover /\ ~session.half
          /\ Fail /\ UNCHANGED <<decision, leftover, faults>>
    /\ UNCHANGED <<journal, data, touched, archive, staging, paused, late, outside>>

Clear ==
    /\ session.pc = "clear"
    /\ journal' = NoJournal
    /\ session' = IF session.mode = "cleanup" THEN Raised ELSE Returned
    /\ UNCHANGED <<data, touched, archive, staging, decision, leftover, paused,
                   late, outside, faults>>

-----------------------------------------------------------------------------
(* Beginning *)

\* restore: a plan that no longer fits the installations is refused before
\* anything is written.  A journal that is there is refused too, and the handler
\* of the refusal removes it, whosever it is.
StartRestore ==
    /\ session.pc = "idle"
    /\ late' = FALSE
    /\ \/ Fault /\ session' = Raised /\ UNCHANGED journal
       \/ /\ journal.phase # "none" /\ journal' = NoJournal
          /\ session' = Raised /\ UNCHANGED faults
       \/ /\ journal.phase = "none" /\ journal' = [NoJournal EXCEPT !.phase = "acquiring"]
          /\ session' = Session("restore", "acquired", NoJournal)
          /\ UNCHANGED faults
    /\ UNCHANGED <<data, touched, archive, staging, decision, leftover, paused,
                   outside>>

\* acquire_durable: every container has to be running.  Without a session the
\* exception only removes the journal.
Acquire ==
    /\ At("acquired")
    /\ \/ /\ paused = {} /\ ~late
          /\ session' = [Persisting(session) EXCEPT !.leased = TRUE]
          /\ UNCHANGED <<journal, faults>>
       \/ /\ (paused # {} /\ UNCHANGED faults) \/ Trouble
          /\ journal' = NoJournal /\ session' = Raised
    /\ UNCHANGED <<data, touched, archive, staging, decision, leftover, paused,
                   late, outside>>

\* recover_durable: a journal that does not record the pauses yet does not
\* prove whose they are.
Proven == paused = {} \/ journal.paused

\* Mutant: whatever was not committed is only released.
ResumeReleases ==
    [Session("recover", "released", journal) EXCEPT !.adopted = paused,
                                                    !.attempted = paused]

Resume ==
    LET s == Session("recover", journal.phase, journal)
        to(phase) == [s EXCEPT !.phase = phase, !.adopted = paused,
                               !.attempted = paused]
    IN CASE journal.phase = "released" -> [s EXCEPT !.pc = "checkpoint"]
         [] journal.phase \in {"acquiring", "acquired"} -> to("released")
         [] journal.phase \in PreCommit -> [to("rolled_back") EXCEPT !.at = s.rollbacks]
         [] OTHER -> to(NextPhase(s))

\* recover, called where there is a journal: one of another snapshot is refused.
StartRecover ==
    /\ session.pc = "idle" /\ journal.phase # "none"
    /\ late' = FALSE
    /\ \/ Fault /\ session' = Raised
       \/ /\ journal.phase = "other" \/ (journal.phase # "released" /\ ~Proven)
          /\ session' = Raised /\ UNCHANGED faults
       \/ /\ Ours /\ (journal.phase = "released" \/ Proven)
          /\ session' = Resume /\ UNCHANGED faults
    /\ UNCHANGED <<durable, paused, outside>>

-----------------------------------------------------------------------------
(* Pausing and unpausing *)

\* quiesce, and _requiesce before a rollback or a finalization.
Quiescing ==
    /\ session.pc = "effect"
    /\ session.phase \in {"quiesced", "rolled_back", "committed_finalized"}
    /\ session.adopted # Container

\* The adapter pauses a container that runs; one that it tried before has to
\* be found paused.
Pausable(c) == (c \in session.attempted) <=> (c \in paused)

Pause(c) ==
    /\ Quiescing /\ c \notin session.adopted
    /\ \/ /\ Pausable(c) /\ ~late
          /\ paused' = paused \cup {c}
          /\ session' = [session EXCEPT !.adopted = @ \cup {c},
                                        !.attempted = @ \cup {c}]
          /\ UNCHANGED faults
       \/ /\ (~Pausable(c) /\ UNCHANGED faults) \/ Trouble
          /\ Fail /\ UNCHANGED paused
       \/ /\ Pausable(c) /\ c \notin paused /\ ~late /\ Fault \* sent, and not confirmed
          /\ paused' \in {paused, paused \cup {c}}
          /\ session' = [Failed(session) EXCEPT !.attempted =
                           IF Failed(session) = Raised THEN {} ELSE @ \cup {c}]
    /\ UNCHANGED <<durable, late, outside>>

Quiesced ==
    /\ At("quiesced") /\ ~Quiescing
    /\ session' = [Persisting(session) EXCEPT !.known = TRUE]
    /\ UNCHANGED <<durable, paused, late, outside, faults>>

\* release
Unpause(c) ==
    /\ At("released") /\ c \in session.adopted
    /\ \/ /\ ~late /\ paused' = paused \ {c}
          /\ session' = [session EXCEPT !.adopted = @ \ {c}] /\ UNCHANGED faults
       \/ Trouble /\ Fail /\ UNCHANGED paused
       \/ ~late /\ Fault /\ Fail /\ paused' = paused \ {c} \* not confirmed
    /\ UNCHANGED <<durable, late, outside>>

Released ==
    /\ At("released") /\ session.adopted = {}
    /\ Effected
    /\ UNCHANGED <<durable, paused, late, outside, faults>>

-----------------------------------------------------------------------------
(* The volumes: forward *)

\* capture_rollback: an archive that cannot be completed is removed.
Capture ==
    /\ At("rollback_snapshots")
    /\ LET v == session.rollbacks + 1 IN
       \/ /\ ~late
          /\ archive' = [archive EXCEPT ![v] = TRUE]
          /\ touched' = [touched EXCEPT ![v] = FALSE]
          /\ session' = [Persisting(session) EXCEPT !.rollbacks = v]
          /\ UNCHANGED faults
       \/ Trouble /\ Fail /\ UNCHANGED <<archive, touched>>
    /\ UNCHANGED <<journal, data, staging, decision, leftover, paused, late, outside>>

\* stage: a tree that cannot be completed is removed, if that can be done.
Stage ==
    /\ At("staging")
    /\ LET v == session.stages + 1 IN
       \/ /\ ~late /\ staging' = [staging EXCEPT ![v] = TRUE]
          /\ session' = [Persisting(session) EXCEPT !.stages = v]
          /\ UNCHANGED faults
       \/ Trouble /\ Fail /\ staging' \in {staging, [staging EXCEPT ![v] = TRUE]}
    /\ UNCHANGED <<journal, data, touched, archive, decision, leftover, paused,
                   late, outside>>

\* revalidate before the commit and, with every volume switched, after it.
Revalidate ==
    /\ At("pre_commit") \/ (At("committed") /\ session.at > Volumes)
    /\ LET current == IF session.phase = "pre_commit" THEN "old" ELSE "new"
           valid == \A v \in Volume : Digest(v) = current
       IN \/ valid /\ ~late /\ Effected /\ UNCHANGED faults
          \/ ((~valid /\ UNCHANGED faults) \/ Trouble) /\ Fail
    /\ UNCHANGED <<durable, paused, late, outside>>

\* commit of one volume: entries are exchanged one by one, and the tree is
\* compared with the staged one before and after.
Commit ==
    /\ At("committed") /\ session.at <= Volumes
    /\ LET v == session.at IN
       \/ /\ ~session.half /\ Digest(v) = "old" /\ ~late
          /\ data' = [data EXCEPT ![v] = "mixed"]
          /\ session' = [session EXCEPT !.half = TRUE] /\ UNCHANGED faults
       \/ /\ session.half /\ ~touched[v] /\ ~late
          /\ data' = [data EXCEPT ![v] = "new"]
          /\ session' = [session EXCEPT !.half = FALSE, !.at = v + 1]
          /\ UNCHANGED faults
       \/ /\ ((touched[v] /\ UNCHANGED faults) \/ Trouble)
          /\ Fail /\ UNCHANGED data
    /\ UNCHANGED <<journal, touched, archive, staging, decision, leftover, paused,
                   late, outside>>

-----------------------------------------------------------------------------
(* The volumes: back, and the removal of the artifacts *)

\* LinuxDirectoryRestoreEngine.recover of one volume: the archive and, if it
\* was staged, the stage directory; or neither, and a tree that is known.
LeaseOk(v) ==
    IF archive[v] THEN v <= session.stages => staging[v]
    ELSE /\ ~staging[v]
         /\ Digest(v) = "old" \/ (v <= session.stages /\ Digest(v) = "new")

Leases == IF session.mode = "recover" THEN 1..session.rollbacks ELSE Volume

\* _recover_leases
Reopen ==
    /\ session.pc = "effect" /\ session.mode = "recover" /\ ~session.leased
    /\ session.phase \in {"rolled_back", "rollback_finalized", "committed_finalized"}
    /\ ~Quiescing
    /\ LET fits == \A v \in Leases : LeaseOk(v) IN
       \/ fits /\ ~late /\ session' = [session EXCEPT !.leased = TRUE]
          /\ UNCHANGED faults
       \/ ((~fits /\ UNCHANGED faults) \/ Trouble) /\ Fail
    /\ UNCHANGED <<durable, paused, late, outside>>

Ready(phase) == At(phase) /\ ~Quiescing /\ session.leased

\* rollback, the last volume first: one that was not staged is only compared,
\* any other is cleared and extracted from its archive.
Rollback ==
    /\ Ready("rolled_back")
    /\ LET v == session.at IN
       \/ /\ v = 0 /\ Effected /\ UNCHANGED <<data, touched, faults>>
       \/ /\ v > 0 /\ v > session.stages /\ Digest(v) = "old" /\ archive[v] /\ ~late
          /\ session' = [session EXCEPT !.at = v - 1]
          /\ UNCHANGED <<data, touched, faults>>
       \/ /\ v > 0 /\ v <= session.stages /\ archive[v] /\ ~late
          /\ \/ /\ ~session.half /\ data' = [data EXCEPT ![v] = "mixed"]
                /\ session' = [session EXCEPT !.half = TRUE] /\ UNCHANGED touched
             \/ /\ session.half /\ data' = [data EXCEPT ![v] = "old"]
                /\ touched' = [touched EXCEPT ![v] = FALSE]
                /\ session' = [session EXCEPT !.half = FALSE, !.at = v - 1]
          /\ UNCHANGED faults
       \/ /\ v > 0 /\ Fail /\ UNCHANGED <<data, touched>>
          /\ \/ /\ ~archive[v] \/ (v > session.stages /\ Digest(v) # "old")
                /\ UNCHANGED faults
             \/ Trouble
    /\ UNCHANGED <<journal, archive, staging, decision, leftover, paused, late, outside>>

\* The stage and trash directories go first, then the archive.
Remove(v) ==
    \/ ~session.half /\ staging' = [staging EXCEPT ![v] = FALSE] /\ UNCHANGED archive
    \/ session.half /\ archive' = [archive EXCEPT ![v] = FALSE] /\ UNCHANGED staging

\* Mutant: the tree is not compared again.
UnfinishableUnseen(v) == ~archive[v] /\ staging[v]

\* finalize and finalize_rollback refuse a tree that is not the one expected,
\* a volume that was never archived, and artifacts without an archive.
Unfinishable(v) ==
    \/ Digest(v) # (IF session.phase = "committed_finalized" THEN "new" ELSE "old")
    \/ v > session.rollbacks
    \/ ~archive[v] /\ staging[v]

Finalize ==
    /\ Ready("committed_finalized") \/ Ready("rollback_finalized")
    /\ LET v == session.at
           last == Cardinality(Leases)
           next == [session EXCEPT !.half = FALSE, !.at = v + 1]
       IN \/ v > last /\ Effected /\ UNCHANGED <<archive, staging, faults>>
          \/ /\ v <= last /\ ~session.half /\ Unfinishable(v)
             /\ Fail /\ UNCHANGED <<archive, staging, faults>>
          \/ /\ v <= last /\ ~session.half /\ ~Unfinishable(v)
             /\ ~archive[v] /\ ~staging[v] /\ ~late
             /\ session' = next /\ UNCHANGED <<archive, staging, faults>>
          \/ /\ v <= last /\ ~late /\ Remove(v) /\ UNCHANGED faults
             /\ \/ /\ ~session.half /\ ~Unfinishable(v) /\ archive[v]
                   /\ session' = [session EXCEPT !.half = TRUE]
                \/ session.half /\ session' = next
          \/ v <= last /\ Trouble /\ Fail /\ UNCHANGED <<archive, staging>>
    /\ UNCHANGED <<journal, data, touched, decision, leftover, paused, late, outside>>

-----------------------------------------------------------------------------
(* What else happens *)

\* The deadline of the invocation passes.
Expire ==
    /\ session.pc \in {"effect", "persist"} /\ ~late /\ Fault
    /\ late' = TRUE
    /\ UNCHANGED <<durable, paused, session, outside>>

\* A service that runs writes to its volume.
Write(v) ==
    /\ Ours /\ Owner[v] \notin paused /\ ~touched[v]
    /\ touched' = [touched EXCEPT ![v] = TRUE]
    /\ UNCHANGED <<journal, data, archive, staging, decision, leftover, paused,
                   session, late, outside, faults>>

\* Somebody else pauses a container, or unpauses it; so does a restart of the
\* host.
Meddle(c) ==
    /\ meddling < MaxMeddling /\ meddling' = meddling + 1
    /\ \/ c \notin paused /\ paused' = paused \cup {c} /\ UNCHANGED foreign
       \/ /\ c \in paused /\ paused' = paused \ {c}
          /\ foreign' = (foreign \/ Ours)
    /\ UNCHANGED <<durable, session, late, faults>>

SessionStep ==
    \/ Persist \/ Checkpoint \/ Clear \/ Acquire \/ Quiesced \/ Released
    \/ Capture \/ Stage \/ Revalidate \/ Commit \/ Reopen \/ Rollback \/ Finalize
    \/ \E c \in Container : Pause(c) \/ Unpause(c)

RestoreEnvironment ==
    \/ Expire \/ (\E v \in Volume : Write(v)) \/ (\E c \in Container : Meddle(c))
=============================================================================
