-------------------------- MODULE CoreRestore_proofs --------------------------
(***************************************************************************)
(* Proofs about CoreRestore, for every number of volumes and containers    *)
(* and any number of failures, kills and pauses by somebody else.          *)
(*                                                                         *)
(* The inductive invariant says, for every phase a journal can be in and   *)
(* for every point of a call that restores, cleans up or recovers, which   *)
(* volumes are of which generation, and that they differ only behind       *)
(* paused services; Core's own journal and files follow the decision.      *)
(***************************************************************************)
EXTENDS CoreRestore, FiniteSetTheorems, TLAPS

DataOld == \A v \in Volume : data[v] = "old"
DataNew == \A v \in Volume : data[v] = "new"
Uniform == DataOld \/ DataNew

\* What a journal tells of the volumes.  A failed write of "committed" may have replaced
\* the file before the batch is rolled back, so that phase tells nothing.
JournalFacts ==
    /\ journal.phase \in {"acquiring", "acquired", "rolled_back", "rollback_finalized"} => DataOld
    /\ journal.phase = "committed_finalized" => DataNew
    /\ journal.phase \in {"none", "other", "released"} => Uniform
    /\ journal.phase \in PreCommit =>
         \A v \in Volume : v > journal.rollbacks => data[v] = "old"
    /\ journal.phase \in {"committed", "committed_finalized"} => journal.rollbacks = Volumes
    /\ journal.stages > 0 => journal.rollbacks = Volumes

\* The session that restores, phase by phase.
RestoreFacts ==
    session.mode = "restore" /\ session.pc \in {"effect", "persist"} =>
        /\ session.phase \notin {"acquiring", "rolled_back", "rollback_finalized"}
        /\ session.phase \in {"acquired", "quiesced"} =>
             /\ journal.phase \in {"acquiring", "acquired"}
             /\ session.rollbacks = 0 /\ session.stages = 0
        /\ session.phase = "quiesced" /\ session.pc = "persist" => session.adopted = Container
        /\ session.phase \in {"rollback_snapshots", "staging", "pre_commit", "committed"} =>
             session.adopted = Container /\ journal.phase \in PreCommit
        /\ session.phase = "rollback_snapshots" =>
             /\ session.stages = 0
             /\ session.pc = "effect" => session.rollbacks < Volumes
             /\ \A v \in Volume : v <= session.rollbacks => archive[v]
        /\ session.phase \in {"staging", "pre_commit", "committed"} =>
             /\ session.rollbacks = Volumes /\ journal.rollbacks = Volumes
             /\ \A v \in Volume : archive[v]
        /\ session.phase = "staging" /\ session.pc = "effect" => session.stages < Volumes
        /\ session.phase \in {"acquired"} \cup PreCommit => DataOld /\ ~session.half
        /\ session.phase = "committed" /\ session.pc = "effect" =>
             /\ \A v \in Volume : data[v] = IF v < session.at THEN "new"
                                             ELSE IF v = session.at /\ session.half
                                                  THEN "mixed" ELSE "old"
             /\ session.at > 0 /\ (session.half => session.at <= Volumes)
        /\ session.phase = "committed" /\ session.pc = "persist" => DataNew
        /\ session.phase \in {"committed_finalized", "released"} => DataNew
        /\ session.phase = "committed_finalized" =>
             journal.phase = "committed" /\ session.rollbacks = Volumes

\* A session that undoes the batch, or finishes it after the process was killed.
RecoverFacts ==
    session.mode # "restore" /\ session.pc \in {"effect", "persist"} =>
        /\ session.phase \in {"rolled_back", "rollback_finalized", "released"}
             \cup (IF session.mode = "recover" THEN {"committed_finalized"} ELSE {})
        /\ session.phase = "rolled_back" /\ session.pc = "effect" =>
             /\ session.at <= session.rollbacks
             /\ \A v \in Volume : v > session.at => data[v] = "old"
             /\ session.stages > 0 =>
                  journal.rollbacks = Volumes /\ journal.phase \in PreCommit \cup {"committed"}
        /\ session.phase = "rolled_back" /\ session.pc = "persist" => DataOld
        /\ session.phase = "rollback_finalized" => DataOld
        /\ session.phase = "committed_finalized" =>
             /\ journal.phase = "committed" /\ session.rollbacks = Volumes
             /\ session.pc = "effect" =>
                  \A v \in Volume : v < session.at \/ (v = session.at /\ session.half)
                                      => data[v] = "new"
             /\ session.pc = "persist" => DataNew
        /\ session.phase = "released" => Uniform

\* The end of a session, and what it holds while it lasts.
SessionFacts ==
    /\ session.stages > 0 => session.rollbacks = Volumes
    /\ session.pc \in {"idle", "raised", "returned"} => session.adopted = {}
    /\ session.pc \notin {"idle", "raised", "returned"} => journal.phase \notin {"none", "other"}
    /\ session.pc \in {"checkpoint", "clear"} =>
         journal.phase = "released" /\ session.phase = "released"
    /\ session.pc = "checkpoint" => session.mode # "cleanup"
    /\ session.pc = "clear" =>
         decision = IF session.mode = "cleanup" THEN "pending" ELSE "released"
    /\ session.mode = "cleanup" /\ session.pc \in {"effect", "persist", "clear"}
         /\ session.phase = "released" => DataOld
    /\ foreign \/ session.adopted \subseteq paused

\* The volumes are switched behind paused services.
Quiet == Uniform \/ foreign \/ paused = Container

\* Who works on what.
ControlFacts ==
    /\ session.pc # "idle" => run.pc = "component"
    /\ run.pc = "component" =>
         \/ decision = "pending"
         \/ decision = "released" /\ session.pc \in {"checkpoint", "clear", "returned"}
    /\ run.pc = "first" => decision = "pending"
    /\ run.pc \in {"stage", "promote"} =>
         decision = "none" /\ stageDir /\ \A f \in File : target[f] = "none"
    /\ run.pc = "publish" => decision \in {"plain", "released"}
    /\ run.pc = "initialize" => decision = "none" /\ \A f \in File : target[f] # "snapshot"

\* Core's files.
FileFacts ==
    /\ decision # "none" =>
         \A f \in File : /\ target[f] # "fresh"
                         /\ target[f] = "snapshot" => \A g \in Before(f) : target[g] = "snapshot"
    /\ ~stageDir => stage = {}
    /\ decision = "none" /\ (\A f \in File : target[f] # "snapshot") => DataOld
    /\ decision \in {"plain", "pending"} /\ journal.phase = "none" => DataOld
    /\ run.pc = "first" => DataOld

IInv == /\ RunTypeOK /\ JournalFacts /\ RestoreFacts /\ RecoverFacts /\ SessionFacts
        /\ Quiet /\ EvidenceKept /\ ControlFacts /\ FileFacts /\ WholeCore

-----------------------------------------------------------------------------
(* The session *)

SessionType ==
    [pc : {"idle", "effect", "persist", "checkpoint", "clear", "returned", "raised"},
     mode : {"restore", "cleanup", "recover"}, phase : Phase,
     at : 0..Volumes + 1, half : BOOLEAN,
     rollbacks : 0..Volumes, stages : 0..Volumes,
     known : BOOLEAN, leased : BOOLEAN,
     adopted : SUBSET Container, attempted : SUBSET Container]

JournalType == [phase : {"none", "other"} \cup Phase, paused : BOOLEAN,
                rollbacks : 0..Volumes, stages : 0..Volumes]

\* The state of a call that is over: nothing is held.
Over(s) ==
    /\ s \in SessionType /\ s.mode = "restore" /\ s.phase = "acquired"
    /\ s.rollbacks = 0 /\ s.stages = 0 /\ s.adopted = {} /\ s.half = FALSE

\* The three ways for a call to be over, which hold no container and no volume.
LEMMA OverSessions ==
    /\ Over(NoSession) /\ NoSession.pc = "idle"
    /\ Over(Raised) /\ Raised.pc = "raised"
    /\ Over(Returned) /\ Returned.pc = "returned"
<1>1. 0 \in 0..Volumes /\ 1 \in 0..Volumes + 1 /\ "acquired" \in Phase
  BY RestoreAssumption DEF Phase
<1>2. {} \in SUBSET Container
  OBVIOUS
<1>3. Over(NoSession) /\ NoSession.pc = "idle"
  BY <1>1, <1>2 DEF Over, NoSession, Session, NoJournal, SessionType
<1>4. Over(Raised) /\ Raised.pc = "raised"
  BY <1>1, <1>2 DEF Over, Raised, NoSession, Session, NoJournal, SessionType
<1>5. Over(Returned) /\ Returned.pc = "returned"
  BY <1>1, <1>2 DEF Over, Returned, NoSession, Session, NoJournal, SessionType
<1> QED
  BY <1>3, <1>4, <1>5

\* The cleanup that _restore_locked turns to when a phase fails.
Cleaning(s, f) ==
    /\ f \in SessionType /\ f.mode = "cleanup" /\ f.pc = "effect" /\ f.phase = "rolled_back"
    /\ f.at = s.rollbacks /\ f.half = FALSE
    /\ f.rollbacks = s.rollbacks /\ f.stages = s.stages /\ f.adopted = s.adopted

\* A failure ends the call, or begins the cleanup.
LEMMA FailedSession ==
    ASSUME NEW s \in SessionType
    PROVE  \/ Failed(s) = Raised /\ ~(s.mode = "restore" /\ s.phase \in Early)
           \/ /\ s.mode = "restore" /\ s.phase \in Early
              /\ Cleaning(s, Failed(s))
<1>1. CASE s.mode = "restore" /\ s.phase \in Early
  <2>1. Failed(s) = [s EXCEPT !.mode = "cleanup", !.pc = "effect", !.phase = "rolled_back",
                               !.at = s.rollbacks, !.half = FALSE]
    BY <1>1 DEF Failed
  <2>2. s.rollbacks \in 0..Volumes + 1 /\ "rolled_back" \in Phase
    BY RestoreAssumption DEF SessionType, Phase
  <2>3. Cleaning(s, Failed(s))
    BY <2>1, <2>2 DEF Cleaning, SessionType
  <2> QED
    BY <1>1, <2>3
<1>2. CASE ~(s.mode = "restore" /\ s.phase \in Early)
  BY <1>2 DEF Failed
<1> QED
  BY <1>1, <1>2

\* What the type invariant says of the session and of the journal.
LEMMA Types ==
    ASSUME RunTypeOK
    PROVE  /\ session \in SessionType /\ journal \in JournalType
           /\ data \in [Volume -> {"old", "new", "mixed"}]
           /\ archive \in [Volume -> BOOLEAN] /\ paused \in SUBSET Container
           /\ Volumes \in Nat \ {0}
BY RestoreAssumption DEF RunTypeOK, TypeOK, SessionType, JournalType

\* The types again, from those of what a step of the session may change.
LEMMA TypesAgain ==
    ASSUME RunTypeOK,
           session' \in SessionType, journal' \in JournalType,
           data' \in [Volume -> {"old", "new", "mixed"}],
           touched' \in [Volume -> BOOLEAN],
           archive' \in [Volume -> BOOLEAN], staging' \in [Volume -> BOOLEAN],
           paused' \in SUBSET Container,
           decision' \in {"none", "plain", "pending", "released"},
           leftover' \in BOOLEAN, late' \in BOOLEAN, foreign' \in BOOLEAN,
           faults' \in 0..MaxFaults, meddling' \in 0..MaxMeddling,
           UNCHANGED coreVars, run' \in {run, Cli("component")}
    PROVE  RunTypeOK'
<1>1. TypeOK'
  BY DEF TypeOK, SessionType, JournalType
<1> QED
  BY <1>1 DEF RunTypeOK, coreVars

\* The bound on failures is kept, whether one happens or not.
LEMMA FaultsBounded ==
    ASSUME RunTypeOK, Fault \/ Trouble \/ UNCHANGED faults
    PROVE  faults' \in 0..MaxFaults
BY RestoreAssumption DEF RunTypeOK, TypeOK, Fault, Trouble

\* A session that works does so for the command, before Core's decision.
LEMMA Working ==
    ASSUME IInv, session.pc \in {"effect", "persist"}
    PROVE  run.pc = "component" /\ decision = "pending" /\ journal.phase \notin {"none", "other"}
BY DEF IInv, ControlFacts, SessionFacts

\* A step that changes nothing durable but the session: the volumes, Core's
\* files and their journals are as they were.
LEMMA SessionMoves ==
    ASSUME IInv, RunTypeOK', run.pc = "component", decision = "pending",
           UNCHANGED <<journal, data, archive, decision, coreVars, run>>,
           RestoreFacts', RecoverFacts', SessionFacts', Quiet'
    PROVE  IInv'
<1>1. JournalFacts' /\ EvidenceKept'
  BY DEF IInv, JournalFacts, EvidenceKept, DataOld, DataNew, Uniform
<1>2. ControlFacts' /\ FileFacts' /\ WholeCore'
  BY DEF IInv, ControlFacts, FileFacts, WholeCore, DataOld, coreVars, Published
<1> QED
  BY <1>1, <1>2 DEF IInv

\* The cleanup finds what it needs in the journal: the archives of the volumes
\* that may have been switched.
LEMMA CleaningFacts ==
    ASSUME IInv, session.pc \in {"effect", "persist"},
           session.mode = "restore", session.phase \in Early,
           Cleaning(session, session'),
           data' = data,
           \/ journal' = journal
           \/ session.pc = "persist" /\ journal' = Entry(session)
    PROVE  RestoreFacts' /\ RecoverFacts'
<1> USE Types DEF IInv
<1>1. RestoreFacts'
  BY DEF Cleaning, RestoreFacts
<1>2. \A v \in Volume : v > session.rollbacks => data[v] = "old"
  <2>1. CASE session.phase = "committed"
    BY <2>1 DEF RestoreFacts, Volume
  <2>2. CASE session.phase # "committed"
    BY <2>2 DEF RestoreFacts, DataOld, Early
  <2> QED
    BY <2>1, <2>2
<1>3. ASSUME session.stages > 0
      PROVE  journal'.rollbacks = Volumes /\ journal'.phase \in PreCommit \cup {"committed"}
  <2>1. session.phase \in {"staging", "pre_commit", "committed"}
    BY <1>3 DEF RestoreFacts, Early, PreCommit
  <2>2. session.rollbacks = Volumes /\ journal.rollbacks = Volumes /\ journal.phase \in PreCommit
    BY <2>1 DEF RestoreFacts
  <2>3. Entry(session).rollbacks = session.rollbacks /\ Entry(session).phase = session.phase
    BY DEF Entry
  <2> QED
    BY <2>1, <2>2, <2>3 DEF PreCommit
<1>4. session'.at <= session'.rollbacks
  BY DEF Cleaning, SessionType
<1>5. \A v \in Volume : v > session'.at => data'[v] = "old"
  BY <1>2 DEF Cleaning
<1>6. RecoverFacts'
  BY <1>3, <1>4, <1>5 DEF RecoverFacts, Cleaning
<1> QED
  BY <1>1, <1>6

\* A call that is over claims nothing about the volumes.
LEMMA OverFacts ==
    ASSUME Over(session'), session'.pc \in {"idle", "raised", "returned"},
           Volumes \in Nat \ {0}
    PROVE  RestoreFacts' /\ RecoverFacts' /\ SessionFacts'
BY DEF Over, RestoreFacts, RecoverFacts, SessionFacts

\* The cleanup holds the containers that the restore held.
LEMMA CleaningSession ==
    ASSUME IInv, Cleaning(session, session'), journal'.phase \notin {"none", "other"},
           foreign' \/ session.adopted \subseteq paused'
    PROVE  SessionFacts'
BY Types DEF IInv, SessionFacts, Cleaning

\* A failure leaves what is durable as it was, and the session that follows has
\* what it needs.
LEMMA GivesUp ==
    ASSUME IInv, RunTypeOK', session.pc \in {"effect", "persist", "checkpoint"},
           decision = "pending",
           \/ Over(session') /\ session'.pc = "raised"
           \/ /\ session.mode = "restore" /\ session.phase \in Early
              /\ Cleaning(session, session'),
           UNCHANGED <<journal, data, archive, decision, coreVars, run>>,
           session'.pc = "raised" \/ foreign' \/ session.adopted \subseteq paused',
           Quiet'
    PROVE  IInv'
<1>0. run.pc = "component" /\ journal.phase \notin {"none", "other"}
  BY DEF IInv, ControlFacts, SessionFacts
<1>1. CASE Over(session') /\ session'.pc = "raised"
  <2>1. RestoreFacts' /\ RecoverFacts' /\ SessionFacts'
    BY <1>1, OverFacts, RestoreAssumption
  <2> QED
    BY <2>1, <1>0, SessionMoves
<1>2. CASE /\ session.mode = "restore" /\ session.phase \in Early
           /\ Cleaning(session, session')
  <2>1. session.pc # "checkpoint"
    BY <1>2 DEF IInv, SessionFacts, Early, PreCommit
  <2>2. RestoreFacts' /\ RecoverFacts'
    BY <1>2, <2>1, CleaningFacts
  <2>3. journal' = journal /\ (foreign' \/ session.adopted \subseteq paused')
    BY <1>2 DEF Cleaning
  <2>4. SessionFacts'
    BY <1>0, <1>2, <2>3, CleaningSession
  <2> QED
    BY <2>2, <2>4, <1>0, SessionMoves
<1> QED
  BY <1>1, <1>2

\* The same of an action that fails, whatever it did to the containers or left
\* in the stage directory.
LEMMA FailStep ==
    ASSUME IInv, session.pc \in {"effect", "persist", "checkpoint"},
           decision = "pending", Fail,
           Fault \/ Trouble \/ UNCHANGED faults,
           UNCHANGED <<journal, data, archive, touched, decision, leftover, late, outside>>,
           UNCHANGED <<coreVars, run>>,
           staging' \in [Volume -> BOOLEAN], paused' \in SUBSET Container,
           session' = Raised \/ foreign \/ session.adopted \subseteq paused', Quiet'
    PROVE  IInv'
<1>1. \/ Over(session') /\ session'.pc = "raised"
      \/ /\ session.mode = "restore" /\ session.phase \in Early
         /\ Cleaning(session, session')
  BY Types, FailedSession, OverSessions DEF IInv, Fail
<1>2. session' \in SessionType
  BY <1>1 DEF Over, Cleaning
<1>3. faults' \in 0..MaxFaults
  BY FaultsBounded DEF IInv
<1>4. RunTypeOK'
  <2>1. RunTypeOK
    BY DEF IInv
  <2>2. journal' \in JournalType /\ data' \in [Volume -> {"old", "new", "mixed"}]
    BY <2>1, Types
  <2>3. /\ touched' \in [Volume -> BOOLEAN] /\ archive' \in [Volume -> BOOLEAN]
        /\ decision' \in {"none", "plain", "pending", "released"}
        /\ leftover' \in BOOLEAN /\ late' \in BOOLEAN /\ foreign' \in BOOLEAN
        /\ meddling' \in 0..MaxMeddling
    BY <2>1 DEF RunTypeOK, TypeOK, outside
  <2> QED
    BY <1>2, <1>3, <2>1, <2>2, <2>3, TypesAgain
<1>5. session'.pc = "raised" \/ foreign' \/ session.adopted \subseteq paused'
  BY OverSessions DEF outside
<1>6. UNCHANGED <<journal, data, archive, decision, coreVars, run>>
  OBVIOUS
<1> QED
  BY <1>1, <1>4, <1>5, <1>6, GivesUp

\* A failure that leaves the containers as they are.
LEMMA FailStill ==
    ASSUME IInv, session.pc \in {"effect", "persist", "checkpoint"},
           decision = "pending", Fail,
           Fault \/ Trouble \/ UNCHANGED faults,
           UNCHANGED <<journal, data, archive, touched, decision, leftover, late, outside>>,
           UNCHANGED <<coreVars, run>>, UNCHANGED paused,
           staging' \in [Volume -> BOOLEAN]
    PROVE  IInv'
<1>1. Quiet' /\ paused' \in SUBSET Container
  BY Types DEF IInv, Quiet, Uniform, DataOld, DataNew, outside
<1>2. foreign \/ session.adopted \subseteq paused'
  BY DEF IInv, SessionFacts
<1> QED
  BY <1>1, <1>2, FailStep

\* What a step of the session that does not fail leaves alone, in most actions.
Steady == UNCHANGED <<journal, data, archive, touched, decision, leftover, late, outside,
                      coreVars, run>>

\* Such a step keeps the types.
LEMMA SteadyTypes ==
    ASSUME IInv, Steady, session' \in SessionType, staging' \in [Volume -> BOOLEAN],
           paused' \in SUBSET Container, Fault \/ Trouble \/ UNCHANGED faults
    PROVE  RunTypeOK'
<1>1. RunTypeOK
  BY DEF IInv
<1>2. faults' \in 0..MaxFaults
  BY <1>1, FaultsBounded
<1>3. journal' \in JournalType /\ data' \in [Volume -> {"old", "new", "mixed"}]
  BY <1>1, Types DEF Steady
<1>4. /\ touched' \in [Volume -> BOOLEAN] /\ archive' \in [Volume -> BOOLEAN]
      /\ decision' \in {"none", "plain", "pending", "released"}
      /\ leftover' \in BOOLEAN /\ late' \in BOOLEAN /\ foreign' \in BOOLEAN
      /\ meddling' \in 0..MaxMeddling
  BY <1>1 DEF RunTypeOK, TypeOK, outside, Steady
<1>5. UNCHANGED <<coreVars, run>>
  BY DEF Steady
<1> QED
  BY <1>1, <1>2, <1>3, <1>4, <1>5, TypesAgain

\* Such a step keeps the invariant, if the session's own facts are kept.
LEMMA SteadyStep ==
    ASSUME IInv, Steady, session.pc \in {"effect", "persist"},
           session' \in SessionType, staging' \in [Volume -> BOOLEAN],
           paused' \in SUBSET Container, Fault \/ Trouble \/ UNCHANGED faults,
           RestoreFacts', RecoverFacts', SessionFacts', Quiet'
    PROVE  IInv'
<1>1. RunTypeOK'
  BY SteadyTypes
<1>2. run.pc = "component" /\ decision = "pending"
  BY Working
<1>3. UNCHANGED <<journal, data, archive, decision, coreVars, run>>
  BY DEF Steady
<1> QED
  BY <1>1, <1>2, <1>3, SessionMoves

-----------------------------------------------------------------------------
(* The steps of the session: pausing, staging, comparing *)

\* A step that only changes how far the session is.
LEMMA StillQuiet ==
    ASSUME IInv, UNCHANGED <<data, foreign, paused>>
    PROVE  Quiet' /\ paused' \in SUBSET Container
BY Types DEF IInv, Quiet, Uniform, DataOld, DataNew

\* Taking the lease on the services, or giving up before anything was done.
LEMMA AcquireStep ==
    ASSUME IInv, Acquire, UNCHANGED <<coreVars, run>>
    PROVE  IInv'
<1>0. /\ session.pc = "effect" /\ session.phase = "acquired"
      /\ session.mode = "restore" /\ DataOld /\ session.half = FALSE
  BY Types DEF IInv, Acquire, At, RecoverFacts, RestoreFacts, SessionType
<1>1. run.pc = "component" /\ decision = "pending" /\ journal.phase \notin {"none", "other"}
  BY <1>0, Working
<1>2. CASE /\ paused = {} /\ ~late
           /\ session' = [Persisting(session) EXCEPT !.leased = TRUE]
           /\ UNCHANGED <<journal, faults>>
  <2>1. session' = [session EXCEPT !.pc = "persist", !.leased = TRUE]
    BY <1>2, Types DEF IInv, Persisting, SessionType
  <2>2. /\ session' \in SessionType /\ session'.pc = "persist" /\ session'.mode = "restore"
        /\ session'.phase = "acquired" /\ session'.half = FALSE
        /\ session'.rollbacks = session.rollbacks /\ session'.stages = session.stages
        /\ session'.adopted = session.adopted
    BY <1>0, <2>1, Types DEF IInv, SessionType
  <2>3. Steady /\ UNCHANGED staging
    BY <1>2 DEF Acquire, Steady
  <2>4. RestoreFacts' /\ RecoverFacts'
    BY <1>0, <2>2, <2>3 DEF IInv, RestoreFacts, RecoverFacts, Steady, DataOld
  <2>5. SessionFacts'
    BY <1>0, <1>1, <2>2, <2>3 DEF IInv, SessionFacts, Steady, outside, Acquire
  <2>6. Quiet' /\ paused' \in SUBSET Container
    BY <2>3, StillQuiet DEF Steady, outside, Acquire
  <2>7. staging' \in [Volume -> BOOLEAN]
    BY <2>3 DEF IInv, RunTypeOK, TypeOK
  <2> QED
    BY <1>0, <1>2, <2>2, <2>3, <2>4, <2>5, <2>6, <2>7, SteadyStep
<1>3. CASE /\ (paused # {} /\ UNCHANGED faults) \/ Trouble
           /\ journal' = NoJournal /\ session' = Raised
  <2>1. Over(session') /\ session'.pc = "raised"
    BY <1>3, OverSessions
  <2>2. /\ UNCHANGED <<data, touched, archive, staging, decision, leftover, paused, late, outside>>
        /\ UNCHANGED <<coreVars, run>>
    BY DEF Acquire
  <2>3. NoJournal \in JournalType /\ NoJournal.phase = "none" /\ NoJournal.stages = 0
    BY RestoreAssumption DEF NoJournal, JournalType
  <2>4. RunTypeOK'
    <3>1. RunTypeOK
      BY DEF IInv
    <3>2. faults' \in 0..MaxFaults
      BY <3>1, <1>3, FaultsBounded
    <3>3. journal' \in JournalType /\ data' \in [Volume -> {"old", "new", "mixed"}]
      BY <1>3, <2>2, <2>3, <3>1, Types
    <3>4. /\ touched' \in [Volume -> BOOLEAN] /\ archive' \in [Volume -> BOOLEAN]
          /\ staging' \in [Volume -> BOOLEAN] /\ paused' \in SUBSET Container
          /\ decision' \in {"none", "plain", "pending", "released"}
          /\ leftover' \in BOOLEAN /\ late' \in BOOLEAN /\ foreign' \in BOOLEAN
          /\ meddling' \in 0..MaxMeddling
      BY <2>2, <3>1 DEF RunTypeOK, TypeOK, outside
    <3>5. session' \in SessionType
      BY <2>1 DEF Over
    <3> QED
      BY <3>1, <3>2, <3>3, <3>4, <3>5, TypesAgain
  <2>5. RestoreFacts' /\ RecoverFacts' /\ SessionFacts'
    BY <2>1, OverFacts, RestoreAssumption
  <2>6. DataOld'
    BY <1>0, <2>2 DEF DataOld
  <2>7. JournalFacts' /\ EvidenceKept'
    BY <1>3, <2>3, <2>6 DEF JournalFacts, EvidenceKept, Uniform, DataOld, PreCommit
  <2>8. Quiet'
    BY <2>6 DEF Quiet, Uniform
  <2>9. ControlFacts' /\ FileFacts' /\ WholeCore'
    BY <1>1, <2>1, <2>2, <2>6 DEF IInv, ControlFacts, FileFacts, WholeCore, coreVars, Published
  <2> QED
    BY <2>4, <2>5, <2>7, <2>8, <2>9 DEF IInv
<1> QED
  BY <1>2, <1>3 DEF Acquire

\* Every container is paused.
LEMMA QuiescedStep ==
    ASSUME IInv, Quiesced, UNCHANGED <<coreVars, run>>
    PROVE  IInv'
<1>0. /\ session.pc = "effect" /\ session.phase = "quiesced" /\ session.adopted = Container
      /\ session.mode = "restore" /\ session.half = FALSE
  BY Types DEF IInv, Quiesced, Quiescing, At, RecoverFacts, RestoreFacts, SessionType, PreCommit
<1>1. session' = [session EXCEPT !.pc = "persist", !.known = TRUE]
  BY Types DEF IInv, Quiesced, Persisting, SessionType
<1>2. /\ session' \in SessionType /\ session'.pc = "persist" /\ session'.mode = "restore"
      /\ session'.phase = "quiesced" /\ session'.half = FALSE
      /\ session'.rollbacks = session.rollbacks /\ session'.stages = session.stages
      /\ session'.adopted = Container
  BY <1>0, <1>1, Types DEF IInv, SessionType
<1>3. Steady /\ UNCHANGED <<staging, paused, faults>>
  BY DEF Quiesced, Steady, durable
<1>4. RestoreFacts' /\ RecoverFacts'
  BY <1>0, <1>2, <1>3 DEF IInv, RestoreFacts, RecoverFacts, Steady, DataOld, PreCommit
<1>5. SessionFacts'
  BY <1>0, <1>2, <1>3 DEF IInv, SessionFacts, Steady, outside
<1>6. Quiet' /\ paused' \in SUBSET Container
  BY <1>3, StillQuiet DEF Steady, outside
<1>7. staging' \in [Volume -> BOOLEAN]
  BY <1>3 DEF IInv, RunTypeOK, TypeOK
<1> QED
  BY <1>0, <1>2, <1>3, <1>4, <1>5, <1>6, <1>7, SteadyStep

\* Pausing a container, which may fail before or after the request is sent.
LEMMA PauseStep ==
    ASSUME IInv, NEW c \in Container, Pause(c), UNCHANGED <<coreVars, run>>
    PROVE  IInv'
<1>0. /\ session.pc = "effect" /\ session \in SessionType /\ paused \in SUBSET Container
      /\ session.phase \in {"quiesced", "rolled_back", "committed_finalized"}
      /\ session.adopted # Container
  BY Types DEF IInv, Pause, Quiescing
<1>1. run.pc = "component" /\ decision = "pending" /\ journal.phase \notin {"none", "other"}
  BY <1>0, Working
<1>2. Steady /\ UNCHANGED staging
  BY DEF Pause, Steady, durable
<1>3. staging' \in [Volume -> BOOLEAN]
  BY <1>2 DEF IInv, RunTypeOK, TypeOK
<1>4. ASSUME paused' \in {paused, paused \cup {c}}
      PROVE  /\ Quiet' /\ paused' \in SUBSET Container
             /\ foreign \/ session.adopted \subseteq paused'
  <2>1. paused \subseteq paused' /\ paused' \in SUBSET Container
    BY <1>0, <1>4
  <2>2. foreign \/ session.adopted \subseteq paused'
    BY <2>1 DEF IInv, SessionFacts
  <2>3. Quiet'
    BY <2>1, <1>2 DEF IInv, Quiet, Uniform, DataOld, DataNew, Steady, outside
  <2> QED
    BY <2>1, <2>2, <2>3
<1>5. CASE /\ Pausable(c) /\ ~late
           /\ paused' = paused \cup {c}
           /\ session' = [session EXCEPT !.adopted = @ \cup {c}, !.attempted = @ \cup {c}]
           /\ UNCHANGED faults
  <2>1. /\ session' \in SessionType /\ session'.pc = "effect" /\ session'.mode = session.mode
        /\ session'.phase = session.phase /\ session'.half = session.half
        /\ session'.at = session.at
        /\ session'.rollbacks = session.rollbacks /\ session'.stages = session.stages
        /\ session'.adopted = session.adopted \cup {c}
    BY <1>0, <1>5 DEF SessionType
  <2>2. Quiet' /\ paused' \in SUBSET Container
    BY <1>4, <1>5
  <2>3. foreign' \/ session'.adopted \subseteq paused'
    BY <1>2, <1>5, <2>1 DEF IInv, SessionFacts, Steady, outside
  <2>4. SessionFacts'
    BY <1>0, <1>1, <1>2, <2>1, <2>3 DEF IInv, SessionFacts, Steady
  <2>5. RestoreFacts'
    BY <1>0, <1>2, <2>1 DEF IInv, RestoreFacts, Steady, DataOld, DataNew, PreCommit
  <2>6. RecoverFacts'
    BY <1>0, <1>2, <2>1 DEF IInv, RecoverFacts, Steady, DataOld, DataNew, Uniform
  <2> QED
    BY <1>0, <1>2, <1>3, <1>5, <2>1, <2>2, <2>4, <2>5, <2>6, SteadyStep
<1>6. CASE /\ (~Pausable(c) /\ UNCHANGED faults) \/ Trouble
           /\ Fail /\ UNCHANGED paused
  BY <1>0, <1>1, <1>2, <1>3, <1>6, FailStill DEF Steady
<1>7. CASE /\ Pausable(c) /\ c \notin paused /\ ~late /\ Fault
           /\ paused' \in {paused, paused \cup {c}}
           /\ session' = [Failed(session) EXCEPT !.attempted =
                            IF Failed(session) = Raised THEN {} ELSE @ \cup {c}]
  <2>1. \/ Over(session') /\ session'.pc = "raised"
        \/ /\ session.mode = "restore" /\ session.phase \in Early
           /\ Cleaning(session, session')
    <3>1. CASE Failed(session) = Raised
      <4>1. session' = [Raised EXCEPT !.attempted = {}]
        BY <1>7, <3>1
      <4>2. Over(session') /\ session'.pc = "raised"
        BY <4>1, OverSessions DEF Over, SessionType
      <4> QED
        BY <4>2
    <3>2. CASE Failed(session) # Raised
      <4>1. /\ session.mode = "restore" /\ session.phase \in Early
            /\ Cleaning(session, Failed(session))
        BY <1>0, <3>2, FailedSession
      <4>2. session' = [Failed(session) EXCEPT !.attempted = @ \cup {c}]
        BY <1>7, <3>2
      <4>3. Cleaning(session, session')
        BY <4>1, <4>2 DEF Cleaning, SessionType
      <4> QED
        BY <4>1, <4>3
    <3> QED
      BY <3>1, <3>2
  <2>2. session' \in SessionType
    BY <2>1 DEF Over, Cleaning
  <2>3. RunTypeOK'
    BY <1>2, <1>3, <1>4, <1>7, <2>2, SteadyTypes
  <2>4. foreign' = foreign /\ UNCHANGED <<journal, data, archive, decision, coreVars, run>>
    BY <1>2 DEF Steady, outside
  <2> QED
    BY <1>0, <1>1, <1>4, <1>7, <2>1, <2>3, <2>4, GivesUp
<1> QED
  BY <1>5, <1>6, <1>7 DEF Pause

\* Where containers are released, the volumes are of one generation.
LEMMA UniformRelease ==
    ASSUME IInv, session.pc \in {"effect", "persist"}, session.phase = "released"
    PROVE  Uniform
<1>1. CASE session.mode = "restore"
  BY <1>1 DEF IInv, RestoreFacts, Uniform
<1>2. CASE session.mode # "restore"
  BY <1>2 DEF IInv, RecoverFacts
<1> QED
  BY <1>1, <1>2

\* Unpausing a container, which may fail before or after the request is sent.
LEMMA UnpauseStep ==
    ASSUME IInv, NEW c \in Container, Unpause(c), UNCHANGED <<coreVars, run>>
    PROVE  IInv'
<1>0. /\ session.pc = "effect" /\ session \in SessionType /\ paused \in SUBSET Container
      /\ session.phase = "released"
  BY Types DEF IInv, Unpause, At
<1>1. run.pc = "component" /\ decision = "pending" /\ journal.phase \notin {"none", "other"}
  BY <1>0, Working
<1>2. Steady /\ UNCHANGED staging
  BY DEF Unpause, Steady, durable
<1>3. staging' \in [Volume -> BOOLEAN]
  BY <1>2 DEF IInv, RunTypeOK, TypeOK
<1>4. Quiet'
  BY <1>0, <1>2, UniformRelease DEF Quiet, Uniform, DataOld, DataNew, Steady
<1>5. CASE /\ ~late /\ paused' = paused \ {c}
           /\ session' = [session EXCEPT !.adopted = @ \ {c}] /\ UNCHANGED faults
  <2>1. /\ session' \in SessionType /\ session'.pc = "effect" /\ session'.mode = session.mode
        /\ session'.phase = session.phase
        /\ session'.rollbacks = session.rollbacks /\ session'.stages = session.stages
        /\ session'.adopted = session.adopted \ {c}
    BY <1>0, <1>5 DEF SessionType
  <2>2. paused' \in SUBSET Container
    BY <1>0, <1>5
  <2>3. foreign' \/ session'.adopted \subseteq paused'
    BY <1>2, <1>5, <2>1 DEF IInv, SessionFacts, Steady, outside
  <2>4. SessionFacts'
    BY <1>0, <1>1, <1>2, <2>1, <2>3 DEF IInv, SessionFacts, Steady, DataOld
  <2>5. RestoreFacts'
    BY <1>0, <1>2, <2>1 DEF IInv, RestoreFacts, Steady, DataNew, PreCommit
  <2>6. RecoverFacts'
    BY <1>0, <1>2, <2>1 DEF IInv, RecoverFacts, Steady, DataOld, DataNew, Uniform
  <2> QED
    BY <1>0, <1>2, <1>3, <1>4, <1>5, <2>1, <2>2, <2>4, <2>5, <2>6, SteadyStep
<1>6. CASE \/ Trouble /\ Fail /\ UNCHANGED paused
           \/ ~late /\ Fault /\ Fail /\ paused' = paused \ {c}
  <2>1. session' = Raised /\ paused' \in SUBSET Container
    BY <1>0, <1>6, FailedSession DEF Fail, Early, PreCommit
  <2> QED
    BY <1>0, <1>1, <1>2, <1>3, <1>4, <1>6, <2>1, FailStep DEF Steady
<1> QED
  BY <1>5, <1>6 DEF Unpause

\* An effect is complete and its phase is to be persisted; the facts of the
\* session's phase have to hold for that.
LEMMA EffectedStep ==
    ASSUME IInv, session.pc = "effect", Effected,
           Steady, UNCHANGED <<staging, paused, faults>>,
           RestoreFacts', RecoverFacts'
    PROVE  IInv'
<1>1. /\ session' \in SessionType /\ session'.pc = "persist" /\ session'.mode = session.mode
      /\ session'.phase = session.phase /\ session'.stages = session.stages
      /\ session'.rollbacks = session.rollbacks /\ session'.adopted = session.adopted
  BY Types DEF IInv, Effected, Persisting, SessionType
<1>2. SessionFacts'
  BY <1>1 DEF IInv, SessionFacts, Steady, outside, DataOld
<1>3. Quiet' /\ paused' \in SUBSET Container
  BY StillQuiet DEF Steady, outside
<1>4. staging' \in [Volume -> BOOLEAN]
  BY DEF IInv, RunTypeOK, TypeOK
<1> QED
  BY <1>1, <1>2, <1>3, <1>4, SteadyStep

\* What persisting leaves of a session.
LEMMA EffectedSession ==
    ASSUME IInv, Effected
    PROVE  /\ session' \in SessionType /\ session'.pc = "persist" /\ session'.mode = session.mode
           /\ session'.phase = session.phase /\ session'.stages = session.stages
           /\ session'.rollbacks = session.rollbacks /\ session'.adopted = session.adopted
           /\ session'.half = session.half
BY Types DEF IInv, Effected, Persisting, SessionType

\* Every container is released.
LEMMA ReleasedStep ==
    ASSUME IInv, Released, UNCHANGED <<coreVars, run>>
    PROVE  IInv'
<1>0. session.pc = "effect" /\ session.phase = "released" /\ Effected
  BY DEF Released, At
<1>1. Steady /\ UNCHANGED <<staging, paused, faults>>
  BY DEF Released, Steady, durable
<1>2. RestoreFacts'
  BY <1>0, <1>1, EffectedSession DEF IInv, RestoreFacts, Steady, DataNew, PreCommit
<1>3. RecoverFacts'
  BY <1>0, <1>1, EffectedSession DEF IInv, RecoverFacts, Steady, DataOld, DataNew, Uniform
<1> QED
  BY <1>0, <1>1, <1>2, <1>3, EffectedStep

\* Staging the tree of a volume.
LEMMA StageStep ==
    ASSUME IInv, Stage, UNCHANGED <<coreVars, run>>
    PROVE  IInv'
<1>0. /\ session.pc = "effect" /\ session \in SessionType /\ session.phase = "staging"
      /\ session.mode = "restore" /\ session.stages < Volumes /\ session.rollbacks = Volumes
  BY Types DEF IInv, Stage, At, RestoreFacts, RecoverFacts, SessionType
<1>1. run.pc = "component" /\ decision = "pending" /\ journal.phase \notin {"none", "other"}
  BY <1>0, Working
<1>2. Steady /\ UNCHANGED paused
  BY DEF Stage, Steady
<1>3. staging \in [Volume -> BOOLEAN]
  BY DEF IInv, RunTypeOK, TypeOK
<1>4. CASE /\ ~late /\ staging' = [staging EXCEPT ![session.stages + 1] = TRUE]
           /\ session' = [Persisting(session) EXCEPT !.stages = session.stages + 1]
           /\ UNCHANGED faults
  <2>1. session.stages + 1 \in 0..Volumes
    BY <1>0, RestoreAssumption DEF SessionType
  <2>2. session' = [session EXCEPT !.pc = "persist", !.stages = session.stages + 1]
    BY <1>0, <1>4 DEF Persisting, SessionType
  <2>3. /\ session' \in SessionType /\ session'.pc = "persist" /\ session'.mode = "restore"
        /\ session'.phase = "staging" /\ session'.stages = session.stages + 1
        /\ session'.rollbacks = session.rollbacks /\ session'.adopted = session.adopted
        /\ session'.half = session.half
    BY <1>0, <2>1, <2>2 DEF SessionType
  <2>4. RestoreFacts' /\ RecoverFacts'
    BY <1>0, <1>2, <2>3 DEF IInv, RestoreFacts, RecoverFacts, Steady, DataOld, PreCommit
  <2>5. SessionFacts'
    BY <1>0, <1>1, <1>2, <2>3 DEF IInv, SessionFacts, Steady, outside
  <2>6. Quiet' /\ paused' \in SUBSET Container
    BY <1>2, StillQuiet DEF Steady, outside
  <2>7. staging' \in [Volume -> BOOLEAN]
    BY <1>3, <1>4
  <2> QED
    BY <1>0, <1>2, <1>4, <2>3, <2>4, <2>5, <2>6, <2>7, SteadyStep
<1>5. CASE /\ Trouble /\ Fail
           /\ staging' \in {staging, [staging EXCEPT ![session.stages + 1] = TRUE]}
  <2>1. staging' \in [Volume -> BOOLEAN]
    BY <1>3, <1>5 DEF PreCommit
  <2> QED
    BY <1>0, <1>1, <1>2, <1>5, <2>1, FailStill DEF Steady
<1> QED
  BY <1>4, <1>5 DEF Stage

\* The comparison of every tree before the first exchange and after the last.
LEMMA RevalidateStep ==
    ASSUME IInv, Revalidate, UNCHANGED <<coreVars, run>>
    PROVE  IInv'
<1>0. /\ session.pc = "effect" /\ session.phase \in {"pre_commit", "committed"}
      /\ session.mode = "restore" /\ session \in SessionType
      /\ session.phase = "committed" => session.at > Volumes
  BY Types DEF IInv, Revalidate, At, RecoverFacts, SessionType
<1>1. run.pc = "component" /\ decision = "pending"
  BY <1>0, Working
<1>2. Steady /\ UNCHANGED <<staging, paused>>
  BY DEF Revalidate, Steady, durable
<1>3. CASE Effected /\ UNCHANGED faults
  <2>1. ASSUME session.phase = "committed" PROVE DataNew'
    <3>1. \A v \in Volume : v < session.at
      BY <1>0, <2>1, RestoreAssumption DEF Volume, SessionType
    <3>2. \A v \in Volume : data[v] = "new"
      BY <1>0, <2>1, <3>1 DEF IInv, RestoreFacts
    <3> QED
      BY <1>2, <3>2 DEF DataNew, Steady
  <2>2. RestoreFacts'
    BY <1>0, <1>2, <1>3, <2>1, EffectedSession DEF IInv, RestoreFacts, Steady, DataOld, PreCommit
  <2>3. RecoverFacts'
    BY <1>0, <1>3, EffectedSession DEF RecoverFacts
  <2> QED
    BY <1>0, <1>2, <1>3, <2>2, <2>3, EffectedStep
<1>4. CASE Fail /\ (UNCHANGED faults \/ Trouble)
  <2>1. staging' \in [Volume -> BOOLEAN]
    BY <1>2 DEF IInv, RunTypeOK, TypeOK
  <2> QED
    BY <1>0, <1>1, <1>2, <1>4, <2>1, FailStill DEF Steady
<1> QED
  BY <1>3, <1>4 DEF Revalidate

\* Opening the artifacts of the volumes again after the process was killed.
LEMMA ReopenStep ==
    ASSUME IInv, Reopen, UNCHANGED <<coreVars, run>>
    PROVE  IInv'
<1>0. /\ session.pc = "effect" /\ session.mode = "recover" /\ session \in SessionType
      /\ session.phase \in {"rolled_back", "rollback_finalized", "committed_finalized"}
  BY Types DEF IInv, Reopen
<1>1. run.pc = "component" /\ decision = "pending" /\ journal.phase \notin {"none", "other"}
  BY <1>0, Working
<1>2. Steady /\ UNCHANGED <<staging, paused>>
  BY DEF Reopen, Steady, durable
<1>3. staging' \in [Volume -> BOOLEAN]
  BY <1>2 DEF IInv, RunTypeOK, TypeOK
<1>4. CASE session' = [session EXCEPT !.leased = TRUE] /\ UNCHANGED faults
  <2>1. /\ session' \in SessionType /\ session'.pc = "effect" /\ session'.mode = "recover"
        /\ session'.phase = session.phase /\ session'.stages = session.stages
        /\ session'.rollbacks = session.rollbacks /\ session'.adopted = session.adopted
        /\ session'.half = session.half /\ session'.at = session.at
    BY <1>0, <1>4 DEF SessionType
  <2>2. RestoreFacts'
    BY <2>1 DEF RestoreFacts
  <2>3. RecoverFacts'
    BY <1>0, <1>2, <2>1 DEF IInv, RecoverFacts, Steady, DataOld
  <2>4. SessionFacts'
    BY <1>0, <1>1, <1>2, <2>1 DEF IInv, SessionFacts, Steady, outside
  <2>5. Quiet' /\ paused' \in SUBSET Container
    BY <1>2, StillQuiet DEF Steady, outside
  <2> QED
    BY <1>0, <1>2, <1>3, <1>4, <2>1, <2>2, <2>3, <2>4, <2>5, SteadyStep
<1>5. CASE Fail /\ (UNCHANGED faults \/ Trouble)
  BY <1>0, <1>1, <1>2, <1>3, <1>5, FailStill DEF Steady
<1> QED
  BY <1>4, <1>5 DEF Reopen

-----------------------------------------------------------------------------
(* The steps of the session: switching volumes, and removing artifacts *)

\* A step on a volume, which changes its tree or the artifacts beside it.
LEMMA VolumeStep ==
    ASSUME IInv, session.pc = "effect",
           session' \in SessionType, data' \in [Volume -> {"old", "new", "mixed"}],
           archive' \in [Volume -> BOOLEAN], staging' \in [Volume -> BOOLEAN],
           touched' \in [Volume -> BOOLEAN],
           UNCHANGED <<journal, decision, leftover, paused, late, outside, faults>>,
           UNCHANGED <<coreVars, run>>,
           session'.adopted = session.adopted, session'.stages > 0 => session'.rollbacks = Volumes,
           session'.pc \in {"effect", "persist"}, session'.phase # "released",
           JournalFacts', EvidenceKept', Quiet', RestoreFacts', RecoverFacts'
    PROVE  IInv'
<1>1. run.pc = "component" /\ decision = "pending" /\ journal.phase \notin {"none", "other"}
  BY Working
<1>2. RunTypeOK'
  <2>1. RunTypeOK
    BY DEF IInv
  <2>2. journal' \in JournalType
    BY <2>1, Types
  <2>3. /\ decision' \in {"none", "plain", "pending", "released"} /\ paused' \in SUBSET Container
        /\ leftover' \in BOOLEAN /\ late' \in BOOLEAN /\ foreign' \in BOOLEAN
        /\ meddling' \in 0..MaxMeddling /\ faults' \in 0..MaxFaults
    BY <2>1 DEF RunTypeOK, TypeOK, outside
  <2> QED
    BY <2>1, <2>2, <2>3, TypesAgain
<1>3. SessionFacts'
  BY <1>1 DEF IInv, SessionFacts, outside
<1>4. ControlFacts' /\ FileFacts' /\ WholeCore'
  BY <1>1 DEF IInv, ControlFacts, FileFacts, WholeCore, coreVars, Published
<1> QED
  BY <1>2, <1>3, <1>4 DEF IInv

\* Where every planned container is held, they are all paused, unless somebody
\* else unpaused one.
LEMMA AllHeld ==
    ASSUME IInv, session.adopted = Container
    PROVE  foreign \/ paused = Container
<1>1. paused \subseteq Container
  BY Types DEF IInv
<1> QED
  BY <1>1 DEF IInv, SessionFacts

\* Archiving a volume.
LEMMA CaptureStep ==
    ASSUME IInv, Capture, UNCHANGED <<coreVars, run>>
    PROVE  IInv'
<1>0. /\ session.pc = "effect" /\ session \in SessionType /\ session.phase = "rollback_snapshots"
      /\ session.mode = "restore" /\ session.rollbacks < Volumes /\ session.stages = 0
  BY Types DEF IInv, Capture, At, RestoreFacts, RecoverFacts, SessionType
<1>1. run.pc = "component" /\ decision = "pending" /\ journal.phase \notin {"none", "other"}
  BY <1>0, Working
<1>2. /\ UNCHANGED <<journal, data, staging, decision, leftover, paused, late, outside>>
      /\ archive \in [Volume -> BOOLEAN] /\ staging \in [Volume -> BOOLEAN]
      /\ touched \in [Volume -> BOOLEAN] /\ data \in [Volume -> {"old", "new", "mixed"}]
  BY DEF Capture, IInv, RunTypeOK, TypeOK
<1>3. ASSUME NEW w, w = session.rollbacks + 1, ~late,
             archive' = [archive EXCEPT ![w] = TRUE],
             touched' = [touched EXCEPT ![w] = FALSE],
             session' = [Persisting(session) EXCEPT !.rollbacks = w],
             UNCHANGED faults
      PROVE  IInv'
  <2>1. w \in 0..Volumes /\ w \in Volume
    BY <1>0, <1>3, RestoreAssumption DEF SessionType, Volume
  <2>2. session' = [session EXCEPT !.pc = "persist", !.rollbacks = w]
    BY <1>0, <1>3 DEF Persisting, SessionType
  <2>3. /\ session' \in SessionType /\ session'.pc = "persist" /\ session'.mode = "restore"
        /\ session'.phase = "rollback_snapshots" /\ session'.rollbacks = w
        /\ session'.stages = session.stages /\ session'.adopted = session.adopted
        /\ session'.half = session.half
    BY <1>0, <2>1, <2>2 DEF SessionType
  <2>4. /\ archive' \in [Volume -> BOOLEAN] /\ touched' \in [Volume -> BOOLEAN]
        /\ \A v \in Volume : archive'[v] <=> archive[v] \/ v = w
    BY <1>2, <1>3, <2>1
  <2>5. \A v \in Volume : v <= w => archive'[v]
    <3>1. \A v \in Volume : v <= w => v <= session.rollbacks \/ v = w
      BY <1>0, <1>3 DEF SessionType, Volume
    <3> QED
      BY <1>0, <2>4, <3>1 DEF IInv, RestoreFacts
  <2>6. RestoreFacts' /\ RecoverFacts'
    BY <1>0, <1>2, <2>3, <2>5 DEF IInv, RestoreFacts, RecoverFacts, DataOld, PreCommit
  <2>7. JournalFacts' /\ EvidenceKept'
    BY <1>2, <2>4 DEF IInv, JournalFacts, EvidenceKept, DataOld, DataNew, Uniform
  <2>8. Quiet'
    BY <1>2, StillQuiet DEF outside
  <2>9. /\ ~(session'.stages > 0) /\ staging' \in [Volume -> BOOLEAN]
        /\ data' \in [Volume -> {"old", "new", "mixed"}]
    BY <1>0, <1>2, <2>3
  <2> QED
    BY <1>0, <1>2, <1>3, <2>3, <2>4, <2>6, <2>7, <2>8, <2>9, VolumeStep
<1>4. CASE Trouble /\ Fail /\ UNCHANGED <<archive, touched>>
  <2>1. staging' \in [Volume -> BOOLEAN]
    BY <1>2
  <2> QED
    BY <1>0, <1>1, <1>2, <1>4, <2>1, FailStill
<1> QED
  BY <1>3, <1>4 DEF Capture

\* Exchanging the tree of a volume.
LEMMA CommitStep ==
    ASSUME IInv, Commit, UNCHANGED <<coreVars, run>>
    PROVE  IInv'
<1>0. /\ session.pc = "effect" /\ session \in SessionType /\ session.phase = "committed"
      /\ session.mode = "restore" /\ session.at \in Volume /\ session.rollbacks = Volumes
      /\ session.adopted = Container
  <2>1. /\ session.pc = "effect" /\ session \in SessionType /\ session.phase = "committed"
        /\ session.mode = "restore"
    BY Types DEF IInv, Commit, At, RecoverFacts, SessionType
  <2>2. session.at > 0 /\ session.at <= Volumes
    BY <2>1 DEF IInv, RestoreFacts, Commit
  <2> QED
    BY <2>1, <2>2, RestoreAssumption DEF IInv, RestoreFacts, Volume, SessionType
<1>1. /\ run.pc = "component" /\ decision = "pending"
      /\ journal.phase \in PreCommit /\ journal.rollbacks = Volumes
  BY <1>0, Working DEF IInv, RestoreFacts
<1>2. /\ UNCHANGED <<journal, touched, archive, staging, decision, leftover, paused, late, outside>>
      /\ archive \in [Volume -> BOOLEAN] /\ staging \in [Volume -> BOOLEAN]
      /\ touched \in [Volume -> BOOLEAN] /\ data \in [Volume -> {"old", "new", "mixed"}]
  BY DEF Commit, IInv, RunTypeOK, TypeOK
<1>3. ASSUME NEW g \in {"mixed", "new"}, NEW h \in BOOLEAN, NEW n,
             data' = [data EXCEPT ![session.at] = g],
             session' \in SessionType, session'.pc = "effect", session'.mode = "restore",
             session'.phase = "committed", session'.rollbacks = session.rollbacks,
             session'.stages = session.stages, session'.adopted = session.adopted,
             session'.half = h, session'.at = n,
             \/ g = "mixed" /\ h = TRUE /\ n = session.at
             \/ g = "new" /\ h = FALSE /\ n = session.at + 1,
             UNCHANGED faults
      PROVE  IInv'
  <2>1. /\ data' \in [Volume -> {"old", "new", "mixed"}]
        /\ \A v \in Volume : data'[v] = IF v = session.at THEN g ELSE data[v]
    BY <1>0, <1>2, <1>3
  <2>2. \A v \in Volume : data'[v] = IF v < n THEN "new"
                                     ELSE IF v = n /\ h THEN "mixed" ELSE "old"
    <3>1. \A v \in Volume : data[v] = IF v < session.at THEN "new"
                                      ELSE IF v = session.at /\ session.half
                                           THEN "mixed" ELSE "old"
      BY <1>0 DEF IInv, RestoreFacts
    <3>2. session.at \in Nat /\ \A v \in Volume : v \in Nat
      BY <1>0 DEF Volume
    <3> QED
      BY <1>3, <2>1, <3>1, <3>2
  <2>3. n > 0 /\ (h => n <= Volumes)
    BY <1>0, <1>3, RestoreAssumption DEF Volume
  <2>4. RestoreFacts' /\ RecoverFacts'
    BY <1>0, <1>2, <1>3, <2>2, <2>3 DEF IInv, RestoreFacts, RecoverFacts, PreCommit
  <2>5. \A v \in Volume : v <= Volumes /\ archive[v]
    BY <1>0, RestoreAssumption DEF IInv, RestoreFacts, Volume
  <2>6. EvidenceKept'
    BY <1>1, <1>2, <2>5 DEF EvidenceKept
  <2>7. \A v \in Volume : ~(v > journal.rollbacks)
    BY <1>1, RestoreAssumption DEF Volume
  <2>8. JournalFacts'
    BY <1>1, <1>2, <2>7 DEF JournalFacts, PreCommit
  <2>9. Quiet'
    BY <1>0, <1>2, AllHeld DEF Quiet, outside
  <2>10. /\ session'.stages > 0 => session'.rollbacks = Volumes
         /\ staging' \in [Volume -> BOOLEAN] /\ archive' \in [Volume -> BOOLEAN]
         /\ touched' \in [Volume -> BOOLEAN]
    BY <1>0, <1>2, <1>3
  <2> QED
    BY <1>0, <1>2, <1>3, <2>1, <2>4, <2>6, <2>8, <2>9, <2>10, VolumeStep
<1>4. CASE /\ ~session.half /\ Digest(session.at) = "old" /\ ~late
           /\ data' = [data EXCEPT ![session.at] = "mixed"]
           /\ session' = [session EXCEPT !.half = TRUE] /\ UNCHANGED faults
  <2>1. /\ session' \in SessionType /\ session'.pc = "effect" /\ session'.mode = "restore"
        /\ session'.phase = "committed" /\ session'.rollbacks = session.rollbacks
        /\ session'.stages = session.stages /\ session'.adopted = session.adopted
        /\ session'.half = TRUE /\ session'.at = session.at
    BY <1>0, <1>4 DEF SessionType
  <2> QED
    BY <1>3, <1>4, <2>1
<1>5. CASE /\ session.half /\ ~touched[session.at] /\ ~late
           /\ data' = [data EXCEPT ![session.at] = "new"]
           /\ session' = [session EXCEPT !.half = FALSE, !.at = session.at + 1]
           /\ UNCHANGED faults
  <2>1. session.at + 1 \in 0..Volumes + 1
    BY <1>0, RestoreAssumption DEF Volume
  <2>2. /\ session' \in SessionType /\ session'.pc = "effect" /\ session'.mode = "restore"
        /\ session'.phase = "committed" /\ session'.rollbacks = session.rollbacks
        /\ session'.stages = session.stages /\ session'.adopted = session.adopted
        /\ session'.half = FALSE /\ session'.at = session.at + 1
    BY <1>0, <1>5, <2>1 DEF SessionType
  <2> QED
    BY <1>3, <1>5, <2>2
<1>6. CASE /\ (touched[session.at] /\ UNCHANGED faults) \/ Trouble
           /\ Fail /\ UNCHANGED data
  <2>1. staging' \in [Volume -> BOOLEAN]
    BY <1>2
  <2> QED
    BY <1>0, <1>1, <1>2, <1>6, <2>1, FailStill
<1> QED
  BY <1>4, <1>5, <1>6 DEF Commit

\* Putting a volume back: it is cleared and extracted from its archive, and the
\* next one follows when its tree is the old one.
LEMMA RollbackStep ==
    ASSUME IInv, Rollback, UNCHANGED <<coreVars, run>>
    PROVE  IInv'
<1>0. /\ session.pc = "effect" /\ session \in SessionType /\ session.phase = "rolled_back"
      /\ session.mode # "restore" /\ session.adopted = Container
      /\ session.at <= session.rollbacks
      /\ \A v \in Volume : v > session.at => data[v] = "old"
  <2>1. /\ session.pc = "effect" /\ session \in SessionType /\ session.phase = "rolled_back"
        /\ session.adopted = Container
    BY Types DEF IInv, Rollback, Ready, Quiescing, At
  <2>2. session.mode # "restore"
    BY <2>1 DEF IInv, RestoreFacts
  <2> QED
    BY <2>1, <2>2 DEF IInv, RecoverFacts
<1>1. run.pc = "component" /\ decision = "pending" /\ journal.phase \notin {"none", "other"}
  BY <1>0, Working
<1>2. /\ UNCHANGED <<journal, archive, staging, decision, leftover, paused, late, outside>>
      /\ archive \in [Volume -> BOOLEAN] /\ staging \in [Volume -> BOOLEAN]
      /\ touched \in [Volume -> BOOLEAN] /\ data \in [Volume -> {"old", "new", "mixed"}]
  BY DEF Rollback, IInv, RunTypeOK, TypeOK
<1>3. Quiet'
  BY <1>0, <1>2, AllHeld DEF Quiet, outside
<1>4. session.at \in Nat /\ session.stages \in Nat /\ session.at <= Volumes
      /\ (session.at > 0 => session.at \in Volume)
  BY <1>0, RestoreAssumption DEF SessionType, Volume
<1>5. CASE session.at = 0 /\ Effected /\ UNCHANGED <<data, touched, faults>>
  <2>1. DataOld
    BY <1>0, <1>5 DEF DataOld, Volume
  <2>2. RestoreFacts' /\ RecoverFacts'
    BY <1>0, <1>5, <2>1, EffectedSession DEF RestoreFacts, RecoverFacts, DataOld
  <2>3. Steady
    BY <1>2, <1>5 DEF Steady
  <2> QED
    BY <1>0, <1>2, <1>5, <2>2, <2>3, EffectedStep
<1>6. ASSUME NEW d \in {"old", "mixed"}, NEW h \in BOOLEAN, NEW n \in Nat,
             session.at > 0, archive[session.at],
             \/ data' = data /\ data[session.at] = "old" /\ d = "old"
             \/ session.at <= session.stages /\ data' = [data EXCEPT ![session.at] = d],
             touched' \in [Volume -> BOOLEAN],
             session' \in SessionType, session'.pc = "effect", session'.mode = session.mode,
             session'.phase = "rolled_back", session'.rollbacks = session.rollbacks,
             session'.stages = session.stages, session'.adopted = session.adopted,
             session'.half = h, session'.at = n,
             \/ d = "mixed" /\ n = session.at
             \/ d = "old" /\ n = session.at - 1,
             UNCHANGED faults
      PROVE  IInv'
  <2>1. /\ data' \in [Volume -> {"old", "new", "mixed"}]
        /\ \A v \in Volume : data'[v] = IF v = session.at THEN d ELSE data[v]
    BY <1>2, <1>4, <1>6
  <2>2. \A v \in Volume : v > n => data'[v] = "old"
    <3>1. \A v \in Volume : v \in Nat
      BY DEF Volume
    <3> QED
      BY <1>0, <1>4, <1>6, <2>1, <3>1
  <2>3. n <= session.rollbacks
    BY <1>0, <1>4, <1>6 DEF SessionType
  <2>4. RestoreFacts'
    BY <1>0, <1>6 DEF RestoreFacts
  <2>5. RecoverFacts'
    BY <1>0, <1>2, <1>6, <2>2, <2>3 DEF IInv, RecoverFacts
  <2>6. CASE data' = data
    <3>1. JournalFacts' /\ EvidenceKept'
      BY <1>2, <2>6 DEF IInv, JournalFacts, EvidenceKept, DataOld, DataNew, Uniform
    <3>2. /\ session'.stages > 0 => session'.rollbacks = Volumes
          /\ staging' \in [Volume -> BOOLEAN] /\ archive' \in [Volume -> BOOLEAN]
      BY <1>2, <1>6 DEF IInv, SessionFacts
    <3> QED
      BY <1>0, <1>2, <1>3, <1>6, <2>1, <2>4, <2>5, <3>1, <3>2, VolumeStep
  <2>7. CASE session.at <= session.stages /\ data' = [data EXCEPT ![session.at] = d]
    <3>1. journal.rollbacks = Volumes /\ journal.phase \in PreCommit \cup {"committed"}
      BY <1>0, <1>4, <1>6, <2>7 DEF IInv, RecoverFacts
    <3>2. \A v \in Volume : v <= Volumes /\ ~(v > Volumes)
      BY RestoreAssumption DEF Volume
    <3>3. JournalFacts'
      BY <1>2, <3>1, <3>2 DEF JournalFacts, PreCommit
    <3>4. EvidenceKept'
      BY <1>2, <1>4, <1>6, <2>1, <3>1, <3>2 DEF IInv, EvidenceKept
    <3>5. /\ session'.stages > 0 => session'.rollbacks = Volumes
          /\ staging' \in [Volume -> BOOLEAN] /\ archive' \in [Volume -> BOOLEAN]
      BY <1>2, <1>6 DEF IInv, SessionFacts
    <3> QED
      BY <1>0, <1>2, <1>3, <1>6, <2>1, <2>4, <2>5, <3>3, <3>4, <3>5, VolumeStep
  <2> QED
    BY <1>6, <2>6, <2>7
<1>7. CASE /\ session.at > 0 /\ session.at > session.stages
           /\ Digest(session.at) = "old" /\ archive[session.at] /\ ~late
           /\ session' = [session EXCEPT !.at = session.at - 1]
           /\ UNCHANGED <<data, touched, faults>>
  <2>1. session.at - 1 \in 0..Volumes + 1 /\ session.at - 1 \in Nat
    BY <1>4, <1>7, RestoreAssumption
  <2>2. /\ session' \in SessionType /\ session'.pc = "effect" /\ session'.mode = session.mode
        /\ session'.phase = "rolled_back" /\ session'.rollbacks = session.rollbacks
        /\ session'.stages = session.stages /\ session'.adopted = session.adopted
        /\ session'.half = session.half /\ session'.at = session.at - 1
    BY <1>0, <1>7, <2>1 DEF SessionType
  <2>3. data[session.at] = "old"
    BY <1>7 DEF Digest
  <2>4. session.half \in BOOLEAN
    BY <1>0 DEF SessionType
  <2>5. touched' \in [Volume -> BOOLEAN]
    BY <1>2, <1>7
  <2> QED
    BY <1>6, <1>7, <2>1, <2>2, <2>3, <2>4, <2>5
<1>8. CASE /\ session.at > 0 /\ session.at <= session.stages /\ archive[session.at] /\ ~late
           /\ ~session.half /\ data' = [data EXCEPT ![session.at] = "mixed"]
           /\ session' = [session EXCEPT !.half = TRUE] /\ UNCHANGED touched
           /\ UNCHANGED faults
  <2>1. /\ session' \in SessionType /\ session'.pc = "effect" /\ session'.mode = session.mode
        /\ session'.phase = "rolled_back" /\ session'.rollbacks = session.rollbacks
        /\ session'.stages = session.stages /\ session'.adopted = session.adopted
        /\ session'.half = TRUE /\ session'.at = session.at
    BY <1>0, <1>8 DEF SessionType
  <2>2. touched' \in [Volume -> BOOLEAN]
    BY <1>2, <1>8
  <2> QED
    BY <1>4, <1>6, <1>8, <2>1, <2>2
<1>9. CASE /\ session.at > 0 /\ session.at <= session.stages /\ archive[session.at] /\ ~late
           /\ session.half /\ data' = [data EXCEPT ![session.at] = "old"]
           /\ touched' = [touched EXCEPT ![session.at] = FALSE]
           /\ session' = [session EXCEPT !.half = FALSE, !.at = session.at - 1]
           /\ UNCHANGED faults
  <2>1. session.at - 1 \in 0..Volumes + 1 /\ session.at - 1 \in Nat
    BY <1>4, <1>9, RestoreAssumption
  <2>2. /\ session' \in SessionType /\ session'.pc = "effect" /\ session'.mode = session.mode
        /\ session'.phase = "rolled_back" /\ session'.rollbacks = session.rollbacks
        /\ session'.stages = session.stages /\ session'.adopted = session.adopted
        /\ session'.half = FALSE /\ session'.at = session.at - 1
    BY <1>0, <1>9, <2>1 DEF SessionType
  <2>3. touched' \in [Volume -> BOOLEAN]
    BY <1>2, <1>9
  <2> QED
    BY <1>6, <1>9, <2>1, <2>2, <2>3
<1>10. CASE Fail /\ UNCHANGED <<data, touched>> /\ (UNCHANGED faults \/ Trouble)
  <2>1. staging' \in [Volume -> BOOLEAN]
    BY <1>2
  <2> QED
    BY <1>0, <1>1, <1>2, <1>10, <2>1, FailStill
<1> QED
  BY <1>5, <1>7, <1>8, <1>9, <1>10 DEF Rollback

\* The artifacts that a finalization removes: as many as there are volumes, or
\* as many as were archived when it undoes a batch after a kill.
LEMMA LeaseCount ==
    ASSUME IInv, session.pc = "effect",
           session.phase \in {"committed_finalized", "rollback_finalized"}
    PROVE  /\ Cardinality(Leases) \in Nat /\ Cardinality(Leases) <= Volumes
           /\ session.phase = "committed_finalized" => Cardinality(Leases) = Volumes
<1>0. session \in SessionType /\ Volumes \in Nat \ {0}
  BY Types DEF IInv
<1>1. session.rollbacks \in Int /\ session.rollbacks >= 0 /\ session.rollbacks <= Volumes
  BY <1>0 DEF SessionType
<1>2. Cardinality(1..session.rollbacks) = IF 1 > session.rollbacks THEN 0 ELSE session.rollbacks - 1 + 1
  BY <1>1, FS_Interval
<1>3. Cardinality(1..Volumes) = IF 1 > Volumes THEN 0 ELSE Volumes - 1 + 1
  BY <1>0, FS_Interval
<1>4. Cardinality(1..session.rollbacks) = session.rollbacks /\ Cardinality(Volume) = Volumes
  BY <1>0, <1>1, <1>2, <1>3 DEF Volume
<1>5. session.phase = "committed_finalized" => session.rollbacks = Volumes
  BY DEF IInv, RestoreFacts, RecoverFacts
<1> QED
  BY <1>0, <1>1, <1>4, <1>5 DEF Leases

\* Removing the artifacts of a volume whose tree is known to be the one that
\* the phase expects.
LEMMA FinalizeStep ==
    ASSUME IInv, Finalize, UNCHANGED <<coreVars, run>>
    PROVE  IInv'
<1> DEFINE last == Cardinality(Leases)
           expected == IF session.phase = "committed_finalized" THEN "new" ELSE "old"
<1>0. /\ session.pc = "effect" /\ session \in SessionType
      /\ session.phase \in {"committed_finalized", "rollback_finalized"}
  BY Types DEF IInv, Finalize, Ready, At
<1>1. run.pc = "component" /\ decision = "pending" /\ journal.phase \notin {"none", "other"}
  BY <1>0, Working
<1>2. /\ UNCHANGED <<journal, data, touched, decision, leftover, paused, late, outside>>
      /\ archive \in [Volume -> BOOLEAN] /\ staging \in [Volume -> BOOLEAN]
      /\ touched \in [Volume -> BOOLEAN] /\ data \in [Volume -> {"old", "new", "mixed"}]
  BY DEF Finalize, IInv, RunTypeOK, TypeOK
<1>3. /\ last \in Nat /\ last <= Volumes
      /\ session.phase = "committed_finalized" => last = Volumes
  BY <1>0, LeaseCount
<1>4. /\ session.at \in Nat /\ session.at <= Volumes + 1 /\ Volumes \in Nat
      /\ \A v \in Volume : v \in Nat /\ v <= Volumes
  BY <1>0, RestoreAssumption DEF SessionType, Volume
<1>5. /\ session.phase = "rollback_finalized" => DataOld /\ session.mode # "restore"
      /\ session.phase = "committed_finalized" /\ session.mode = "restore" => DataNew
      /\ session.phase = "committed_finalized" /\ session.mode # "restore" =>
           \A v \in Volume : v < session.at \/ (v = session.at /\ session.half) => data[v] = "new"
  BY <1>0 DEF IInv, RestoreFacts, RecoverFacts
<1>6. Quiet' /\ paused' \in SUBSET Container
  BY <1>2, StillQuiet DEF outside
<1> HIDE DEF last, expected
<1>7. CASE session.at > last /\ Effected /\ UNCHANGED <<archive, staging, faults>>
  <2>1. session.phase = "committed_finalized" => DataNew
    BY <1>3, <1>4, <1>5, <1>7 DEF DataNew
  <2>2. RestoreFacts'
    BY <1>0, <1>2, <1>5, <1>7, <2>1, EffectedSession DEF IInv, RestoreFacts, DataNew, PreCommit
  <2>3. RecoverFacts'
    BY <1>0, <1>2, <1>5, <1>7, <2>1, EffectedSession
    DEF IInv, RecoverFacts, DataOld, DataNew
  <2>4. Steady
    BY <1>2, <1>7 DEF Steady
  <2> QED
    BY <1>0, <1>2, <1>7, <2>2, <2>3, <2>4, EffectedStep
<1>8. ASSUME NEW h \in BOOLEAN, NEW n,
             session.at <= last, session.at \in Volume => data[session.at] = expected,
             session' = [session EXCEPT !.half = h, !.at = n],
             \/ h = TRUE /\ n = session.at
             \/ h = FALSE /\ n = session.at + 1,
             archive' \in {archive, [archive EXCEPT ![session.at] = FALSE]},
             staging' \in {staging, [staging EXCEPT ![session.at] = FALSE]},
             UNCHANGED faults
      PROVE  IInv'
  <2>1. n \in 0..Volumes + 1
    BY <1>3, <1>4, <1>8
  <2>2. /\ session' \in SessionType /\ session'.pc = "effect" /\ session'.mode = session.mode
        /\ session'.phase = session.phase /\ session'.rollbacks = session.rollbacks
        /\ session'.stages = session.stages /\ session'.adopted = session.adopted
        /\ session'.half = h /\ session'.at = n
    BY <1>0, <1>8, <2>1 DEF SessionType
  <2>3. archive' \in [Volume -> BOOLEAN] /\ staging' \in [Volume -> BOOLEAN]
    BY <1>2, <1>8
  <2>4. \A v \in Volume : archive[v] => archive'[v] \/ v = session.at
    BY <1>2, <1>8
  <2>5. EvidenceKept'
    BY <1>2, <1>8, <2>4 DEF IInv, EvidenceKept, expected
  <2>6. JournalFacts'
    BY <1>2 DEF IInv, JournalFacts, DataOld, DataNew, Uniform
  <2>7. session.phase = "committed_finalized" =>
          \A v \in Volume : v < n \/ (v = n /\ h) => data[v] = "new"
    BY <1>4, <1>5, <1>8 DEF DataNew, expected
  <2>8. RestoreFacts'
    BY <1>0, <1>2, <1>5, <2>2 DEF IInv, RestoreFacts, DataNew, PreCommit
  <2>9. RecoverFacts'
    BY <1>0, <1>2, <1>5, <2>2, <2>7 DEF IInv, RecoverFacts, DataOld
  <2>10. /\ session'.stages > 0 => session'.rollbacks = Volumes
         /\ session'.phase # "released"
         /\ touched' \in [Volume -> BOOLEAN] /\ data' \in [Volume -> {"old", "new", "mixed"}]
    BY <1>0, <1>2, <2>2 DEF IInv, SessionFacts
  <2> QED
    BY <1>0, <1>2, <1>6, <1>8, <2>2, <2>3, <2>5, <2>6, <2>8, <2>9, <2>10, VolumeStep
<1>9. ASSUME ~Unfinishable(session.at) PROVE data[session.at] = expected
  BY <1>9 DEF Unfinishable, Digest, expected
<1>10. ASSUME session.half, session.at \in Volume PROVE data[session.at] = expected
  BY <1>0, <1>5, <1>10 DEF expected, DataOld, DataNew
<1>11. session.half \in BOOLEAN
  BY <1>0 DEF SessionType
<1>12. CASE /\ session.at <= last /\ ~session.half /\ ~Unfinishable(session.at)
            /\ session' = [session EXCEPT !.half = FALSE, !.at = session.at + 1]
            /\ UNCHANGED <<archive, staging, faults>>
  BY <1>8, <1>9, <1>12
<1>13. CASE /\ session.at <= last /\ Remove(session.at) /\ UNCHANGED faults
            /\ ~session.half /\ ~Unfinishable(session.at)
            /\ session' = [session EXCEPT !.half = TRUE]
  <2>1. session' = [session EXCEPT !.half = TRUE, !.at = session.at]
    BY <1>0, <1>13 DEF SessionType
  <2>2. /\ archive' \in {archive, [archive EXCEPT ![session.at] = FALSE]}
        /\ staging' \in {staging, [staging EXCEPT ![session.at] = FALSE]}
    BY <1>13 DEF Remove
  <2> QED
    BY <1>8, <1>9, <1>13, <2>1, <2>2
<1>14. CASE /\ session.at <= last /\ Remove(session.at) /\ UNCHANGED faults
            /\ session.half
            /\ session' = [session EXCEPT !.half = FALSE, !.at = session.at + 1]
  <2>1. /\ archive' \in {archive, [archive EXCEPT ![session.at] = FALSE]}
        /\ staging' \in {staging, [staging EXCEPT ![session.at] = FALSE]}
    BY <1>14 DEF Remove
  <2> QED
    BY <1>8, <1>10, <1>14, <2>1
<1>15. CASE Fail /\ UNCHANGED <<archive, staging>> /\ (UNCHANGED faults \/ Trouble)
  <2>1. staging' \in [Volume -> BOOLEAN]
    BY <1>2, <1>15
  <2> QED
    BY <1>0, <1>1, <1>2, <1>15, <2>1, FailStill
<1> QED
  BY <1>7, <1>12, <1>13, <1>14, <1>15 DEF Finalize, last

-----------------------------------------------------------------------------
(* The steps of the session: the journal *)

\* Whenever a phase is persisted the volumes are of one generation, and the
\* entry tells the truth about them.
LEMMA EntryFacts ==
    ASSUME IInv, session.pc = "persist", data' = data, journal' = Entry(session)
    PROVE  /\ Uniform /\ JournalFacts' /\ journal' \in JournalType
           /\ journal'.phase = session.phase /\ journal'.rollbacks = session.rollbacks
           /\ journal'.stages = session.stages
<1>0. session \in SessionType
  BY Types DEF IInv
<1>1. /\ journal'.phase = session.phase /\ journal'.rollbacks = session.rollbacks
      /\ journal'.stages = session.stages /\ journal' \in JournalType
  BY <1>0 DEF Entry, SessionType, JournalType
<1>2. /\ session.phase \in {"acquired", "rolled_back", "rollback_finalized"} \cup PreCommit => DataOld
      /\ session.phase \in {"committed", "committed_finalized"} =>
           DataNew /\ session.rollbacks = Volumes
      /\ session.phase = "released" => Uniform
      /\ session.phase # "acquiring"
  <2>1. CASE session.mode = "restore"
    <3>1. session.phase # "acquiring"
      BY <2>1 DEF IInv, RestoreFacts
    <3> QED
      BY <2>1, <3>1 DEF IInv, RestoreFacts, Uniform, PreCommit
  <2>2. CASE session.mode # "restore"
    BY <2>2 DEF IInv, RecoverFacts, Uniform, PreCommit
  <2> QED
    BY <2>1, <2>2
<1>3. Uniform
  BY <1>0, <1>2 DEF SessionType, Phase, Uniform
<1>4. session.stages > 0 => session.rollbacks = Volumes
  BY DEF IInv, SessionFacts
<1>5. JournalFacts'
  BY <1>1, <1>2, <1>3, <1>4 DEF JournalFacts, DataOld, DataNew, Uniform, PreCommit
<1> QED
  BY <1>1, <1>3, <1>5

\* Persisting a phase: the next one begins, or the call is about to end; a write
\* that fails may have replaced the journal.
LEMMA PersistStep ==
    ASSUME IInv, Persist, UNCHANGED <<coreVars, run>>
    PROVE  IInv'
<1>0. session.pc = "persist" /\ session \in SessionType /\ RunTypeOK
  BY Types DEF IInv, Persist
<1>1. run.pc = "component" /\ decision = "pending" /\ journal.phase \notin {"none", "other"}
  BY <1>0, Working
<1>2. UNCHANGED <<data, touched, archive, staging, decision, leftover, paused, late, outside>>
  BY DEF Persist
<1>3. Quiet' /\ paused' \in SUBSET Container
  BY <1>2, StillQuiet DEF outside
<1>4. /\ touched' \in [Volume -> BOOLEAN] /\ archive' \in [Volume -> BOOLEAN]
      /\ staging' \in [Volume -> BOOLEAN] /\ data' \in [Volume -> {"old", "new", "mixed"}]
      /\ decision' \in {"none", "plain", "pending", "released"}
      /\ leftover' \in BOOLEAN /\ late' \in BOOLEAN /\ foreign' \in BOOLEAN
      /\ meddling' \in 0..MaxMeddling
  BY <1>0, <1>2 DEF RunTypeOK, TypeOK, outside
<1>5. ASSUME journal' = Entry(session), session' \in SessionType,
             faults' \in 0..MaxFaults,
             session'.pc \in {"effect", "raised", "clear", "checkpoint"},
             RestoreFacts', RecoverFacts', SessionFacts'
      PROVE  IInv'
  <2>1. Uniform /\ JournalFacts' /\ journal' \in JournalType /\ journal'.phase = session.phase
    BY <1>0, <1>2, <1>5, EntryFacts
  <2>2. RunTypeOK'
    BY <1>0, <1>3, <1>4, <1>5, <2>1, TypesAgain
  <2>3. EvidenceKept'
    BY <1>2, <2>1 DEF EvidenceKept, Uniform, DataOld, DataNew
  <2>4. journal'.phase \notin {"none", "other"}
    BY <1>0, <2>1 DEF SessionType, Phase, PreCommit
  <2>5. ControlFacts' /\ FileFacts' /\ WholeCore'
    BY <1>1, <1>2, <1>5, <2>4 DEF IInv, ControlFacts, FileFacts, WholeCore, coreVars, Published
  <2> QED
    BY <1>3, <1>5, <2>1, <2>2, <2>3, <2>5 DEF IInv
<1>6. CASE journal' = Entry(session) /\ session' = Persisted(session) /\ UNCHANGED faults
  <2>0. /\ Uniform /\ journal'.phase = session.phase /\ journal'.rollbacks = session.rollbacks
        /\ journal'.stages = session.stages
    BY <1>0, <1>2, <1>6, EntryFacts
  <2>1. faults' \in 0..MaxFaults
    BY <1>0, <1>6, FaultsBounded
  <2>2. CASE session.phase # "released"
    <3>1. session' = [session EXCEPT !.pc = "effect", !.phase = NextPhase(session), !.at = 1]
      BY <1>6, <2>2 DEF Persisted
    <3>2. NextPhase(session) \in Phase
      BY <1>0 DEF NextPhase, Phase, PreCommit, SessionType
    <3>3. /\ session' \in SessionType /\ session'.pc = "effect" /\ session'.mode = session.mode
          /\ session'.phase = NextPhase(session) /\ session'.rollbacks = session.rollbacks
          /\ session'.stages = session.stages /\ session'.adopted = session.adopted
          /\ session'.half = session.half /\ session'.at = 1
      <4>1. 1 \in 0..Volumes + 1
        BY RestoreAssumption
      <4> QED
        BY <1>0, <3>1, <3>2, <4>1 DEF SessionType
    <3>4. RestoreFacts'
      <4>1. SUFFICES ASSUME session.mode = "restore" PROVE RestoreFacts'
        BY <3>3 DEF RestoreFacts
      <4>2. CASE session.phase = "acquired"
        BY <1>0, <1>2, <2>0, <3>3, <4>1, <4>2
        DEF IInv, RestoreFacts, NextPhase, DataOld, PreCommit
      <4>3. CASE session.phase = "quiesced"
        <5>1. \A v \in Volume : ~(v <= session.rollbacks)
          BY <1>0, <4>1, <4>3 DEF IInv, RestoreFacts, Volume
        <5> QED
          BY <1>0, <1>2, <2>0, <3>3, <4>1, <4>3, <5>1, RestoreAssumption
          DEF IInv, RestoreFacts, NextPhase, DataOld, PreCommit
      <4>4. CASE session.phase = "rollback_snapshots"
        <5>0. session.rollbacks \in Nat /\ session.rollbacks <= Volumes /\ Volumes \in Nat \ {0}
          BY <1>0, RestoreAssumption DEF SessionType
        <5>1. CASE session.rollbacks < Volumes
          BY <1>0, <1>2, <2>0, <3>3, <4>1, <4>4, <5>1
          DEF IInv, RestoreFacts, NextPhase, DataOld, PreCommit
        <5>2. CASE session.rollbacks = Volumes
          <6>1. \A v \in Volume : v <= session.rollbacks
            BY <5>0, <5>2 DEF Volume
          <6>2. NextPhase(session) = "staging"
            BY <4>4, <5>0, <5>2 DEF NextPhase
          <6> QED
            BY <1>0, <1>2, <2>0, <3>3, <4>1, <4>4, <5>0, <5>2, <6>1, <6>2
            DEF IInv, RestoreFacts, DataOld, PreCommit
        <5> QED
          BY <5>0, <5>1, <5>2
      <4>5. CASE session.phase = "staging"
        <5>1. NextPhase(session) = IF session.stages < Volumes THEN "staging" ELSE "pre_commit"
          BY <4>5 DEF NextPhase
        <5> QED
          BY <1>0, <1>2, <2>0, <3>3, <4>1, <4>5, <5>1
          DEF IInv, RestoreFacts, DataOld, PreCommit
      <4>6. CASE session.phase = "pre_commit"
        <5>1. NextPhase(session) = "committed"
          BY <4>6 DEF NextPhase
        <5>2. \A v \in Volume : ~(v < 1) /\ data'[v] = "old"
          BY <1>0, <1>2, <4>1, <4>6 DEF IInv, RestoreFacts, DataOld, Volume, PreCommit
        <5>3. ~session.half
          BY <1>0, <4>1, <4>6 DEF IInv, RestoreFacts, PreCommit
        <5> QED
          BY <1>0, <1>2, <2>0, <3>3, <4>1, <4>6, <5>1, <5>2, <5>3
          DEF IInv, RestoreFacts, PreCommit
      <4>7. CASE session.phase = "committed"
        BY <1>0, <1>2, <2>0, <3>3, <4>1, <4>7
        DEF IInv, RestoreFacts, NextPhase, DataNew, PreCommit
      <4>8. CASE session.phase = "committed_finalized"
        BY <1>0, <1>2, <2>0, <3>3, <4>1, <4>8
        DEF IInv, RestoreFacts, NextPhase, DataNew, PreCommit
      <4>9. session.phase \notin {"acquiring", "rolled_back", "rollback_finalized"}
        BY <1>0, <4>1 DEF IInv, RestoreFacts
      <4> QED
        BY <1>0, <2>2, <4>2, <4>3, <4>4, <4>5, <4>6, <4>7, <4>8, <4>9
        DEF SessionType, Phase, PreCommit
    <3>5. RecoverFacts'
      <4>1. SUFFICES ASSUME session.mode # "restore" PROVE RecoverFacts'
        BY <3>3 DEF RecoverFacts
      <4>2. session.phase \in {"rolled_back", "rollback_finalized", "committed_finalized"}
        BY <1>0, <2>2, <4>1 DEF IInv, RecoverFacts
      <4>3. NextPhase(session) = IF session.phase = "rolled_back" THEN "rollback_finalized"
                                                                  ELSE "released"
        BY <4>2 DEF NextPhase
      <4> QED
        BY <1>0, <1>2, <2>0, <3>3, <4>1, <4>2, <4>3
        DEF IInv, RecoverFacts, DataOld, DataNew, Uniform
    <3>6. SessionFacts'
      <4>1. session.mode = "cleanup" /\ NextPhase(session) = "released" => DataOld
        BY <1>0, <2>2 DEF IInv, RecoverFacts, NextPhase
      <4>2. journal'.phase \notin {"none", "other"}
        BY <1>0, <2>0 DEF SessionType, Phase, PreCommit
      <4> QED
        BY <1>0, <1>2, <3>3, <4>1, <4>2 DEF IInv, SessionFacts, outside, DataOld
    <3> QED
      BY <1>5, <1>6, <2>1, <3>3, <3>4, <3>5, <3>6
  <2>3. CASE session.phase = "released"
    <3>1. session' = [session EXCEPT !.pc = IF session.mode = "cleanup" THEN "clear" ELSE "checkpoint"]
      BY <1>6, <2>3 DEF Persisted
    <3>2. /\ session' \in SessionType /\ session'.mode = session.mode
          /\ session'.pc = IF session.mode = "cleanup" THEN "clear" ELSE "checkpoint"
          /\ session'.phase = "released" /\ session'.adopted = session.adopted
          /\ session'.rollbacks = session.rollbacks /\ session'.stages = session.stages
      BY <1>0, <2>3, <3>1 DEF SessionType
    <3>3. RestoreFacts' /\ RecoverFacts'
      BY <3>2 DEF RestoreFacts, RecoverFacts
    <3>4. SessionFacts'
      BY <1>0, <1>1, <1>2, <2>0, <2>3, <3>2 DEF IInv, SessionFacts, outside, DataOld
    <3> QED
      BY <1>5, <1>6, <2>1, <3>2, <3>3, <3>4
  <2> QED
    BY <2>2, <2>3
<1>7. CASE Fail /\ journal' = journal /\ (Fault \/ UNCHANGED faults)
  BY <1>0, <1>1, <1>2, <1>4, <1>7, FailStill
<1>8. CASE Fault /\ Fail /\ journal' = Entry(session)
  <2>0. Uniform /\ journal'.phase = session.phase
    BY <1>0, <1>2, <1>8, EntryFacts
  <2>1. faults' \in 0..MaxFaults
    BY <1>0, <1>8, FaultsBounded
  <2>2. journal'.phase \notin {"none", "other"}
    BY <1>0, <2>0 DEF SessionType, Phase, PreCommit
  <2>3. CASE Failed(session) = Raised
    <3>1. Over(session') /\ session'.pc = "raised"
      BY <1>8, <2>3, OverSessions DEF Fail
    <3>2. RestoreFacts' /\ RecoverFacts' /\ SessionFacts'
      BY <3>1, OverFacts, RestoreAssumption
    <3>3. session' \in SessionType
      BY <3>1 DEF Over
    <3> QED
      BY <1>5, <1>8, <2>1, <3>1, <3>2, <3>3
  <2>4. CASE /\ session.mode = "restore" /\ session.phase \in Early
             /\ Cleaning(session, session')
    <3>1. RestoreFacts' /\ RecoverFacts'
      BY <1>0, <1>2, <1>8, <2>4, CleaningFacts
    <3>2. foreign' \/ session.adopted \subseteq paused'
      BY <1>2 DEF IInv, SessionFacts, outside
    <3>3. SessionFacts'
      BY <2>2, <2>4, <3>2, CleaningSession
    <3>4. session' \in SessionType /\ session'.pc = "effect"
      BY <2>4 DEF Cleaning
    <3> QED
      BY <1>5, <1>8, <2>1, <3>1, <3>3, <3>4
  <2> QED
    BY <1>0, <1>8, <2>3, <2>4, FailedSession DEF Fail
<1> QED
  BY <1>6, <1>7, <1>8 DEF Persist

\* Telling Core the decision.
LEMMA CheckpointStep ==
    ASSUME IInv, Checkpoint, UNCHANGED <<coreVars, run>>
    PROVE  IInv'
<1>0. /\ session.pc = "checkpoint" /\ session \in SessionType /\ RunTypeOK
      /\ session.phase = "released" /\ session.mode # "cleanup" /\ journal.phase = "released"
      /\ run.pc = "component"
  BY Types DEF IInv, Checkpoint, SessionFacts, ControlFacts
<1>1. UNCHANGED <<journal, data, touched, archive, staging, paused, late, outside>>
  BY DEF Checkpoint
<1>2. ASSUME decision \in {"pending", "released"}, decision' \in {decision, "released"},
             leftover' \in BOOLEAN, UNCHANGED faults,
             session' \in SessionType, session'.phase = "released", session'.mode = session.mode,
             session'.adopted = session.adopted,
             session'.rollbacks = session.rollbacks, session'.stages = session.stages,
             \/ session'.pc = "checkpoint"
             \/ session'.pc = "clear" /\ decision' = "released"
      PROVE  IInv'
  <2>1. RunTypeOK'
    <3>1. journal' \in JournalType /\ data' \in [Volume -> {"old", "new", "mixed"}]
      BY <1>0, <1>1, Types
    <3>2. /\ touched' \in [Volume -> BOOLEAN] /\ archive' \in [Volume -> BOOLEAN]
          /\ staging' \in [Volume -> BOOLEAN] /\ paused' \in SUBSET Container
          /\ decision' \in {"none", "plain", "pending", "released"}
          /\ late' \in BOOLEAN /\ foreign' \in BOOLEAN
          /\ meddling' \in 0..MaxMeddling /\ faults' \in 0..MaxFaults
      BY <1>0, <1>1, <1>2 DEF RunTypeOK, TypeOK, outside
    <3> QED
      BY <1>0, <1>2, <3>1, <3>2, TypesAgain
  <2>2. RestoreFacts' /\ RecoverFacts'
    BY <1>2 DEF RestoreFacts, RecoverFacts
  <2>3. SessionFacts'
    BY <1>0, <1>1, <1>2 DEF IInv, SessionFacts, outside
  <2>4. JournalFacts' /\ EvidenceKept' /\ Quiet'
    BY <1>1 DEF IInv, JournalFacts, EvidenceKept, Quiet, DataOld, DataNew, Uniform, outside
  <2>5. ControlFacts' /\ FileFacts' /\ WholeCore'
    BY <1>0, <1>1, <1>2 DEF IInv, ControlFacts, FileFacts, WholeCore, coreVars, Published, DataOld
  <2> QED
    BY <2>1, <2>2, <2>3, <2>4, <2>5 DEF IInv
<1>3. leftover \in BOOLEAN
  BY <1>0 DEF RunTypeOK, TypeOK
<1>4. CASE /\ decision = "released" /\ session' = [session EXCEPT !.pc = "clear"]
           /\ UNCHANGED <<decision, leftover, faults>>
  <2>1. /\ session' \in SessionType /\ session'.phase = "released" /\ session'.mode = session.mode
        /\ session'.adopted = session.adopted /\ session'.pc = "clear"
        /\ session'.rollbacks = session.rollbacks /\ session'.stages = session.stages
    BY <1>0, <1>4 DEF SessionType
  <2> QED
    BY <1>2, <1>3, <1>4, <2>1
<1>5. ASSUME NEW h \in BOOLEAN, session' = [session EXCEPT !.half = h],
             decision = "pending", decision' \in {decision, "released"},
             leftover' \in BOOLEAN, UNCHANGED faults
      PROVE  IInv'
  <2>1. /\ session' \in SessionType /\ session'.phase = "released" /\ session'.mode = session.mode
        /\ session'.adopted = session.adopted /\ session'.pc = "checkpoint"
        /\ session'.rollbacks = session.rollbacks /\ session'.stages = session.stages
    BY <1>0, <1>5 DEF SessionType
  <2> QED
    BY <1>2, <1>5, <2>1
<1>6. CASE /\ decision = "pending" /\ ~leftover /\ leftover' = TRUE
           /\ session' = [session EXCEPT !.half = TRUE] /\ UNCHANGED <<decision, faults>>
  BY <1>5, <1>6
<1>7. CASE /\ decision = "pending" /\ leftover /\ session.half
           /\ decision' = "released" /\ leftover' = FALSE
           /\ session' = [session EXCEPT !.half = FALSE] /\ UNCHANGED faults
  BY <1>5, <1>7
<1>8. CASE /\ decision = "pending" /\ leftover /\ ~session.half
           /\ Fail /\ UNCHANGED <<decision, leftover, faults>>
  <2>1. staging' \in [Volume -> BOOLEAN]
    BY <1>0, <1>1 DEF RunTypeOK, TypeOK
  <2> QED
    BY <1>0, <1>1, <1>8, <2>1, FailStill
<1> QED
  BY <1>4, <1>6, <1>7, <1>8 DEF Checkpoint

\* Removing the journal.
LEMMA ClearStep ==
    ASSUME IInv, Clear, UNCHANGED <<coreVars, run>>
    PROVE  IInv'
<1>0. /\ session.pc = "clear" /\ session \in SessionType /\ RunTypeOK
      /\ journal.phase = "released" /\ run.pc = "component"
      /\ decision = IF session.mode = "cleanup" THEN "pending" ELSE "released"
  BY Types DEF IInv, Clear, SessionFacts, ControlFacts
<1>1. /\ UNCHANGED <<data, touched, archive, staging, decision, leftover, paused, late, outside, faults>>
      /\ journal' = NoJournal
  BY DEF Clear
<1>2. Uniform /\ (session.mode = "cleanup" => DataOld)
  <2>1. session.mode = "cleanup" => session.phase = "released"
    BY <1>0 DEF IInv, SessionFacts
  <2> QED
    BY <1>0, <2>1 DEF IInv, JournalFacts, SessionFacts
<1>3. Over(session') /\ session'.pc = IF session.mode = "cleanup" THEN "raised" ELSE "returned"
  BY OverSessions DEF Clear
<1>4. NoJournal \in JournalType /\ NoJournal.phase = "none" /\ NoJournal.stages = 0
  BY RestoreAssumption DEF NoJournal, JournalType
<1>5. RunTypeOK'
  <2>1. journal' \in JournalType /\ data' \in [Volume -> {"old", "new", "mixed"}]
    BY <1>0, <1>1, <1>4, Types
  <2>2. /\ touched' \in [Volume -> BOOLEAN] /\ archive' \in [Volume -> BOOLEAN]
        /\ staging' \in [Volume -> BOOLEAN] /\ paused' \in SUBSET Container
        /\ decision' \in {"none", "plain", "pending", "released"}
        /\ leftover' \in BOOLEAN /\ late' \in BOOLEAN /\ foreign' \in BOOLEAN
        /\ meddling' \in 0..MaxMeddling /\ faults' \in 0..MaxFaults
    BY <1>0, <1>1 DEF RunTypeOK, TypeOK, outside
  <2>3. session' \in SessionType
    BY <1>3 DEF Over
  <2> QED
    BY <1>0, <2>1, <2>2, <2>3, TypesAgain
<1>6. RestoreFacts' /\ RecoverFacts' /\ SessionFacts'
  BY <1>3, OverFacts, RestoreAssumption
<1>7. Uniform' /\ (session.mode = "cleanup" => DataOld')
  BY <1>1, <1>2 DEF Uniform, DataOld, DataNew
<1>8. JournalFacts' /\ EvidenceKept'
  BY <1>1, <1>4, <1>7 DEF JournalFacts, EvidenceKept, Uniform, DataOld, DataNew, PreCommit
<1>9. Quiet'
  BY <1>7 DEF Quiet
<1>10. ControlFacts' /\ FileFacts' /\ WholeCore'
  BY <1>0, <1>1, <1>3, <1>7 DEF IInv, ControlFacts, FileFacts, WholeCore, coreVars, Published
<1> QED
  BY <1>5, <1>6, <1>8, <1>9, <1>10 DEF IInv

-----------------------------------------------------------------------------
(* The beginning and the end of a call *)

\* Where whoever holds .initialize.lock is.
LEMMA RunPositions ==
    /\ Free.pc = "idle" /\ Cli("stage").pc = "stage" /\ Cli("promote").pc = "promote"
    /\ Cli("first").pc = "first" /\ Cli("component").pc = "component" /\ Cli("publish").pc = "publish"
BY DEF Free, Cli

\* A step after which the call is over, and that leaves the volumes and Core's
\* files alone.
LEMMA OverStep ==
    ASSUME IInv, Over(session'), session'.pc \in {"idle", "raised"},
           UNCHANGED <<durable, paused, outside, coreVars>>, late' \in BOOLEAN,
           faults' \in 0..MaxFaults, RunTypeOK',
           \/ session'.pc = "idle" /\ run' \in {Free, Cli("publish")}
              /\ (run' = Cli("publish") => decision = "released")
           \/ run'.pc = "component" /\ decision = "pending"
    PROVE  IInv'
<1>1. RestoreFacts' /\ RecoverFacts' /\ SessionFacts'
  BY OverFacts, RestoreAssumption
<1>2. UNCHANGED <<journal, data, archive, decision, foreign, paused>>
  BY DEF durable, outside
<1>3. JournalFacts' /\ EvidenceKept' /\ Quiet'
  BY <1>2 DEF IInv, JournalFacts, EvidenceKept, Quiet, DataOld, DataNew, Uniform
<1>4. FileFacts' /\ WholeCore'
  BY <1>2 DEF IInv, FileFacts, WholeCore, coreVars, Published, DataOld, Free, Cli
<1>5. ControlFacts'
  BY <1>2 DEF IInv, ControlFacts, coreVars, Free, Cli
<1> QED
  BY <1>1, <1>3, <1>4, <1>5 DEF IInv

\* Where a call begins, the decision is pending; without a journal the volumes
\* are the old ones.
LEMMA CallBegins ==
    ASSUME IInv, run.pc = "component", session.pc = "idle"
    PROVE  decision = "pending" /\ (journal.phase = "none" => DataOld)
BY DEF IInv, ControlFacts, FileFacts

\* A batch is begun, or refused.
LEMMA StartRestoreStep ==
    ASSUME IInv, StartRestore, UNCHANGED coreVars, run' = Cli("component"),
           run.pc = "first" \/ (run.pc = "component" /\ journal.phase = "none")
    PROVE  IInv'
<1>0. /\ session.pc = "idle" /\ RunTypeOK /\ decision = "pending" /\ DataOld
  BY CallBegins DEF StartRestore, IInv, ControlFacts, FileFacts
<1>1. /\ UNCHANGED <<data, touched, archive, staging, decision, leftover, paused, outside>>
      /\ late' \in BOOLEAN
  BY DEF StartRestore
<1>2. data' \in [Volume -> {"old", "new", "mixed"}]
  BY <1>0, <1>1, Types
<1>3. /\ touched' \in [Volume -> BOOLEAN] /\ archive' \in [Volume -> BOOLEAN]
      /\ staging' \in [Volume -> BOOLEAN] /\ paused' \in SUBSET Container
      /\ decision' \in {"none", "plain", "pending", "released"}
      /\ leftover' \in BOOLEAN /\ foreign' \in BOOLEAN
      /\ meddling' \in 0..MaxMeddling
  BY <1>0, <1>1 DEF RunTypeOK, TypeOK, outside
<1>4. run'.pc = "component" /\ run' \in {run, Cli("component")}
  BY RunPositions
<1>5. CASE Fault /\ session' = Raised /\ UNCHANGED journal
  <2>1. Over(session') /\ session'.pc = "raised"
    BY <1>5, OverSessions
  <2>2. faults' \in 0..MaxFaults
    BY <1>0, <1>5, FaultsBounded
  <2>3. RunTypeOK'
    <3>1. session' \in SessionType /\ journal' \in JournalType
      BY <1>0, <1>5, <2>1, Types DEF Over
    <3> QED
      BY <1>0, <1>1, <1>2, <1>3, <2>2, <3>1, <1>4, TypesAgain
  <2>4. UNCHANGED <<durable, paused, outside, coreVars>>
    BY <1>1, <1>5 DEF durable
  <2> QED
    BY <1>0, <1>1, <2>1, <2>2, <2>3, <2>4, <1>4, OverStep
<1>6. CASE /\ journal' = [NoJournal EXCEPT !.phase = "acquiring"]
           /\ session' = Session("restore", "acquired", NoJournal)
           /\ UNCHANGED faults
  <2>1. /\ journal' \in JournalType /\ journal'.phase = "acquiring"
        /\ journal'.stages = 0 /\ journal'.rollbacks = 0
    <3>1. 0 \in 0..Volumes
      BY RestoreAssumption
    <3> QED
      BY <1>6, <3>1 DEF NoJournal, JournalType, Phase
  <2>2. /\ session' \in SessionType /\ session'.pc = "effect" /\ session'.mode = "restore"
        /\ session'.phase = "acquired" /\ session'.half = FALSE /\ session'.adopted = {}
        /\ session'.rollbacks = 0 /\ session'.stages = 0
    <3>1. 0 \in 0..Volumes /\ 1 \in 0..Volumes + 1 /\ "acquired" \in Phase
      BY RestoreAssumption DEF Phase
    <3>2. {} \in SUBSET Container
      OBVIOUS
    <3> QED
      BY <1>6, <3>1, <3>2 DEF Session, NoJournal, SessionType
  <2>3. RunTypeOK'
    <3>1. faults' \in 0..MaxFaults
      BY <1>0, <1>6, FaultsBounded
    <3> QED
      BY <1>0, <1>1, <1>2, <1>3, <2>1, <2>2, <3>1, <1>4, TypesAgain
  <2>4. DataOld'
    BY <1>0, <1>1 DEF DataOld
  <2>5. RestoreFacts' /\ RecoverFacts' /\ SessionFacts'
    BY <2>1, <2>2, <2>4 DEF RestoreFacts, RecoverFacts, SessionFacts
  <2>6. JournalFacts' /\ EvidenceKept' /\ Quiet'
    BY <2>1, <2>4 DEF JournalFacts, EvidenceKept, Quiet, DataOld, Uniform, PreCommit
  <2>7. ControlFacts' /\ FileFacts' /\ WholeCore'
    BY <1>0, <1>1, <1>4, <2>1, <2>2, <2>4 DEF IInv, ControlFacts, FileFacts, WholeCore, coreVars, Published
  <2> QED
    BY <2>3, <2>5, <2>6, <2>7 DEF IInv
<1>7. CASE /\ journal' = NoJournal /\ session' = Raised /\ UNCHANGED faults
  <2>1. Over(session') /\ session'.pc = "raised"
    BY <1>7, OverSessions
  <2>2. NoJournal \in JournalType /\ NoJournal.phase = "none" /\ NoJournal.stages = 0
    BY RestoreAssumption DEF NoJournal, JournalType
  <2>3. RunTypeOK'
    <3>1. faults' \in 0..MaxFaults
      BY <1>0, <1>7, FaultsBounded
    <3>2. session' \in SessionType /\ journal' \in JournalType
      BY <1>7, <2>1, <2>2 DEF Over
    <3> QED
      BY <1>0, <1>1, <1>2, <1>3, <3>1, <3>2, <1>4, TypesAgain
  <2>4. DataOld'
    BY <1>0, <1>1 DEF DataOld
  <2>5. RestoreFacts' /\ RecoverFacts' /\ SessionFacts'
    BY <2>1, OverFacts, RestoreAssumption
  <2>6. JournalFacts' /\ EvidenceKept' /\ Quiet'
    BY <1>7, <2>2, <2>4 DEF JournalFacts, EvidenceKept, Quiet, DataOld, Uniform, PreCommit
  <2>7. ControlFacts' /\ FileFacts' /\ WholeCore'
    BY <1>0, <1>1, <1>4, <2>1, <2>4 DEF IInv, ControlFacts, FileFacts, WholeCore, coreVars, Published
  <2> QED
    BY <2>3, <2>5, <2>6, <2>7 DEF IInv
<1> QED
  BY <1>5, <1>6, <1>7 DEF StartRestore

\* The session that a journal is taken up with.
LEMMA ResumeFacts ==
    ASSUME RunTypeOK, Ours
    PROVE  /\ Resume \in SessionType /\ Resume.mode = "recover" /\ Resume.half = FALSE
           /\ Resume.adopted \in {{}, paused}
           /\ Resume.rollbacks = journal.rollbacks /\ Resume.stages = journal.stages
           /\ journal.phase = "released" => Resume.pc = "checkpoint" /\ Resume.phase = "released"
           /\ journal.phase # "released" => Resume.pc = "effect"
           /\ journal.phase \in {"acquiring", "acquired", "committed_finalized", "rollback_finalized"} =>
                Resume.phase = "released"
           /\ journal.phase \in PreCommit =>
                Resume.phase = "rolled_back" /\ Resume.at = journal.rollbacks
           /\ journal.phase = "committed" => Resume.phase = "committed_finalized" /\ Resume.at = 1
           /\ journal.phase = "rolled_back" => Resume.phase = "rollback_finalized"
<1> DEFINE s == Session("recover", journal.phase, journal)
           to(phase) == [s EXCEPT !.phase = phase, !.adopted = paused, !.attempted = paused]
<1>0. journal \in JournalType /\ paused \in SUBSET Container /\ journal.phase \in Phase
  BY Types DEF JournalType, Ours
<1>1. 1 \in 0..Volumes + 1 /\ journal.rollbacks \in 0..Volumes + 1
  BY <1>0, RestoreAssumption DEF JournalType
<1>2. /\ s \in SessionType /\ s.mode = "recover" /\ s.half = FALSE /\ s.adopted = {}
      /\ s.rollbacks = journal.rollbacks /\ s.stages = journal.stages /\ s.pc = "effect"
      /\ s.phase = journal.phase /\ s.at = 1
  BY <1>0, <1>1 DEF Session, SessionType, JournalType
<1>3. Resume = CASE journal.phase = "released" -> [s EXCEPT !.pc = "checkpoint"]
                 [] journal.phase \in {"acquiring", "acquired"} -> to("released")
                 [] journal.phase \in PreCommit -> [to("rolled_back") EXCEPT !.at = s.rollbacks]
                 [] OTHER -> to(NextPhase(s))
  BY DEF Resume
<1> HIDE DEF s
<1>4. ASSUME NEW p \in Phase
      PROVE  /\ to(p) \in SessionType /\ to(p).mode = "recover" /\ to(p).half = FALSE
             /\ to(p).adopted = paused /\ to(p).pc = "effect"
             /\ to(p).rollbacks = journal.rollbacks /\ to(p).stages = journal.stages
             /\ to(p).phase = p /\ to(p).at = 1
  BY <1>0, <1>2 DEF SessionType
<1> HIDE DEF to
<1>5. CASE journal.phase = "released"
  <2>1. Resume = [s EXCEPT !.pc = "checkpoint"]
    BY <1>3, <1>5 DEF PreCommit
  <2> QED
    BY <1>2, <1>5, <2>1 DEF SessionType, PreCommit
<1>6. CASE journal.phase \in {"acquiring", "acquired"}
  <2>1. Resume = to("released")
    BY <1>3, <1>6 DEF PreCommit
  <2>2. "released" \in Phase
    BY DEF Phase
  <2> QED
    BY <1>4, <1>6, <2>1, <2>2 DEF PreCommit
<1>7. CASE journal.phase \in PreCommit
  <2>1. Resume = [to("rolled_back") EXCEPT !.at = s.rollbacks]
    BY <1>3, <1>7 DEF PreCommit
  <2>2. "rolled_back" \in Phase
    BY DEF Phase
  <2>3. PICK t : t = to("rolled_back")
    OBVIOUS
  <2>4. /\ t \in SessionType /\ t.mode = "recover" /\ t.half = FALSE
        /\ t.adopted = paused /\ t.pc = "effect"
        /\ t.rollbacks = journal.rollbacks /\ t.stages = journal.stages
        /\ t.phase = "rolled_back"
    BY <1>4, <2>2, <2>3
  <2>5. Resume = [t EXCEPT !.at = journal.rollbacks]
    BY <1>2, <2>1, <2>3
  <2> QED
    BY <1>1, <1>7, <2>4, <2>5 DEF SessionType, PreCommit
<1>8. CASE journal.phase \in {"committed", "committed_finalized", "rolled_back", "rollback_finalized"}
  <2>1. Resume = to(NextPhase(s))
    BY <1>3, <1>8 DEF PreCommit
  <2>2. NextPhase(s) = IF journal.phase = "committed" THEN "committed_finalized"
                       ELSE IF journal.phase = "rolled_back" THEN "rollback_finalized"
                       ELSE "released"
    BY <1>2, <1>8 DEF NextPhase
  <2>3. NextPhase(s) \in Phase
    BY <2>2 DEF Phase
  <2> QED
    BY <1>4, <1>8, <2>1, <2>2, <2>3 DEF PreCommit
<1> QED
  BY <1>0, <1>5, <1>6, <1>7, <1>8 DEF Phase

\* A batch is taken up where its journal says that it stopped.
LEMMA StartRecoverStep ==
    ASSUME IInv, run.pc = "component", StartRecover, UNCHANGED <<coreVars, run>>
    PROVE  IInv'
<1>0. /\ session.pc = "idle" /\ journal.phase # "none" /\ RunTypeOK /\ decision = "pending"
      /\ journal \in JournalType /\ paused \in SUBSET Container
  BY CallBegins, Types DEF StartRecover, IInv
<1>1. /\ UNCHANGED <<durable, paused, outside>> /\ late' \in BOOLEAN
      /\ UNCHANGED <<journal, data, archive, decision, foreign>>
  BY DEF StartRecover, durable, outside
<1>2. faults' \in 0..MaxFaults
  BY <1>0, FaultsBounded DEF StartRecover
<1>3. ASSUME session' \in SessionType PROVE RunTypeOK'
  <2>1. journal' \in JournalType /\ data' \in [Volume -> {"old", "new", "mixed"}]
    BY <1>0, <1>1, Types
  <2>2. /\ touched' \in [Volume -> BOOLEAN] /\ archive' \in [Volume -> BOOLEAN]
        /\ staging' \in [Volume -> BOOLEAN] /\ paused' \in SUBSET Container
        /\ decision' \in {"none", "plain", "pending", "released"}
        /\ leftover' \in BOOLEAN /\ foreign' \in BOOLEAN /\ meddling' \in 0..MaxMeddling
    BY <1>0, <1>1 DEF RunTypeOK, TypeOK, outside, durable
  <2> QED
    BY <1>0, <1>1, <1>2, <1>3, <2>1, <2>2, TypesAgain
<1>4. CASE session' = Raised
  <2>1. Over(session') /\ session'.pc = "raised"
    BY <1>4, OverSessions
  <2>2. RunTypeOK'
    BY <1>3, <2>1 DEF Over
  <2>3. UNCHANGED <<durable, paused, outside, coreVars>>
    BY <1>1
  <2> QED
    BY <1>0, <1>1, <1>2, <2>1, <2>2, <2>3, OverStep
<1>5. CASE session' = Resume /\ Ours
  <2>1. /\ session' \in SessionType /\ session'.mode = "recover" /\ session'.half = FALSE
        /\ session'.adopted \subseteq paused
        /\ session'.rollbacks = journal.rollbacks /\ session'.stages = journal.stages
        /\ journal.phase = "released" => session'.pc = "checkpoint" /\ session'.phase = "released"
        /\ journal.phase # "released" => session'.pc = "effect"
        /\ journal.phase \in {"acquiring", "acquired", "committed_finalized", "rollback_finalized"} =>
             session'.phase = "released"
        /\ journal.phase \in PreCommit =>
             session'.phase = "rolled_back" /\ session'.at = journal.rollbacks
        /\ journal.phase = "committed" => session'.phase = "committed_finalized" /\ session'.at = 1
        /\ journal.phase = "rolled_back" => session'.phase = "rollback_finalized"
    BY <1>0, <1>5, ResumeFacts
  <2>2. RestoreFacts'
    BY <2>1 DEF RestoreFacts
  <2>3. RecoverFacts'
    <3>1. CASE journal.phase = "released"
      BY <2>1, <3>1 DEF RecoverFacts
    <3>2. CASE journal.phase \in {"acquiring", "acquired", "committed_finalized", "rollback_finalized"}
      BY <1>1, <2>1, <3>2 DEF IInv, JournalFacts, RecoverFacts, Uniform, DataOld, DataNew
    <3>3. CASE journal.phase \in PreCommit
      <4>1. journal.rollbacks <= journal.rollbacks
        BY <1>0 DEF JournalType
      <4> QED
        BY <1>1, <2>1, <3>3, <4>1 DEF IInv, JournalFacts, RecoverFacts
    <3>4. CASE journal.phase = "committed"
      <4>1. \A v \in Volume : ~(v < 1)
        BY DEF Volume
      <4> QED
        BY <1>1, <2>1, <3>4, <4>1 DEF IInv, JournalFacts, RecoverFacts
    <3>5. CASE journal.phase = "rolled_back"
      BY <1>1, <2>1, <3>5 DEF IInv, JournalFacts, RecoverFacts, DataOld
    <3> QED
      BY <1>0, <1>5, <3>1, <3>2, <3>3, <3>4, <3>5 DEF JournalType, Phase, Ours
  <2>4. SessionFacts'
    BY <1>0, <1>1, <1>5, <2>1 DEF IInv, JournalFacts, SessionFacts, Ours
  <2>5. Quiet'
    BY <1>1, StillQuiet
  <2>6. RunTypeOK'
    BY <1>3, <2>1
  <2> QED
    BY <1>0, <1>1, <2>2, <2>3, <2>4, <2>5, <2>6, SessionMoves
<1> QED
  BY <1>4, <1>5 DEF StartRecover

\* The command has its answer, and publishes only what is decided.
LEMMA CallEndsStep ==
    ASSUME IInv, CallEnds
    PROVE  IInv'
<1>0. RunTypeOK
  BY DEF IInv
<1>1. Over(session') /\ session'.pc = "idle"
  BY OverSessions DEF CallEnds
<1>2. /\ UNCHANGED <<durable, paused, outside, coreVars>> /\ UNCHANGED <<late, faults>>
      /\ run' \in {Free, Cli("publish")} /\ (run' = Cli("publish") => decision = "released")
  <2>1. Free # Cli("publish")
    BY DEF Free, Cli
  <2> QED
    BY <2>1 DEF CallEnds
<1>3. RunTypeOK'
  <2>1. session' \in SessionType
    BY <1>1 DEF Over
  <2>2. TypeOK'
    BY <1>0, <1>2, <2>1 DEF RunTypeOK, TypeOK, SessionType, durable, outside
  <2> QED
    BY <1>0, <1>2, <2>2 DEF RunTypeOK, coreVars
<1>4. late' \in BOOLEAN /\ faults' \in 0..MaxFaults
  BY <1>0, <1>2 DEF RunTypeOK, TypeOK
<1> QED
  BY <1>1, <1>2, <1>3, <1>4, OverStep

\* A kill ends the call wherever it is.
LEMMA KillStep ==
    ASSUME IInv, Kill
    PROVE  IInv'
<1>0. RunTypeOK
  BY DEF IInv
<1>1. Over(session') /\ session'.pc = "idle"
  BY OverSessions DEF Kill
<1>2. /\ UNCHANGED <<durable, paused, outside, coreVars>> /\ UNCHANGED late
      /\ run' = Free /\ Free # Cli("publish")
  BY DEF Kill, Free, Cli
<1>3. faults' \in 0..MaxFaults
  BY <1>0, FaultsBounded DEF Kill
<1>4. RunTypeOK'
  <2>1. session' \in SessionType
    BY <1>1 DEF Over
  <2>2. TypeOK'
    BY <1>0, <1>2, <1>3, <2>1 DEF RunTypeOK, TypeOK, SessionType, durable, outside
  <2> QED
    BY <1>0, <1>2, <2>2 DEF RunTypeOK, coreVars
<1>5. late' \in BOOLEAN
  BY <1>0, <1>2 DEF RunTypeOK, TypeOK
<1> QED
  BY <1>1, <1>2, <1>3, <1>4, <1>5, OverStep

-----------------------------------------------------------------------------
(* Core's files *)

\* A step on Core's files: the components' restore is not in progress, or its
\* decision is left alone.
LEMMA ComponentsAside ==
    ASSUME IInv, UNCHANGED <<journal, data, archive, paused, session, foreign>>,
           session.pc = "idle" \/ UNCHANGED decision
    PROVE  /\ JournalFacts' /\ RestoreFacts' /\ RecoverFacts' /\ SessionFacts'
           /\ Quiet' /\ EvidenceKept'
<1>1. JournalFacts' /\ Quiet' /\ EvidenceKept'
  BY DEF IInv, JournalFacts, Quiet, EvidenceKept, DataOld, DataNew, Uniform
<1>2. RestoreFacts'
  BY DEF IInv, RestoreFacts, DataOld, DataNew
<1>3. RecoverFacts'
  BY DEF IInv, RecoverFacts, DataOld, DataNew, Uniform
<1>4. SessionFacts'
  BY DEF IInv, SessionFacts, DataOld
<1> QED
  BY <1>1, <1>2, <1>3, <1>4

\* Such a step keeps the types of the components' restore.
LEMMA AsideTypes ==
    ASSUME TypeOK, UNCHANGED <<journal, data, touched, archive, staging, paused, session>>,
           UNCHANGED <<late, outside>>,
           decision' \in {"none", "plain", "pending", "released"},
           leftover' \in BOOLEAN, faults' \in 0..MaxFaults
    PROVE  TypeOK'
BY DEF TypeOK, outside

\* The steps of restore_empty on the stage directory.
LEMMA StageDirSteps ==
    ASSUME IInv, Begin \/ Discard \/ (\E f \in File : StageFile(f)) \/ Promote \/ Retry
    PROVE  IInv'
<1>0. RunTypeOK /\ TypeOK
  BY DEF IInv, RunTypeOK
<1>1. CASE Begin
  <2>1. /\ UNCHANGED <<journal, data, archive, paused, session, foreign, decision, target, stage,
                       marker, components>>
        /\ run = Free /\ decision = "none" /\ Empty /\ run' = Cli("stage") /\ stageDir' = TRUE
        /\ UNCHANGED vars
    BY <1>1 DEF Begin, vars, durable, outside
  <2>2. TypeOK'
    BY <1>0, <2>1 DEF TypeOK, vars, durable, outside
  <2>3. RunTypeOK'
    BY <1>0, <2>1, <2>2 DEF RunTypeOK
  <2>4. \A f \in File : target[f] = "none"
    BY <2>1 DEF Empty
  <2>5. ControlFacts' /\ FileFacts' /\ WholeCore'
    BY <2>1, <2>4, RunPositions DEF IInv, ControlFacts, FileFacts, WholeCore, DataOld, Published
  <2> QED
    BY <2>1, <2>3, <2>5, ComponentsAside DEF IInv
<1>2. CASE Discard
  <2>1. /\ UNCHANGED <<journal, data, archive, paused, session, foreign, decision, target,
                       marker, components>>
        /\ run.pc \in {"stage", "promote"} /\ run' = Free /\ stage' = {} /\ stageDir' = FALSE
    BY <1>2 DEF Discard, outside
  <2>2. faults' \in 0..MaxFaults
    BY <1>0, <1>2, FaultsBounded DEF Discard
  <2>3. TypeOK'
    <3>1. decision' \in {"none", "plain", "pending", "released"} /\ leftover' \in BOOLEAN
      BY <1>0, <1>2 DEF Discard, TypeOK
    <3> QED
      BY <1>0, <1>2, <2>2, <3>1, AsideTypes DEF Discard
  <2>4. RunTypeOK'
    BY <1>0, <2>1, <2>3 DEF RunTypeOK
  <2>5. ControlFacts' /\ FileFacts' /\ WholeCore'
    BY <2>1, RunPositions DEF IInv, ControlFacts, FileFacts, WholeCore, DataOld, Published
  <2> QED
    BY <2>1, <2>4, <2>5, ComponentsAside DEF IInv
<1>3. ASSUME NEW f \in File, StageFile(f)
      PROVE  IInv'
  <2>1. /\ UNCHANGED <<journal, data, archive, paused, session, foreign, decision, target,
                       stageDir, marker, components>>
        /\ run.pc = "stage" /\ run' \in {run, Cli("promote")} /\ stage' = stage \cup {f}
        /\ UNCHANGED vars
    BY <1>3 DEF StageFile, vars, durable, outside
  <2>2. TypeOK'
    BY <1>0, <2>1 DEF TypeOK, vars, durable, outside
  <2>3. RunTypeOK'
    BY <1>0, <1>3, <2>1, <2>2 DEF RunTypeOK
  <2>4. ControlFacts' /\ FileFacts' /\ WholeCore'
    BY <2>1, RunPositions DEF IInv, ControlFacts, FileFacts, WholeCore, DataOld, Published
  <2> QED
    BY <2>1, <2>3, <2>4, ComponentsAside DEF IInv
<1>4. CASE Promote
  <2>1. /\ UNCHANGED <<journal, data, archive, paused, session, foreign, target, stage,
                       stageDir, marker, components>>
        /\ run.pc = "promote" /\ leftover' \in BOOLEAN
        /\ \/ UNCHANGED <<decision, run>>
           \/ decision' = "pending" /\ run' = Cli("first")
           \/ decision' = "plain" /\ run' = Cli("publish")
    BY <1>4 DEF Promote, outside, coreVars
  <2>2. session.pc = "idle" /\ decision = "none" /\ (\A f \in File : target[f] = "none") /\ DataOld
    BY <2>1 DEF IInv, ControlFacts, FileFacts
  <2>3. TypeOK'
    BY <1>0, <1>4, <2>1 DEF Promote, TypeOK, outside
  <2>4. RunTypeOK'
    BY <1>0, <2>1, <2>3 DEF RunTypeOK
  <2>5. ControlFacts' /\ FileFacts' /\ WholeCore'
    BY <2>1, <2>2, RunPositions DEF IInv, ControlFacts, FileFacts, WholeCore, DataOld, Published
  <2> QED
    BY <2>1, <2>2, <2>4, <2>5, ComponentsAside DEF IInv
<1>5. CASE Retry
  <2>1. /\ UNCHANGED <<journal, data, archive, paused, session, foreign, decision, target, stage,
                       stageDir, marker, components>>
        /\ run = Free /\ decision \in {"pending", "released"} /\ UNCHANGED vars
        /\ run' = IF decision = "pending" THEN Cli("component") ELSE Cli("publish")
    BY <1>5 DEF Retry, vars, durable, outside, coreVars
  <2>2. TypeOK'
    BY <1>0, <2>1 DEF TypeOK, vars, durable, outside
  <2>3. RunTypeOK'
    BY <1>0, <2>1, <2>2 DEF RunTypeOK
  <2>4. ControlFacts' /\ FileFacts' /\ WholeCore'
    BY <2>1, RunPositions DEF IInv, ControlFacts, FileFacts, WholeCore, DataOld, Published
  <2> QED
    BY <2>1, <2>3, <2>4, ComponentsAside DEF IInv
<1> QED
  BY <1>1, <1>2, <1>3, <1>4, <1>5

\* The steps of recover_empty_restore.
LEMMA PublicationSteps ==
    ASSUME IInv, Publication
    PROVE  IInv'
<1>0. RunTypeOK /\ TypeOK /\ target \in [File -> {"none", "snapshot", "fresh"}]
  BY DEF IInv, RunTypeOK
<1>1. run.pc = "publish" /\ decision \in {"plain", "released"} /\ session.pc = "idle"
  <2>1. run.pc = "publish"
    BY DEF Publication, PublishFile, PublishMarker, CleanupStage, Unlink
  <2> QED
    BY <2>1 DEF IInv, ControlFacts
<1>2. ASSUME NEW f \in File, PublishFile(f)
      PROVE  IInv'
  <2>1. /\ UNCHANGED <<journal, data, archive, paused, session, foreign, decision,
                       stageDir, marker, components, run>>
        /\ target[f] = "none" /\ Publishable(f)
        /\ target' = [target EXCEPT ![f] = "snapshot"] /\ stage' = stage \ {f}
        /\ UNCHANGED vars
    BY <1>2 DEF PublishFile, vars, durable, outside
  <2>2. TypeOK'
    BY <1>0, <2>1 DEF TypeOK, vars, durable, outside
  <2>3. RunTypeOK'
    BY <1>0, <2>1, <2>2 DEF RunTypeOK
  <2>4. /\ target'[f] = "snapshot" /\ \A g \in File : g # f => target'[g] = target[g]
        /\ \A g \in Before(f) : target[g] = "snapshot" /\ g # f
    BY <1>0, <2>1 DEF Publishable
  <2>5. ControlFacts'
    BY <1>1, <2>1 DEF IInv, ControlFacts
  <2>6. \A g \in File : /\ target'[g] # "fresh"
                        /\ target'[g] = "snapshot" => \A e \in Before(g) : target'[e] = "snapshot"
    <3>1. \A g \in File : Before(g) \subseteq File
      BY DEF Before, File
    <3>2. \A g \in File : /\ target[g] # "fresh"
                          /\ target[g] = "snapshot" => \A e \in Before(g) : target[e] = "snapshot"
      BY <1>1 DEF IInv, FileFacts
    <3> QED
      BY <2>4, <3>1, <3>2
  <2>7. FileFacts'
    BY <1>1, <2>1, <2>6 DEF IInv, FileFacts, DataOld
  <2>8. WholeCore'
    <3>1. target'["database"] = "snapshot" =>
            target'["key"] = "snapshot" /\ target'["family_board"] = "snapshot"
      BY <2>6 DEF File, Before
    <3>2. target'["database"] \in {"none", "snapshot"}
      BY <2>3, <2>6 DEF RunTypeOK, File
    <3> QED
      BY <1>1, <2>1, <3>1, <3>2 DEF WholeCore
  <2> QED
    BY <2>1, <2>3, <2>5, <2>7, <2>8, ComponentsAside DEF IInv
<1>3. CASE PublishMarker
  <2>1. /\ UNCHANGED <<journal, data, archive, paused, session, foreign, decision, target, stage,
                       stageDir, components, run>>
        /\ marker' = TRUE /\ UNCHANGED vars
    BY <1>3 DEF PublishMarker, vars, durable, outside
  <2>2. TypeOK'
    BY <1>0, <2>1 DEF TypeOK, vars, durable, outside
  <2>3. RunTypeOK'
    BY <1>0, <2>1, <2>2 DEF RunTypeOK
  <2>4. ControlFacts' /\ FileFacts' /\ WholeCore'
    BY <1>1, <2>1 DEF IInv, ControlFacts, FileFacts, WholeCore, DataOld
  <2> QED
    BY <2>1, <2>3, <2>4, ComponentsAside DEF IInv
<1>4. CASE CleanupStage
  <2>1. /\ UNCHANGED <<journal, data, archive, paused, session, foreign, decision, target,
                       marker, components, run>>
        /\ stage' = {} /\ stageDir' = FALSE /\ leftover' = FALSE
    BY <1>4 DEF CleanupStage, outside
  <2>2. TypeOK'
    <3>1. decision' \in {"none", "plain", "pending", "released"} /\ leftover' \in BOOLEAN
          /\ faults' \in 0..MaxFaults
      BY <1>0, <1>4 DEF CleanupStage, TypeOK
    <3> QED
      BY <1>0, <1>4, <3>1, AsideTypes DEF CleanupStage
  <2>3. RunTypeOK'
    BY <1>0, <2>1, <2>2 DEF RunTypeOK
  <2>4. ControlFacts' /\ FileFacts' /\ WholeCore'
    BY <1>1, <2>1 DEF IInv, ControlFacts, FileFacts, WholeCore, DataOld
  <2> QED
    BY <2>1, <2>3, <2>4, ComponentsAside DEF IInv
<1>5. CASE Unlink
  <2>1. /\ UNCHANGED <<journal, data, archive, paused, session, foreign, target, stage, stageDir,
                       marker, components>>
        /\ decision' = "none" /\ run' = Free /\ Published /\ marker /\ ~stageDir
    BY <1>5 DEF Unlink, Unlinkable, outside, coreVars
  <2>2. TypeOK'
    <3>1. decision' \in {"none", "plain", "pending", "released"} /\ leftover' \in BOOLEAN
          /\ faults' \in 0..MaxFaults
      BY <1>0, <1>5 DEF Unlink, TypeOK
    <3> QED
      BY <1>0, <1>5, <3>1, AsideTypes DEF Unlink
  <2>3. RunTypeOK'
    BY <1>0, <2>1, <2>2 DEF RunTypeOK
  <2>4. \A f \in File : target'[f] = "snapshot"
    BY <2>1 DEF Published
  <2>5. ControlFacts'
    BY <1>1, <2>1, RunPositions DEF ControlFacts
  <2>6. FileFacts'
    BY <2>1, <2>4, RunPositions DEF IInv, FileFacts, File
  <2>7. WholeCore'
    BY <2>1, <2>4 DEF IInv, FileFacts, WholeCore, Published, File
  <2> QED
    BY <1>1, <2>1, <2>3, <2>5, <2>6, <2>7, ComponentsAside DEF IInv
<1> QED
  BY <1>2, <1>3, <1>4, <1>5 DEF Publication

\* The steps of a starting Core.
LEMMA CoreSteps ==
    ASSUME IInv, CoreStep
    PROVE  IInv'
<1>0. RunTypeOK /\ TypeOK /\ target \in [File -> {"none", "snapshot", "fresh"}]
  BY DEF IInv, RunTypeOK
<1>1. /\ UNCHANGED <<journal, data, archive, paused, session, foreign, decision, stage, stageDir,
                     components>>
      /\ UNCHANGED vars
  BY DEF CoreStep, CoreStart, InitializeKey, InitializeDatabase, InitializeMarker,
         vars, durable, outside, coreVars
<1>2. TypeOK'
  BY <1>0, <1>1 DEF TypeOK, vars, durable, outside
<1>3. "key" \in File /\ "database" \in File /\ "family_board" \in File
  BY DEF File
<1>4. CASE CoreStart
  <2>1. /\ UNCHANGED <<target, marker>> /\ run = Free
        /\ \/ run' = [who |-> "core", pc |-> "publish"] /\ decision \notin {"none", "pending"}
           \/ run' = [who |-> "core", pc |-> "initialize"] /\ decision = "none"
              /\ ~(marker /\ target["database"] # "none")
    BY <1>4 DEF CoreStart, coreVars
  <2>2. RunTypeOK'
    BY <1>0, <1>1, <1>2, <2>1 DEF RunTypeOK
  <2>3. session.pc = "idle" /\ decision \in {"none", "plain", "pending", "released"}
    BY <1>0, <2>1, RunPositions DEF IInv, ControlFacts, TypeOK
  <2>4. ControlFacts'
    <3>1. CASE run' = [who |-> "core", pc |-> "publish"] /\ decision \notin {"none", "pending"}
      <4>1. run'.pc = "publish"
        BY <3>1
      <4> QED
        BY <1>1, <2>3, <3>1, <4>1 DEF ControlFacts
    <3>2. CASE /\ run' = [who |-> "core", pc |-> "initialize"] /\ decision = "none"
               /\ ~(marker /\ target["database"] # "none")
      <4>1. run'.pc = "initialize"
        BY <3>2
      <4>2. \A f \in File : target[f] # "snapshot"
        BY <1>3, <3>2 DEF IInv, WholeCore, Published
      <4> QED
        BY <1>1, <2>1, <2>3, <3>2, <4>1, <4>2 DEF ControlFacts
    <3> QED
      BY <2>1, <3>1, <3>2
  <2>5. FileFacts' /\ WholeCore'
    BY <1>1, <2>1 DEF IInv, FileFacts, WholeCore, DataOld, Published
  <2> QED
    BY <1>1, <2>2, <2>4, <2>5, ComponentsAside DEF IInv
<1>5. ASSUME NEW f \in {"key", "database"}, run.pc = "initialize", target[f] = "none",
             f = "database" => target["key"] # "none",
             target' = [target EXCEPT ![f] = "fresh"], UNCHANGED <<marker, run>>
      PROVE  IInv'
  <2>1. decision = "none" /\ \A g \in File : target[g] # "snapshot"
    BY <1>5 DEF IInv, ControlFacts
  <2>2. RunTypeOK'
    BY <1>0, <1>1, <1>2, <1>5 DEF RunTypeOK
  <2>3. \A g \in File : target'[g] = IF g = f THEN "fresh" ELSE target[g]
    BY <1>0, <1>3, <1>5
  <2>4. \A g \in File : target'[g] # "snapshot"
    BY <2>1, <2>3
  <2>5. ControlFacts'
    BY <1>1, <1>5, <2>1, <2>4 DEF IInv, ControlFacts
  <2>6. FileFacts'
    BY <1>1, <2>1, <2>4 DEF IInv, FileFacts, DataOld
  <2>7. target'["database"] # "none" => target'["key"] = target'["database"]
    <3>1. target["key"] \in {"none", "fresh"} /\ target["database"] \in {"none", "fresh"}
      BY <1>0, <1>3, <2>1
    <3>2. target["database"] # "none" => target["key"] = target["database"]
      BY DEF IInv, WholeCore
    <3> QED
      BY <1>3, <1>5, <2>3, <3>1, <3>2
  <2>8. WholeCore'
    BY <1>3, <2>4, <2>7 DEF WholeCore
  <2> QED
    BY <1>1, <2>2, <2>5, <2>6, <2>8, ComponentsAside DEF IInv
<1>6. CASE InitializeKey
  BY <1>5, <1>6 DEF InitializeKey
<1>7. CASE InitializeDatabase
  BY <1>5, <1>7 DEF InitializeDatabase
<1>8. CASE InitializeMarker
  <2>1. UNCHANGED target /\ marker' = TRUE /\ run' = Free /\ run.pc = "initialize"
    BY <1>8 DEF InitializeMarker
  <2>2. RunTypeOK'
    BY <1>0, <1>1, <1>2, <2>1 DEF RunTypeOK
  <2>3. ControlFacts' /\ FileFacts' /\ WholeCore'
    BY <1>1, <2>1, RunPositions DEF IInv, ControlFacts, FileFacts, WholeCore, DataOld, Published
  <2> QED
    BY <1>1, <2>2, <2>3, ComponentsAside DEF IInv
<1> QED
  BY <1>4, <1>6, <1>7, <1>8 DEF CoreStep

-----------------------------------------------------------------------------
(* The surroundings *)

\* The deadline passes, a service writes, or somebody else pauses or unpauses.
LEMMA EnvironmentStep ==
    ASSUME IInv, RestoreEnvironment, UNCHANGED <<coreVars, run>>
    PROVE  IInv'
<1>0. RunTypeOK /\ TypeOK
  BY DEF IInv, RunTypeOK
<1>1. UNCHANGED <<journal, data, archive, staging, decision, leftover, session>>
  BY DEF RestoreEnvironment, Expire, Write, Meddle, durable
<1>2. ControlFacts' /\ FileFacts' /\ WholeCore'
  BY <1>1 DEF IInv, ControlFacts, FileFacts, WholeCore, coreVars, Published, DataOld
<1>3. ASSUME UNCHANGED <<paused, foreign>>, TypeOK'
      PROVE  IInv'
  <2>1. RunTypeOK'
    BY <1>0, <1>3 DEF RunTypeOK, coreVars
  <2> QED
    BY <1>1, <1>2, <1>3, <2>1, ComponentsAside DEF IInv
<1>4. CASE Expire
  <2>1. faults' \in 0..MaxFaults
    BY <1>0, <1>4, FaultsBounded DEF Expire
  <2>2. TypeOK'
    BY <1>0, <1>4, <2>1 DEF Expire, TypeOK, durable, outside
  <2> QED
    BY <1>3, <1>4, <2>2 DEF Expire, outside
<1>5. ASSUME NEW v \in Volume, Write(v)
      PROVE  IInv'
  <2>1. touched' \in [Volume -> BOOLEAN]
    BY <1>0, <1>5 DEF Write, TypeOK
  <2>2. TypeOK'
    BY <1>0, <1>5, <2>1 DEF Write, TypeOK, outside
  <2> QED
    BY <1>3, <1>5, <2>2 DEF Write, outside
<1>6. ASSUME NEW c \in Container, Meddle(c)
      PROVE  IInv'
  <2>1. paused' \in SUBSET Container /\ foreign' \in BOOLEAN /\ meddling' \in 0..MaxMeddling
    <3>1. paused \in SUBSET Container /\ foreign \in BOOLEAN
      BY <1>0 DEF TypeOK
    <3>2. paused' \in SUBSET Container
      BY <1>6, <3>1 DEF Meddle
    <3>3. foreign' \in BOOLEAN
      BY <1>6, <3>1 DEF Meddle
    <3>4. meddling' \in 0..MaxMeddling
      BY <1>0, <1>6, RestoreAssumption DEF Meddle, TypeOK
    <3> QED
      BY <3>2, <3>3, <3>4
  <2>2. TypeOK'
    BY <1>0, <1>6, <2>1 DEF Meddle, TypeOK, durable
  <2>3. RunTypeOK'
    BY <1>0, <2>2 DEF RunTypeOK, coreVars
  <2>4. JournalFacts' /\ EvidenceKept'
    BY <1>1 DEF IInv, JournalFacts, EvidenceKept, DataOld, DataNew, Uniform
  <2>5. RestoreFacts'
    BY <1>1 DEF IInv, RestoreFacts, DataOld, DataNew
  <2>6. RecoverFacts'
    BY <1>1 DEF IInv, RecoverFacts, DataOld, DataNew, Uniform
  <2>7. \/ paused \subseteq paused' /\ foreign' = foreign
        \/ foreign' = TRUE
        \/ journal.phase \in {"none", "other"}
    BY <1>6 DEF Meddle, Ours
  <2>8. foreign' \/ session'.adopted \subseteq paused'
    BY <1>1, <2>7 DEF IInv, SessionFacts
  <2>9. SessionFacts'
    BY <1>1, <2>8 DEF IInv, SessionFacts, DataOld
  <2>10. Quiet'
    <3>1. CASE journal.phase \in {"none", "other"}
      BY <1>1, <3>1 DEF IInv, JournalFacts, Quiet, Uniform, DataOld, DataNew
    <3>2. CASE paused \subseteq paused' /\ foreign' = foreign
      BY <1>1, <2>1, <3>2 DEF IInv, Quiet, Uniform, DataOld, DataNew
    <3>3. CASE foreign' = TRUE
      BY <3>3 DEF Quiet
    <3> QED
      BY <2>7, <3>1, <3>2, <3>3
  <2> QED
    BY <1>2, <2>3, <2>4, <2>5, <2>6, <2>9, <2>10 DEF IInv
<1> QED
  BY <1>4, <1>5, <1>6 DEF RestoreEnvironment

-----------------------------------------------------------------------------
(* The theorems *)

\* An empty target, no journal of this snapshot and the volumes as they were.
LEMMA InitIInv == Init => IInv
<1> SUFFICES ASSUME Init PROVE IInv
  OBVIOUS
<1>0. /\ RestoreInit /\ target = [f \in File |-> "none"] /\ stage = {} /\ stageDir = FALSE
      /\ marker = FALSE /\ run = Free /\ components \in BOOLEAN
  BY DEF Init
<1>1. Over(session) /\ session.pc = "idle"
  BY <1>0, OverSessions DEF RestoreInit
<1>2. journal \in JournalType /\ journal.phase \in {"none", "other"} /\ journal.stages = 0
  <2>1. 0 \in 0..Volumes
    BY RestoreAssumption
  <2>2. CASE journal = NoJournal
    BY <2>1, <2>2 DEF NoJournal, JournalType
  <2>3. CASE journal = OtherJournal
    <3>1. journal = [phase |-> "other", paused |-> FALSE, rollbacks |-> 0, stages |-> 0]
      BY <2>3 DEF OtherJournal, NoJournal
    <3> QED
      BY <2>1, <3>1 DEF JournalType
  <2> QED
    BY <1>0, <2>2, <2>3 DEF RestoreInit
<1>3. DataOld /\ paused = {} /\ decision = "none"
  BY <1>0 DEF RestoreInit, DataOld
<1>4. TypeOK
  <2>1. session \in SessionType
    BY <1>1 DEF Over
  <2>2. 0 \in 0..MaxFaults /\ 0 \in 0..MaxMeddling
    BY RestoreAssumption
  <2> QED
    BY <1>0, <1>2, <2>1, <2>2 DEF RestoreInit, TypeOK, SessionType, JournalType
<1>5. RunTypeOK
  BY <1>0, <1>4 DEF RunTypeOK
<1>6. JournalFacts /\ EvidenceKept /\ Quiet
  BY <1>2, <1>3 DEF JournalFacts, EvidenceKept, Quiet, Uniform, DataOld, PreCommit
<1>7. RestoreFacts /\ RecoverFacts /\ SessionFacts
  BY <1>1 DEF RestoreFacts, RecoverFacts, SessionFacts, Over
<1>8. \A f \in File : target[f] = "none"
  BY <1>0
<1>9. ControlFacts /\ FileFacts /\ WholeCore
  <2>1. "database" \in File
    BY DEF File
  <2> QED
    BY <1>0, <1>1, <1>3, <1>8, <2>1, RunPositions DEF ControlFacts, FileFacts, WholeCore
<1> QED
  BY <1>5, <1>6, <1>7, <1>9 DEF IInv

\* Every step keeps the invariant.
LEMMA NextIInv ==
    ASSUME IInv, [Next]_allVars
    PROVE  IInv'
<1>1. CASE Begin \/ Discard
  BY <1>1, StageDirSteps
<1>2. CASE CliStep
  <2>1. ASSUME SessionStep, UNCHANGED <<coreVars, run>> PROVE IInv'
    BY <2>1, PersistStep, CheckpointStep, ClearStep, AcquireStep, QuiescedStep, ReleasedStep,
       CaptureStep, StageStep, RevalidateStep, CommitStep, ReopenStep, RollbackStep, FinalizeStep,
       PauseStep, UnpauseStep
    DEF SessionStep
  <2>2. CASE Call
    <3>1. /\ run.pc = "component" /\ UNCHANGED <<coreVars, run>>
          /\ (journal.phase = "none" /\ StartRestore) \/ StartRecover
      BY <2>2 DEF Call
    <3>2. run = Cli("component")
      BY <3>1 DEF IInv, RunTypeOK, Free, Cli
    <3> QED
      BY <3>1, <3>2, StartRestoreStep, StartRecoverStep
  <2>5. CASE FirstCall
    BY <2>5, StartRestoreStep DEF FirstCall
  <2>3. CASE (\E f \in File : StageFile(f)) \/ Promote \/ Retry
    BY <2>3, StageDirSteps
  <2>4. CASE CallEnds
    BY <2>4, CallEndsStep
  <2> QED
    BY <1>2, <2>1, <2>2, <2>3, <2>4, <2>5 DEF CliStep
<1>3. CASE Publication
  BY <1>3, PublicationSteps
<1>4. CASE CoreStep
  BY <1>4, CoreSteps
<1>5. CASE Kill
  BY <1>5, KillStep
<1>6. CASE RestoreEnvironment /\ UNCHANGED <<coreVars, run>>
  BY <1>6, EnvironmentStep
<1>7. CASE UNCHANGED allVars
  <2>1. /\ UNCHANGED <<journal, data, archive, paused, session, foreign, decision>>
        /\ UNCHANGED vars /\ UNCHANGED <<coreVars, run>>
    BY <1>7 DEF allVars, vars, durable, outside
  <2>2. TypeOK'
    BY <2>1 DEF IInv, RunTypeOK, TypeOK, vars, durable, outside
  <2>3. RunTypeOK' /\ ControlFacts' /\ FileFacts' /\ WholeCore'
    BY <2>1, <2>2 DEF IInv, RunTypeOK, ControlFacts, FileFacts, WholeCore, coreVars, Published, DataOld
  <2> QED
    BY <2>1, <2>3, ComponentsAside DEF IInv
<1> QED
  BY <1>1, <1>2, <1>3, <1>4, <1>5, <1>6, <1>7 DEF Next

\* What journals, sessions, volumes and files have to do with each other, at any
\* time of a restore: the invariant behind the theorems below.
THEOREM RestoreInvariant == Spec => []IInv
<1>1. Init => IInv
  BY InitIInv
<1>2. IInv /\ [Next]_allVars => IInv'
  BY NextIInv
<1> QED
  BY <1>1, <1>2, PTL DEF Spec

\* Every variable keeps its type, through any number of kills and recoveries
\* (CoreRestore, RunTypeOK).
THEOREM RestoreTypeCorrect == Spec => []RunTypeOK
<1>1. IInv => RunTypeOK
  BY DEF IInv
<1> QED
  BY <1>1, RestoreInvariant, PTL

\* _component_restore: unless somebody else unpauses a container meanwhile, the
\* services that run see volumes of one generation, and none that is half
\* switched.
THEOREM OneGenerationSeen == Spec => []OneGeneration
<1>1. IInv => OneGeneration
  <2> SUFFICES ASSUME IInv PROVE OneGeneration
    OBVIOUS
  <2>1. Owner \in [Volume -> Container]
    BY RestoreAssumption
  <2> QED
    BY <2>1 DEF IInv, Quiet, Uniform, DataOld, DataNew, OneGeneration
<1> QED
  BY <1>1, RestoreInvariant, PTL

\* A volume that is half switched has its archive, and a journal that names it.
THEOREM EvidenceNeverLost == Spec => []EvidenceKept
<1>1. IInv => EvidenceKept
  BY DEF IInv
<1> QED
  BY <1>1, RestoreInvariant, PTL

\* restore_empty and _initialize: the key, the board and the database that Core
\* opens belong together.
THEOREM CoreWhole == Spec => []WholeCore
<1>1. IInv => WholeCore
  BY DEF IInv
<1> QED
  BY <1>1, RestoreInvariant, PTL

\* Only the exchange of a tree and its rollback touch the volumes, and they are
\* done before Core's decision: after "released" nothing changes them.
THEOREM DecisionKept == Spec => DecisionFinal
<1>1. ASSUME IInv, [Next]_allVars, decision = "released"
      PROVE  data' = data
  <2>1. ASSUME Commit \/ Rollback PROVE FALSE
    <3>1. session.pc = "effect"
      BY <2>1 DEF Commit, Rollback, Ready, At
    <3> QED
      BY <1>1, <3>1, Working
  <2>2. CASE SessionStep
    BY <2>1, <2>2 DEF SessionStep, Persist, Checkpoint, Clear, Acquire, Quiesced, Released, Capture,
                      Stage, Revalidate, Reopen, Finalize, Pause, Unpause, durable
  <2>3. CASE Begin \/ Discard \/ Publication \/ CoreStep \/ Kill
    BY <2>3 DEF Begin, Discard, Publication, PublishFile, PublishMarker, CleanupStage, Unlink,
                CoreStep, CoreStart, InitializeKey, InitializeDatabase, InitializeMarker, Kill,
                vars, durable
  <2>4. CASE (\E f \in File : StageFile(f)) \/ Promote \/ Retry \/ FirstCall \/ Call \/ CallEnds
    BY <2>4 DEF StageFile, Promote, Retry, FirstCall, Call, StartRestore, StartRecover, CallEnds, vars, durable
  <2>5. CASE RestoreEnvironment
    BY <2>5 DEF RestoreEnvironment, Expire, Write, Meddle, durable
  <2>6. CASE UNCHANGED allVars
    BY <2>6 DEF allVars, vars, durable
  <2> QED
    BY <1>1, <2>2, <2>3, <2>4, <2>5, <2>6 DEF Next, CliStep
<1>2. IInv /\ [Next]_allVars => [decision = "released" => data' = data]_allVars
  BY <1>1
<1> QED
  BY <1>2, RestoreInvariant, PTL DEF Spec, DecisionFinal
=============================================================================
