----------------------------- MODULE CoreRestore -----------------------------
(***************************************************************************)
(* The offline restore of a backup into an empty Core target               *)
(* (core_backups/restore.py) together with the restore of the components'  *)
(* volumes (ComponentRestore), and the initialisation of Core              *)
(* (core.py, _initialize) that completes or refuses an interrupted one.    *)
(*                                                                         *)
(* The command and a starting Core take turns under .initialize.lock; each *)
(* can be killed between any two of its writes.                            *)
(***************************************************************************)
EXTENDS ComponentRestore

VARIABLES
    target,      \* what is at the path of each of Core's files
    stage,       \* the files that are staged beside the target
    stageDir,    \* whether the stage directory exists
    marker,      \* whether .initialized exists
    run,         \* who holds .initialize.lock, and where it is
    components   \* whether the bundle has component payloads

coreVars == <<target, stage, stageDir, marker, components>>
allVars == <<vars, coreVars, run>>

\* In the order they are published; the database comes last.
File == {"key", "family_board", "database"}
Before(f) == CASE f = "key" -> {} [] f = "family_board" -> {"key"}
               [] OTHER -> {"key", "family_board"}

Free == [who |-> "nobody", pc |-> "idle"]
Cli(pc) == [who |-> "cli", pc |-> pc]

RunTypeOK ==
    /\ TypeOK
    /\ target \in [File -> {"none", "snapshot", "fresh"}]
    /\ stage \in SUBSET File
    /\ stageDir \in BOOLEAN /\ marker \in BOOLEAN /\ components \in BOOLEAN
    /\ run \in {Free} \cup {Cli(pc) : pc \in {"stage", "promote", "first", "component",
                                         "publish"}}
               \cup {[who |-> "core", pc |-> pc] : pc \in {"publish", "initialize"}}

Init ==
    /\ RestoreInit
    /\ target = [f \in File |-> "none"] /\ stage = {} /\ stageDir = FALSE
    /\ marker = FALSE /\ run = Free /\ components \in BOOLEAN

Empty == stage = {} /\ ~stageDir /\ ~marker /\ target = [f \in File |-> "none"]

-----------------------------------------------------------------------------
(* restore_empty *)

\* A new restore: the target has to be empty.
Begin ==
    /\ run = Free /\ decision = "none" /\ Empty
    /\ run' = Cli("stage") /\ stageDir' = TRUE
    /\ UNCHANGED <<vars, target, stage, marker, components>>

\* _cleanup_stage, when anything fails before the journal is there.
Discard ==
    /\ run.pc \in {"stage", "promote"} /\ Fault
    /\ run' = Free /\ stage' = {} /\ stageDir' = FALSE /\ leftover' = FALSE
    /\ UNCHANGED <<journal, data, touched, archive, staging, decision, paused,
                   session, late, outside, target, marker, components>>

\* The database, the board and last the key; then every service of Core is
\* constructed on them.
StageFile(f) ==
    /\ run.pc = "stage" /\ f \notin stage
    /\ f = "key" => stage = File \ {"key"}
    /\ f = "family_board" => "database" \in stage
    /\ stage' = stage \cup {f}
    /\ run' = IF stage' = File THEN Cli("promote") ELSE run
    /\ UNCHANGED <<vars, target, stageDir, marker, components>>

\* _replace_journal; if there are components, their coordinator is called next.
Promote ==
    /\ run.pc = "promote"
    /\ \/ /\ ~leftover /\ leftover' = TRUE
          /\ UNCHANGED <<decision, run>>
       \/ /\ leftover /\ leftover' = FALSE
          /\ decision' = IF components THEN "pending" ELSE "plain"
          /\ run' = IF components THEN Cli("first") ELSE Cli("publish")
    /\ UNCHANGED <<journal, data, touched, archive, staging, paused, session, late,
                   outside, faults, coreVars>>

\* Mutant: the components are restored again when they were already.
RetryAgain ==
    /\ run = Free /\ decision \in {"pending", "released"}
    /\ run' = Cli("component")
    /\ UNCHANGED <<vars, coreVars>>

\* The command is given again for a restore that was interrupted; one without
\* components is left to the start of Core.
Retry ==
    /\ run = Free /\ decision \in {"pending", "released"}
    /\ run' = IF decision = "pending" THEN Cli("component") ELSE Cli("publish")
    /\ UNCHANGED <<vars, coreVars>>

\* A new restore calls restore, whatever journal there is.
FirstCall ==
    /\ run.pc = "first" /\ StartRestore
    /\ run' = Cli("component") /\ UNCHANGED coreVars

\* A repeated one looks for the journal first.
Call ==
    /\ run.pc = "component"
    /\ \/ journal.phase = "none" /\ StartRestore
       \/ journal.phase # "none" /\ StartRecover
    /\ UNCHANGED <<coreVars, run>>

CallEnds ==
    /\ run.pc = "component" /\ session.pc \in {"returned", "raised"}
    /\ session' = NoSession
    /\ run' = IF session.pc = "returned" /\ decision = "released"
              THEN Cli("publish") ELSE Free
    /\ UNCHANGED <<durable, paused, late, outside, faults, coreVars>>

-----------------------------------------------------------------------------
(* recover_empty_restore, for the command and for the start of Core *)


\* Mutant: the database is published first.
PublishableDatabase(f) == f = "database" \/ target["database"] = "snapshot"

Publishable(f) == \A g \in Before(f) : target[g] = "snapshot"

PublishFile(f) ==
    /\ run.pc = "publish" /\ target[f] # "snapshot" /\ Publishable(f)
    /\ target[f] = "none" /\ f \in stage
    /\ target' = [target EXCEPT ![f] = "snapshot"] /\ stage' = stage \ {f}
    /\ UNCHANGED <<vars, stageDir, marker, components, run>>

Published == \A f \in File : target[f] = "snapshot"

PublishMarker ==
    /\ run.pc = "publish" /\ Published /\ ~marker /\ marker' = TRUE
    /\ UNCHANGED <<vars, target, stage, stageDir, components, run>>

CleanupStage ==
    /\ run.pc = "publish" /\ Published /\ marker /\ stageDir
    /\ stage' = {} /\ stageDir' = FALSE /\ leftover' = FALSE
    /\ UNCHANGED <<journal, data, touched, archive, staging, decision, paused,
                   session, late, outside, faults, target, marker, components, run>>

Unlinkable == Published /\ marker /\ ~stageDir

Unlink ==
    /\ run.pc = "publish" /\ Unlinkable
    /\ decision' = "none" /\ run' = Free
    /\ UNCHANGED <<journal, data, touched, archive, staging, leftover, paused,
                   session, late, outside, faults, coreVars>>

-----------------------------------------------------------------------------
(* The start of Core *)

\* A pending decision keeps Core closed, and so do a marker without a database
\* and a database without its key.
CoreStart ==
    /\ run = Free /\ decision # "pending"
    /\ \/ /\ decision # "none" /\ run' = [who |-> "core", pc |-> "publish"]
       \/ /\ decision = "none" /\ ~(marker /\ target["database"] # "none")
          /\ target["database"] = "none" => ~marker
          /\ target["database"] # "none" => target["key"] = target["database"]
          /\ run' = [who |-> "core", pc |-> "initialize"]
    /\ UNCHANGED <<vars, coreVars>>

\* A key, the database with its first administrator, and the marker.
InitializeKey ==
    /\ run.pc = "initialize" /\ target["key"] = "none"
    /\ target' = [target EXCEPT !["key"] = "fresh"]
    /\ UNCHANGED <<vars, stage, stageDir, marker, components, run>>

InitializeDatabase ==
    /\ run.pc = "initialize" /\ target["key"] # "none" /\ target["database"] = "none"
    /\ target' = [target EXCEPT !["database"] = "fresh"]
    /\ UNCHANGED <<vars, stage, stageDir, marker, components, run>>

InitializeMarker ==
    /\ run.pc = "initialize" /\ target["database"] # "none"
    /\ marker' = TRUE /\ run' = Free
    /\ UNCHANGED <<vars, target, stage, stageDir, components>>

-----------------------------------------------------------------------------
Kill ==
    /\ run # Free /\ Fault
    /\ run' = Free /\ session' = NoSession
    /\ UNCHANGED <<durable, paused, late, outside, coreVars>>

CliStep ==
    \/ \E f \in File : StageFile(f)
    \/ Promote \/ Retry \/ FirstCall \/ Call \/ CallEnds
    \/ SessionStep /\ UNCHANGED <<coreVars, run>>
Publication == (\E f \in File : PublishFile(f)) \/ PublishMarker \/ CleanupStage \/ Unlink
CoreStep == CoreStart \/ InitializeKey \/ InitializeDatabase \/ InitializeMarker

Next ==
    \/ Begin \/ Discard \/ CliStep \/ Publication \/ CoreStep \/ Kill
    \/ RestoreEnvironment /\ UNCHANGED <<coreVars, run>>

\* The command runs to its end unless it is killed, and is given again until
\* it succeeds; Core is started again until it is up.
Fairness == WF_allVars(CliStep) /\ WF_allVars(Publication) /\ WF_allVars(CoreStep)

Spec == Init /\ [][Next]_allVars /\ Fairness

-----------------------------------------------------------------------------
(* Properties *)

\* Unless somebody else unpauses a container meanwhile, no service ever runs on
\* a volume that is half switched, and no two services on volumes of different
\* generations: through every failure, kill and recovery.
OneGeneration ==
    \/ foreign
    \/ /\ \A v \in Volume : Owner[v] \notin paused => data[v] # "mixed"
       /\ \A v, w \in Volume :
            Owner[v] \notin paused /\ Owner[w] \notin paused => data[v] = data[w]

\* A volume that is half switched has its archive, and a journal that names the
\* archive and is not finished.
EvidenceKept ==
    \A v \in Volume : data[v] = "mixed" =>
        /\ archive[v] /\ v <= journal.rollbacks
        /\ journal.phase \in PreCommit \cup {"committed"}

\* Once Core's decision is "released", nothing changes the volumes any more.
DecisionFinal == [][decision = "released" => data' = data]_allVars

\* The database that Core opens is the one its key was made for, and the board
\* belongs to it; where the journal is gone, everything was published.
WholeCore ==
    /\ target["database"] # "none" => target["key"] = target["database"]
    /\ target["database"] = "snapshot" => target["family_board"] = "snapshot"
    /\ decision = "none" /\ (\E f \in File : target[f] = "snapshot") =>
         Published /\ marker /\ ~stageDir /\ stage = {}


\* A restore with components that was interrupted can be repeated until it is done
\* (docs/testing/s09-2-empty-component-restore.tdd.md: an "exact authenticated
\* retry reconciles the component journal before publishing Core").
RestoreEnds == decision = "pending" ~> decision = "none" /\ Published

\* restore_empty: "Validate off-target, then journal and publish every captured
\* resource."
PublishesEverything ==
    components /\ target["database"] = "snapshot" => \A v \in Volume : data[v] = "new"
=============================================================================
