------------------------ MODULE DatabaseProvisioning ------------------------
(***************************************************************************)
(* The job that creates and migrates the Mainnet databases, and the import *)
(* of its report. A run works on the checkout it started from, while the   *)
(* repository gains migrations; any command of a run may fail, half done,  *)
(* and the run is then started again.                                      *)
(***************************************************************************)
EXTENDS ReleaseDocuments, Integers

CONSTANT MaxMigrations     \* bound: migration files the repository ever has

ASSUME MigrationsAssumption == MaxMigrations \in Nat \ {0}

VARIABLES docs,      \* the documents of the default branch
          files,     \* how many migration files it has
          remote,    \* migrations applied to each database; Absent: no database
          run,       \* the provisioning run: its step and its checkout's files
          reports,   \* verified reports, by migration count
          runs       \* bound: runs still to be started

dbVars == <<files, remote, run, reports, runs>>

Absent == -1
Databases == {"production", "preview"}
NoRun == [step |-> "none", files |-> 0]

\* Initial safe defaults or the reviewed halted target; nothing else may be provisioned.
Classify(d) == CASE d.vars = "closed" -> "initial-disabled"
                 [] d.vars = "reviewed" /\ d.ids = "real" -> "reviewed-halted"
                 [] OTHER -> "refused"

BothExist == \A db \in Databases : remote[db] # Absent
Goto(step) == run' = [run EXCEPT !.step = step]

StartRun ==
    /\ run = NoRun /\ runs > 0
    /\ EvidenceIsSound(docs) /\ AcceptanceIsSound(docs)
    /\ Classify(docs) # "refused"
    /\ Classify(docs) = "reviewed-halted" => BothExist
    /\ runs' = runs - 1
    /\ run' = [step |-> IF BothExist THEN "preview" ELSE "create", files |-> files]
    /\ UNCHANGED <<docs, files, remote, reports>>

\* The missing databases are created one after the other, production first.
CreateDatabase ==
    /\ run.step = "create"
    /\ IF remote["production"] = Absent
       THEN remote' = [remote EXCEPT !["production"] = 0] /\ run' = run
       ELSE remote' = [remote EXCEPT !["preview"] = 0] /\ Goto("preview")
    /\ UNCHANGED <<docs, files, reports, runs>>

\* Mutant: what works on the preview database is taken to work in production.
PreviewIsEnough(step) == "report"

NextDatabase(step) == CASE step = "preview" -> "production"
                        [] step = "production" -> "report"

\* wrangler d1 migrations apply, then the count is read back and compared.
Migrate(db) ==
    /\ run.step = db
    /\ \E n \in remote[db] .. run.files :
         /\ remote' = [remote EXCEPT ![db] = n]
         /\ IF n = run.files THEN Goto(NextDatabase(db)) ELSE run' = NoRun
    /\ UNCHANGED <<docs, files, reports, runs>>

RunFails ==
    /\ run.step # "none"
    /\ run' = NoRun
    /\ UNCHANGED <<docs, files, remote, reports, runs>>

ReportRun ==
    /\ run.step = "report"
    /\ reports' = reports \cup {run.files}
    /\ run' = NoRun
    /\ UNCHANGED <<docs, files, remote, runs>>

AddMigration ==
    /\ files < MaxMigrations /\ runs > 0
    /\ files' = files + 1
    /\ UNCHANGED <<docs, remote, run, reports, runs>>

\* The first report is imported while the Worker is closed; replays change nothing.
ImportProvisioning(n) ==
    /\ n \in reports /\ ImportAllowed(docs, "d1")
    /\ "d1" \in docs.evidence => docs.migrations = n
    /\ docs' = [Imported(docs, "d1") EXCEPT !.migrations = n]
    /\ UNCHANGED dbVars

\* Later reports replace the accepted record of the reviewed halted target.
ImportForward(n) ==
    /\ n \in reports /\ n > docs.migrations
    /\ docs.decision = "blocked" /\ docs.vars = "reviewed"
    /\ {"d1", "release"} \subseteq docs.evidence /\ "d1" \in docs.cleared
    /\ docs' = [docs EXCEPT !.migrations = n]
    /\ UNCHANGED dbVars

DatabaseNext ==
    \/ StartRun \/ CreateDatabase \/ RunFails \/ ReportRun \/ AddMigration
    \/ \E db \in Databases : Migrate(db)
    \/ \E n \in 1 .. MaxMigrations : ImportProvisioning(n) \/ ImportForward(n)
------------------------------------------------------------------------------
(* Properties.                                                             *)

\* Production is never ahead of the preview database that proved its migrations,
\* and accepted database evidence counts migrations production really has.
DatabaseEvidenceIsTrue ==
    /\ remote["production"] > 0 => remote["production"] <= remote["preview"]
    /\ "d1" \in docs.evidence => docs.migrations \in 1 .. remote["production"]
=============================================================================
