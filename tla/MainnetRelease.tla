--------------------------- MODULE MainnetRelease ---------------------------
(***************************************************************************)
(* The release of the Mainnet program: operators import evidence reports   *)
(* and edit the documents, deployment jobs check them and replace the      *)
(* production Worker, acceptance windows open it for minutes to whoever    *)
(* holds their token, and the Worker decides from its variables and the    *)
(* clock which requests it serves. A file may be half imported, a document *)
(* edited wrongly, a command may fail, a job may be killed.                *)
(***************************************************************************)
EXTENDS DatabaseProvisioning

CONSTANTS WindowTicks,     \* 25 minutes, in ticks of the clock
          MaxTrouble,      \* bound: wrong edits, and imports, commands or jobs that fail
          MaxRuns          \* bound: provisioning runs

ASSUME WindowAssumption == WindowTicks \in Nat \ {0}

VARIABLES live,     \* the production Worker
          window,   \* ticks left of each asset's window; Unprepared: no token exists
          job,      \* the deployment job, one at a time
          seen,     \* what jobs saw and left: "halted", "public", "unclosed"
          trial,    \* the acceptance payment of each asset
          trouble

relVars == <<live, window, job, seen, trial, trouble>>
vars == <<docs, dbVars, relVars>>

Unprepared == -1
Assets == {"xrp", "rlusd"}
NoToken == "none"          \* a request that carries no token
Operations == {"create", "verify"}

Worker(mode) == [mode |-> mode, window |-> NoToken]
NoJob == [step |-> "idle", started |-> FALSE, closable |-> FALSE]
Fail == trouble < MaxTrouble /\ trouble' = trouble + 1
------------------------------------------------------------------------------
(* The Worker.                                                             *)

\* Mutant: the end of the window is only compared when it is configured.
NeverExpired(w) == FALSE

Expired(w) == window[w] <= 0

\* internal and not halted: an acceptance window, halted for good when it ends.
OperationsMode ==
    IF live.mode \in {"enabled", "verify-only"} /\ Expired(live.window) THEN "halted"
    ELSE live.mode

OperationAllowed(op) ==
    OperationsMode \in ({"public", "enabled"}
        \cup (IF op = "verify" THEN {"verify-only"} ELSE {}))

\* Mutant: the token is not asked for.
NoTokenNeeded(token) == TRUE

\* In a window every payment request carries its token.
Authorized(token) ==
    live.mode \in {"enabled", "verify-only"} =>
        token = live.window /\ ~Expired(live.window)

Serves(op, token) == OperationAllowed(op) /\ Authorized(token)
StatusEndpoint == CASE OperationsMode = "public" -> "enabled"
                    [] OperationsMode = "none" -> "unreachable"
                    [] OTHER -> OperationsMode
------------------------------------------------------------------------------
(* Acceptance windows.                                                     *)

\* The committed modes are internal and halted, which of all variables the reviewed
\* ones are, and the database is not its own preview, which the placeholders are.
CommittedTargetIsHalted(d) == d.vars = "reviewed" /\ d.ids # "placeholder"

WindowAllowed(asset) ==
    /\ CommittedTargetIsHalted(docs)
    /\ asset = "rlusd" =>
          /\ docs.plan.stage = RlusdStage /\ ~docs.plan.approved
          /\ docs.plan.remaining = {"rlusd"}
          /\ "xrp" \in docs.evidence /\ "rlusd" \notin docs.evidence
          /\ OpenFindings(docs) = {"rlusd"}

\* One token and three Worker configurations: enabled, verify-only and halted.
PrepareWindow(asset) ==
    /\ window[asset] = Unprepared /\ WindowAllowed(asset)
    /\ window' = [window EXCEPT ![asset] = WindowTicks]
    /\ UNCHANGED <<docs, dbVars, live, job, seen, trial, trouble>>

\* The operator deploys them by hand, beside any job, early or late.
DeployWindow(asset, mode) ==
    /\ window[asset] # Unprepared
    /\ live' = IF mode = "halted" THEN Worker("halted") ELSE [mode |-> mode, window |-> asset]
    /\ UNCHANGED <<docs, dbVars, window, job, seen, trial, trouble>>

Tick ==
    /\ \E w \in Assets : window[w] > 0
    /\ window' = [w \in Assets |-> IF window[w] > 0 THEN window[w] - 1 ELSE window[w]]
    /\ UNCHANGED <<docs, dbVars, live, job, seen, trial, trouble>>

\* The acceptance payment of an asset: requested, paid and verified in its window.
TrialPayment(asset) ==
    /\ \/ trial[asset] = "none" /\ Serves("create", asset)
          /\ trial' = [trial EXCEPT ![asset] = "requested"]
       \/ trial[asset] = "requested" /\ Serves("verify", asset)
          /\ trial' = [trial EXCEPT ![asset] = "settled"]
    /\ live.window = asset
    /\ UNCHANGED <<docs, dbVars, live, window, job, seen, trouble>>
------------------------------------------------------------------------------
(* Documents.                                                              *)

\* Reports are honest: of what was seen of the halted Worker, and of payments.
ReportExists(e) ==
    CASE e = "release" -> "halted" \in seen
      [] e \in Assets -> trial[e] = "settled" /\ StatusEndpoint = "halted"
      [] OTHER -> TRUE

Import(e) ==
    /\ e # "d1" /\ ReportExists(e) /\ ImportAllowed(docs, e)
    /\ docs' = Imported(docs, e)
    /\ UNCHANGED <<dbVars, relVars>>

\* The files are written at once; the importer dies when some of them are.
Changed(d, new) == {f \in DOMAIN Files : \E k \in Files[f] : d[k] # new[k]}
ImportStops(e) ==
    /\ e # "d1" /\ ReportExists(e) /\ ImportAllowed(docs, e) /\ Fail
    /\ \E new \in {Imported(docs, e)} : \E some \in SUBSET Changed(docs, new) :
          docs' = Written(docs, new, some)
    /\ UNCHANGED <<dbVars, live, window, job, seen, trial>>

\* By hand the plan follows the evidence, a blocked gate names what its text left out,
\* and when all evidence is accepted, the plan, the acceptance audit and the gate are
\* approved, one file after the other; the text of a ready gate names nothing.
Revisions(d) ==
    {[d EXCEPT !.plan = CurrentPlan(d.evidence, @.approved)]}
    \cup (IF d.gate = "blocked" /\ ~(OpenFindings(d) \subseteq d.named)
          THEN {[d EXCEPT !.named = OpenFindings(d)]} ELSE {})
    \cup IF d.evidence # Evidence THEN {}
         ELSE {[d EXCEPT !.plan = CurrentPlan(d.evidence, TRUE)],
               [d EXCEPT !.decision = "approved", !.audit = "passed"],
               [d EXCEPT !.gate = "ready", !.named = {}]}

EditDocument ==
    /\ docs' \in Revisions(docs) \ {docs}
    /\ UNCHANGED <<dbVars, relVars>>

\* A file is edited too early, or wrongly.
Mistakes(d) == {
    [d EXCEPT !.plan = CurrentPlan(d.evidence, TRUE)],
    [d EXCEPT !.plan.stage = XrpStage],
    [d EXCEPT !.decision = "approved", !.audit = "passed", !.cleared = Evidence],
    [d EXCEPT !.decision = "blocked", !.audit = "open"],
    [d EXCEPT !.gate = "ready", !.named = {}], [d EXCEPT !.gate = "blocked"],
    [d EXCEPT !.vars = "closed"], [d EXCEPT !.vars = "public"],
    [d EXCEPT !.target = "prepared"], [d EXCEPT !.target = "deployed"]}

MistakeDocument ==
    /\ Fail /\ docs' \in Mistakes(docs) \ {docs}
    /\ UNCHANGED <<dbVars, live, window, job, seen, trial>>
------------------------------------------------------------------------------
(* Deployment jobs. A job prepares its configurations from one checkout:   *)
(* "closable" says that the halted one can be prepared from it.            *)

StartHalted ==
    /\ job = NoJob /\ ChecksPass(docs) /\ HaltedConfigAllowed(docs)
    /\ job' = [NoJob EXCEPT !.step = "deploy-halted"]
    /\ UNCHANGED <<docs, dbVars, live, window, seen, trial, trouble>>

StartPublic ==
    /\ job = NoJob
    /\ ChecksPass(docs) /\ ReleaseIsApproved(docs) /\ PublicConfigAllowed(docs)
    /\ job' = [step |-> "deploy-public", started |-> FALSE,
               closable |-> HaltedConfigAllowed(docs)]
    /\ UNCHANGED <<docs, dbVars, live, window, seen, trial, trouble>>

\* A rollback follows every failure after the deployment was begun.
AfterFailure(j) ==
    IF j.started /\ j.closable THEN [NoJob EXCEPT !.step = "deploy-rollback"] ELSE NoJob
Left(j) == seen \cup (IF j.step \in {"deploy-rollback", "verify-rollback"} THEN {"unclosed"} ELSE {})

\* A new public Worker was not seen to work yet.
Unseen(j, what) == what \ (IF j.step = "deploy-public" THEN {"public"} ELSE {})

Target(step) == IF step = "deploy-public" THEN "public" ELSE "halted"
Verifies(step) == CASE step = "deploy-public" -> "verify-public"
                    [] step = "deploy-halted" -> "verify-halted"
                    [] step = "deploy-rollback" -> "verify-rollback"

\* Mutant: the flag is set when the command has returned.
BegunAfterwards(j, succeeds) ==
    [j EXCEPT !.started = succeeds /\ j.step = "deploy-public"]

\* The flag is set before the command is run, whether or not it succeeds.
Begun(j, succeeds) == [j EXCEPT !.started = j.step = "deploy-public"]

\* The configuration or the build fails before anything is deployed.
BuildFails ==
    /\ job.step \in {"deploy-halted", "deploy-public", "deploy-rollback"} /\ Fail
    /\ job' = AfterFailure(job) /\ seen' = Left(job)
    /\ UNCHANGED <<docs, dbVars, live, window, trial>>

\* wrangler deploy; a command that fails may have replaced the Worker or not.
Deploy ==
    /\ job.step \in {"deploy-halted", "deploy-public", "deploy-rollback"}
    /\ \/ /\ live' = Worker(Target(job.step))
          /\ job' = [Begun(job, TRUE) EXCEPT !.step = Verifies(job.step)]
          /\ seen' = Unseen(job, seen)
          /\ UNCHANGED trouble
       \/ /\ live' \in {live, Worker(Target(job.step))}
          /\ job' = AfterFailure(Begun(job, FALSE))
          /\ seen' = Unseen(job, Left(job))
          /\ Fail
    /\ UNCHANGED <<docs, dbVars, window, trial>>

\* Up to thirty looks at the status endpoint; it may stay unreachable.
Expected(step) == IF step = "verify-public" THEN "enabled" ELSE "halted"
Verify ==
    /\ job.step \in {"verify-halted", "verify-public", "verify-rollback"}
    /\ \/ /\ StatusEndpoint = Expected(job.step)
          /\ job' = NoJob
          /\ seen' = seen \cup (CASE job.step = "verify-halted" -> {"halted"}
                                  [] job.step = "verify-public" -> {"public"}
                                  [] OTHER -> {})
          /\ UNCHANGED trouble
       \/ /\ job' = AfterFailure(job)
          /\ seen' = Left(job)
          /\ \/ StatusEndpoint # Expected(job.step) /\ UNCHANGED trouble
             \/ Fail
    /\ UNCHANGED <<docs, dbVars, live, window, trial>>

\* The job is cancelled or runs out of its time: nothing is rolled back.
JobKilled ==
    /\ job # NoJob /\ Fail
    /\ job' = NoJob
    /\ seen' = seen \cup {"unclosed"}
    /\ UNCHANGED <<docs, dbVars, live, window, trial>>

\* pnpm deploy:mainnet, by hand: the committed variables as they are.
DeployCommitted ==
    /\ ChecksPass(docs) /\ ReleaseIsApproved(docs)
    /\ live' = Worker(IF docs.vars = "reviewed" THEN "halted" ELSE docs.vars)
    /\ UNCHANGED <<docs, dbVars, window, job, seen, trial, trouble>>
------------------------------------------------------------------------------
(* The repository before anything was imported, with its foundations, and  *)
(* with the halted Worker reviewed.                                        *)

Initial ==
    [evidence |-> {"sourceTag"}, migrations |-> 0, cleared |-> {"sourceTag"},
     decision |-> "blocked", audit |-> "waiting",
     gate |-> "blocked", named |-> Evidence \ {"sourceTag"},
     plan |-> CurrentPlan({"sourceTag"}, FALSE),
     vars |-> "closed", ids |-> "placeholder", target |-> "prepared"]
Founded ==
    [Imported(Imported(Initial, "d1"), "stopDrill") EXCEPT
        !.migrations = 1, !.plan = CurrentPlan(Foundations, FALSE)]
Reviewed == Imported(Imported(Founded, "provider"), "release")

\* A release with its databases in place, or the databases of two other moments.
Init ==
    /\ run = NoRun /\ reports = {} /\ files = 1
    /\ live = Worker("none") /\ job = NoJob /\ seen = {}
    /\ trial = [a \in Assets |-> "none"]
    /\ \/ /\ docs = Founded /\ remote = [db \in Databases |-> 1] /\ runs = 0
          /\ window = [a \in Assets |-> Unprepared] /\ trouble = 0
       \/ /\ \/ docs = Initial /\ remote = [db \in Databases |-> Absent]
             \/ docs = Reviewed /\ remote = [db \in Databases |-> 1]
          /\ window = [a \in Assets |-> 0]
          /\ runs = MaxRuns /\ trouble = MaxTrouble

Next ==
    \/ DatabaseNext /\ UNCHANGED relVars
    \/ \E a \in Assets :
         \/ PrepareWindow(a) \/ TrialPayment(a)
         \/ \E mode \in {"enabled", "verify-only", "halted"} : DeployWindow(a, mode)
    \/ Tick
    \/ \E e \in Evidence : Import(e) \/ ImportStops(e)
    \/ EditDocument \/ MistakeDocument
    \/ StartHalted \/ StartPublic \/ BuildFails \/ Deploy \/ Verify \/ JobKilled
    \/ DeployCommitted

Spec == Init /\ [][Next]_vars

\* Only the clock is fair: operators and jobs may stop at any point.
FairSpec == Spec /\ WF_vars(Tick)
------------------------------------------------------------------------------
(* Properties.                                                             *)

\* Production serves a request without a token only when the halted Worker had been
\* seen and a payment of each asset had been settled through it, and a public Worker
\* no job is looking at was seen to work, unless its job was killed or the rollback's
\* own commands failed.
PaymentsAreAuthorized ==
    /\ (\E op \in Operations : Serves(op, NoToken)) =>
           "halted" \in seen /\ \A a \in Assets : trial[a] = "settled"
    /\ live.mode = "public" /\ job = NoJob => seen \cap {"public", "unclosed"} # {}

\* Equal up to the findings that the text of the gate names.
SameButNames(d, other) == d = [other EXCEPT !.named = d.named]

\* From documents that pass the checks, an import leaves documents that pass once the
\* plan is brought up to date; one that stops half way leaves documents that do not,
\* unless only a text was missing that says nothing the old one did not.
\* An acceptance payment made after its readiness check can be recorded: its window
\* can be prepared, and its report is taken while nothing else changed.
ImportsAreChecked == [][ChecksPass(docs) =>
    /\ \A e \in Evidence :
          /\ Import(e) => ChecksPass([docs' EXCEPT
                              !.plan = CurrentPlan(docs'.evidence, docs'.plan.approved)])
          /\ ImportStops(e) /\ ChecksPass(docs') =>
                docs' = docs \/ SameButNames(docs', Imported(docs, e))
    /\ XrpReady(docs) => WindowAllowed("xrp") /\ ImportAllowed(docs, "xrp")
    /\ RlusdReady(docs) => WindowAllowed("rlusd") /\ ImportAllowed(docs, "rlusd")]_vars

\* A window left open closes by itself.
ForgottenWindowCloses ==
    \A w \in Assets :
        (live.window = w /\ Serves("create", w)) ~> ~(live.window = w /\ Serves("create", w))
=============================================================================
