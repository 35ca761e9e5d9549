------------------------ MODULE MainnetRelease_proofs ------------------------
(***************************************************************************)
(* Proofs about the release of the Mainnet program, for any number of      *)
(* migrations, runs, failures and mistakes, and windows of any length.     *)
(***************************************************************************)
EXTENDS MainnetRelease, TLAPS

-----------------------------------------------------------------------------
(* The inductive invariant.                                                *)

Plans == [approved : BOOLEAN, stage : Stages, remaining : SUBSET Remaining, committed : BOOLEAN]

Findings == Evidence \cup {"final"}

Documents ==
    [evidence : SUBSET Evidence, migrations : Nat, cleared : SUBSET Evidence,
     decision : {"blocked", "approved"}, audit : {"waiting", "open", "passed"},
     gate : {"blocked", "ready"}, named : SUBSET Findings, plan : Plans,
     vars : {"closed", "reviewed", "public"}, ids : {"placeholder", "real"}, target : {"prepared", "deployed"}]

DatabasesTyped ==
    /\ docs \in Documents
    /\ files \in Nat \ {0}
    /\ remote \in [Databases -> Int] /\ \A db \in Databases : remote[db] >= Absent
    /\ run \in [step : {"none", "create", "preview", "production", "report"}, files : Nat]
    /\ reports \in SUBSET Nat

\* Databases are created and migrated in their order, and never beyond the files of
\* the run; a report counts what production has.
MigrationsInOrder ==
    /\ remote["production"] = Absent => remote["preview"] = Absent
    /\ \A db \in Databases : remote[db] <= files
    /\ run.step # "none" =>
          run.files \in 1..files /\ \A db \in Databases : remote[db] <= run.files
    /\ run.step = "create" => remote["preview"] = Absent
    /\ run.step \in {"preview", "production", "report"} => BothExist
    /\ run.step \in {"production", "report"} => remote["preview"] = run.files
    /\ run.step = "report" => remote["production"] = run.files
    /\ \A n \in reports : n \in 1..remote["production"]

DatabasesInv == DatabasesTyped /\ MigrationsInOrder /\ DatabaseEvidenceIsTrue

Jobs == [step : {"idle", "deploy-halted", "deploy-public", "deploy-rollback",
                 "verify-halted", "verify-public", "verify-rollback"},
         started : BOOLEAN, closable : BOOLEAN]

ReleaseTyped ==
    /\ live \in [mode : {"none", "enabled", "verify-only", "halted", "public"},
                 window : Assets \cup {NoToken}]
    /\ window \in [Assets -> Unprepared..WindowTicks]
    /\ job \in Jobs
    /\ seen \in SUBSET {"halted", "public", "unclosed"}
    /\ trial \in [Assets -> {"none", "requested", "settled"}]

\* A window has its token; a public Worker has none.
WindowsHaveTokens ==
    /\ live.mode \in {"enabled", "verify-only"} => live.window \in Assets
    /\ live.mode = "public" => live.window = NoToken

Proven == "halted" \in seen /\ \A a \in Assets : trial[a] = "settled"

\* Nothing is paid before the halted Worker was seen, and what the records accept was.
\* The reviewed documents of another moment have no window left.
ReviewComesFirst ==
    /\ docs.vars = "reviewed" =>
          "halted" \in seen \/ \A a \in Assets : window[a] # Unprepared
    /\ \A a \in Assets : window[a] > 0 \/ trial[a] # "none" => "halted" \in seen
    /\ \A a \in Assets : a \in docs.evidence => trial[a] = "settled"

\* A public Worker was proven, and is seen, left behind by a job, or still in one.
PublicIsWatched ==
    /\ job.step = "deploy-public" => Proven
    /\ job.step \in {"deploy-public", "verify-public"} => job.closable
    /\ job.step = "verify-public" => job.started
    /\ live.mode = "public" =>
          /\ Proven
          /\ \/ seen \cap {"public", "unclosed"} # {}
             \/ job.step \in {"verify-public", "deploy-rollback", "verify-rollback"}

ReleaseInv == ReleaseTyped /\ WindowsHaveTokens /\ ReviewComesFirst /\ PublicIsWatched

\* RLUSD is accepted last.
RlusdComesLast == "rlusd" \in docs.evidence => Evidence \ {"rlusd"} \subseteq docs.cleared

-----------------------------------------------------------------------------
(* The documents.                                                          *)

\* The stage is that of the first record that is missing.
LEMMA StageIsDerived ==
    ASSUME NEW a \in SUBSET Evidence
    PROVE  DeriveStage(a) = IF ~(Foundations \subseteq a) THEN 1
                            ELSE IF "provider" \notin a THEN 2
                            ELSE IF "release" \notin a THEN 3
                            ELSE IF "xrp" \notin a THEN 4
                            ELSE IF "rlusd" \notin a THEN 5
                            ELSE 6
  <1> DEFINE First(s) == /\ s = FinalAudit <=> Remaining \subseteq a
                         /\ s # FinalAudit => \E e \in Remaining \ a :
                              s = StageOf[e] /\ \A o \in Remaining \ a : s <= StageOf[o]
             stage == IF "provider" \notin a THEN 2
                      ELSE IF "release" \notin a THEN 3
                      ELSE IF "xrp" \notin a THEN 4
                      ELSE IF "rlusd" \notin a THEN 5
                      ELSE 6
  <1>1. /\ StageOf["provider"] = 2 /\ StageOf["release"] = 3
        /\ StageOf["xrp"] = 4 /\ StageOf["rlusd"] = 5 /\ FinalAudit = 6 /\ Stages = 1..6
        /\ Remaining = {"provider", "release", "xrp", "rlusd"}
    BY DEF StageOf, ProviderStage, ReviewStage, XrpStage, RlusdStage, FinalAudit, Stages,
           FoundationStage, Remaining
  <1>2. stage \in Stages /\ First(stage)
    BY <1>1
  <1>3. \A s \in Stages : First(s) => s = stage
    BY <1>1
  <1>4. DeriveStage(a) = IF ~(Foundations \subseteq a) THEN 1 ELSE CHOOSE s \in Stages : First(s)
    BY DEF DeriveStage, FoundationStage
  <1> HIDE DEF First, stage
  <1>5. (CHOOSE s \in Stages : First(s)) = stage
    BY <1>2, <1>3
  <1> QED  BY <1>4, <1>5 DEF stage

LEMMA StagesAreTyped ==
    ASSUME NEW a \in SUBSET Evidence, NEW approved \in BOOLEAN
    PROVE  DeriveStage(a) \in Stages /\ CurrentPlan(a, approved) \in Plans
  <1>1. DeriveStage(a) \in Stages
    <2>1. DeriveStage(a) \in 1..6
      BY StageIsDerived
    <2> QED  BY <2>1 DEF Stages, FoundationStage, FinalAudit
  <1> QED  BY <1>1 DEF CurrentPlan, Plans

\* The rules of each importer.
LEMMA ImportRules ==
    ASSUME NEW d
    PROVE  /\ ImportAllowed(d, "d1") <=> (d.vars = "closed")
           /\ ImportAllowed(d, "sourceTag") <=> FALSE
           /\ ImportAllowed(d, "stopDrill") <=> (d.decision = "blocked" /\ Consistent(d, "stopDrill"))
           /\ ImportAllowed(d, "provider") <=> (d.decision = "blocked" /\ Consistent(d, "provider"))
           /\ ImportAllowed(d, "release") <=>
                 (/\ d.decision = "blocked" /\ ~d.plan.approved /\ Consistent(d, "release")
                  /\ "release" \in d.evidence \/ d.plan.stage = ReviewStage
                  /\ d.vars \in {"closed", "reviewed"})
           /\ ImportAllowed(d, "xrp") <=>
                 (/\ d.decision = "blocked" /\ ~d.plan.approved /\ Consistent(d, "xrp")
                  /\ d.plan.stage = XrpStage /\ "rlusd" \notin d.evidence
                  /\ d.vars = "reviewed" /\ d.target = "deployed")
           /\ ImportAllowed(d, "rlusd") <=>
                 (/\ d.decision = "blocked" /\ ~d.plan.approved /\ d.gate = "blocked"
                  /\ d.plan.stage = RlusdStage /\ d.audit = "waiting"
                  /\ "rlusd" \notin d.evidence /\ d.cleared = Evidence \ {"rlusd"}
                  /\ d.vars = "reviewed" /\ d.target = "deployed")
  BY Zenon DEF ImportAllowed

LEMMA ImportsBecome ==
    ASSUME NEW d
    PROVE  /\ Imported(d, "d1") = [Accept(d, "d1") EXCEPT !.ids = "real"]
           /\ Imported(d, "stopDrill") = Accept(d, "stopDrill")
           /\ Imported(d, "provider") = Accept(d, "provider")
           /\ Imported(d, "release") =
                 [Accept(d, "release") EXCEPT !.vars = "reviewed", !.target = "deployed",
                                  !.plan = CurrentPlan(d.evidence \cup {"release"}, FALSE)]
           /\ Imported(d, "xrp") =
                 [Accept(d, "xrp") EXCEPT !.plan.stage = RlusdStage, !.plan.remaining = {"rlusd"}]
           /\ Imported(d, "rlusd") =
                 [Accept(d, "rlusd") EXCEPT !.audit = "open", !.named = {"final"},
                                            !.plan.stage = FinalAudit, !.plan.remaining = {}]
  BY Zenon DEF Imported

\* What an import writes, field by field.
ImportWrites(d, e, new) ==
    /\ new \in Documents
    /\ new.evidence = d.evidence \cup {e} /\ new.cleared = d.cleared \cup {e}
    /\ new.migrations = d.migrations /\ new.decision = d.decision /\ new.gate = d.gate
    /\ new.audit = IF e = "rlusd" THEN "open" ELSE d.audit
    /\ new.named = IF e = "rlusd" THEN {"final"} ELSE d.named
    /\ new.vars = IF e = "release" THEN "reviewed" ELSE d.vars
    /\ new.target = IF e = "release" THEN "deployed" ELSE d.target
    /\ new.ids = IF e = "d1" THEN "real" ELSE d.ids
    /\ e \in {"d1", "stopDrill", "provider"} => new.plan = d.plan
    /\ e = "release" => new.plan = CurrentPlan(new.evidence, FALSE)
    /\ e \in {"xrp", "rlusd"} => /\ new.plan.approved = d.plan.approved
                                 /\ new.plan.committed = d.plan.committed
    /\ e = "xrp" => new.plan.stage = RlusdStage /\ new.plan.remaining = {"rlusd"}
    /\ e = "rlusd" => new.plan.stage = FinalAudit /\ new.plan.remaining = {}

LEMMA AcceptWrites ==
    ASSUME NEW d \in Documents, NEW e \in Evidence
    PROVE  /\ Accept(d, e) \in Documents
           /\ Accept(d, e) = [d EXCEPT !.evidence = d.evidence \cup {e},
                                       !.cleared = d.cleared \cup {e}]
           /\ Accept(d, e).evidence = d.evidence \cup {e}
           /\ Accept(d, e).cleared = d.cleared \cup {e}
           /\ Accept(d, e).migrations = d.migrations /\ Accept(d, e).decision = d.decision
           /\ Accept(d, e).gate = d.gate /\ Accept(d, e).audit = d.audit
           /\ Accept(d, e).vars = d.vars /\ Accept(d, e).target = d.target
           /\ Accept(d, e).ids = d.ids /\ Accept(d, e).plan = d.plan
           /\ Accept(d, e).named = d.named
  BY DEF Accept, Documents

LEMMA ImportsWrite ==
    ASSUME NEW d \in Documents, NEW e \in Evidence \ {"sourceTag"}
    PROVE  ImportWrites(d, e, Imported(d, e))
  <1> DEFINE a == Accept(d, e)
             new == Imported(d, e)
  <1>1. /\ a \in Documents
        /\ a.evidence = d.evidence \cup {e} /\ a.cleared = d.cleared \cup {e}
        /\ a.migrations = d.migrations /\ a.decision = d.decision
        /\ a.gate = d.gate /\ a.audit = d.audit /\ a.vars = d.vars /\ a.target = d.target
        /\ a.ids = d.ids /\ a.plan = d.plan /\ a.named = d.named
    BY AcceptWrites, Zenon
  <1>0. d.plan \in Plans
    BY DEF Documents
  <1>2. /\ RlusdStage \in Stages /\ FinalAudit \in Stages
        /\ {"rlusd"} \in SUBSET Remaining /\ {} \in SUBSET Remaining
    BY DEF RlusdStage, FinalAudit, Stages, FoundationStage, Remaining
  <1> DEFINE xrpPlan == [[d.plan EXCEPT !.stage = RlusdStage] EXCEPT !.remaining = {"rlusd"}]
             rlusdPlan == [[d.plan EXCEPT !.stage = FinalAudit] EXCEPT !.remaining = {}]
             releasePlan == CurrentPlan(d.evidence \cup {"release"}, FALSE)
  <1>3. /\ xrpPlan \in Plans /\ xrpPlan.stage = RlusdStage /\ xrpPlan.remaining = {"rlusd"}
        /\ xrpPlan.approved = d.plan.approved /\ xrpPlan.committed = d.plan.committed
        /\ rlusdPlan \in Plans /\ rlusdPlan.stage = FinalAudit /\ rlusdPlan.remaining = {}
        /\ rlusdPlan.approved = d.plan.approved /\ rlusdPlan.committed = d.plan.committed
    BY <1>0, <1>2 DEF Plans
  <1>4. releasePlan \in Plans
    <2>1. d.evidence \cup {"release"} \in SUBSET Evidence
      BY DEF Documents, Evidence, Remaining
    <2> QED  BY <2>1, StagesAreTyped
  <1>5. e \in {"d1", "stopDrill", "provider", "release", "xrp", "rlusd"}
    BY DEF Evidence, Foundations, Remaining
  <1>6. CASE e = "d1"
    <2>1. new = [a EXCEPT !.ids = "real"]
      BY <1>6, ImportsBecome
    <2> HIDE DEF a, new
    <2> QED  BY <1>1, <1>6, <2>1 DEF ImportWrites, Documents, new
  <1>7. CASE e \in {"stopDrill", "provider"}
    <2>1. new = a
      BY <1>7, ImportsBecome
    <2> HIDE DEF a, new
    <2> QED  BY <1>1, <1>7, <2>1 DEF ImportWrites, new
  <1>8. CASE e = "release"
    <2>1. new = [a EXCEPT !.vars = "reviewed", !.target = "deployed", !.plan = releasePlan]
      BY <1>8, ImportsBecome
    <2> HIDE DEF a, new, releasePlan
    <2>2. /\ new \in Documents /\ new.vars = "reviewed" /\ new.target = "deployed"
          /\ new.plan = releasePlan /\ new.evidence = a.evidence /\ new.cleared = a.cleared
          /\ new.migrations = a.migrations /\ new.decision = a.decision
          /\ new.gate = a.gate /\ new.audit = a.audit /\ new.ids = a.ids /\ new.named = a.named
      BY <1>1, <1>4, <2>1 DEF Documents
    <2> QED  BY <1>1, <1>8, <2>2 DEF ImportWrites, releasePlan, new
  <1>9. CASE e = "xrp"
    <2>1. new = [a EXCEPT !.plan = xrpPlan]
      <3>1. new = [a EXCEPT !.plan.stage = RlusdStage, !.plan.remaining = {"rlusd"}]
        BY <1>9, ImportsBecome
      <3> HIDE DEF a, new
      <3> QED  BY <1>1, <1>0, <3>1 DEF Documents
    <2> HIDE DEF a, new, xrpPlan
    <2>2. /\ new \in Documents /\ new.vars = a.vars /\ new.target = a.target
          /\ new.plan = xrpPlan /\ new.evidence = a.evidence /\ new.cleared = a.cleared
          /\ new.migrations = a.migrations /\ new.decision = a.decision
          /\ new.gate = a.gate /\ new.audit = a.audit /\ new.ids = a.ids /\ new.named = a.named
      BY <1>1, <1>3, <2>1 DEF Documents
    <2> QED  BY <1>1, <1>3, <1>9, <2>2 DEF ImportWrites, new
  <1>10. CASE e = "rlusd"
    <2>1. new = [a EXCEPT !.audit = "open", !.named = {"final"}, !.plan = rlusdPlan]
      <3>1. new = [a EXCEPT !.audit = "open", !.named = {"final"},
                            !.plan.stage = FinalAudit, !.plan.remaining = {}]
        BY <1>10, ImportsBecome
      <3> HIDE DEF a, new
      <3> QED  BY <1>1, <1>0, <3>1 DEF Documents
    <2> HIDE DEF a, new, rlusdPlan
    <2>2. /\ new \in Documents /\ new.vars = a.vars /\ new.target = a.target
          /\ new.plan = rlusdPlan /\ new.evidence = a.evidence /\ new.cleared = a.cleared
          /\ new.migrations = a.migrations /\ new.decision = a.decision
          /\ new.gate = a.gate /\ new.audit = "open" /\ new.ids = a.ids
          /\ new.named = {"final"}
      BY <1>1, <1>3, <2>1 DEF Documents, Findings
    <2> QED  BY <1>1, <1>3, <1>10, <2>2 DEF ImportWrites, new
  <1> QED  BY <1>5, <1>6, <1>7, <1>8, <1>9, <1>10

\* An importer that stops leaves each file as it was or as it becomes.
ByFile(d, new, some, w) ==
    /\ w \in Documents
    /\ w.evidence = IF "evidence" \in some THEN new.evidence ELSE d.evidence
    /\ w.migrations = IF "evidence" \in some THEN new.migrations ELSE d.migrations
    /\ w.cleared = IF "acceptance" \in some THEN new.cleared ELSE d.cleared
    /\ w.decision = IF "acceptance" \in some THEN new.decision ELSE d.decision
    /\ w.audit = IF "acceptance" \in some THEN new.audit ELSE d.audit
    /\ w.plan = IF "plan" \in some THEN new.plan ELSE d.plan
    /\ w.gate = IF "gate" \in some THEN new.gate ELSE d.gate
    /\ w.named = IF "gate" \in some THEN new.named ELSE d.named
    /\ w.vars = IF "wrangler" \in some THEN new.vars ELSE d.vars
    /\ w.ids = IF "wrangler" \in some THEN new.ids ELSE d.ids
    /\ w.target = IF "target" \in some THEN new.target ELSE d.target

LEMMA WrittenByFile ==
    ASSUME NEW d \in Documents, NEW new \in Documents, NEW some \in SUBSET DOMAIN Files
    PROVE  ByFile(d, new, some, Written(d, new, some))
  <1> DEFINE Taken(k) == \E f \in some : k \in Files[f]
             w == Written(d, new, some)
  <1>1. DOMAIN Files = {"evidence", "acceptance", "plan", "gate", "wrangler", "target"}
    BY DEF Files
  <1>2. /\ Files["evidence"] = {"evidence", "migrations"}
        /\ Files["acceptance"] = {"cleared", "decision", "audit"}
        /\ Files["plan"] = {"plan"} /\ Files["gate"] = {"gate", "named"}
        /\ Files["wrangler"] = {"vars", "ids"} /\ Files["target"] = {"target"}
    BY DEF Files
  <1>3. /\ Taken("evidence") <=> "evidence" \in some
        /\ Taken("migrations") <=> "evidence" \in some
        /\ Taken("cleared") <=> "acceptance" \in some
        /\ Taken("decision") <=> "acceptance" \in some
        /\ Taken("audit") <=> "acceptance" \in some
        /\ Taken("plan") <=> "plan" \in some
        /\ Taken("gate") <=> "gate" \in some
        /\ Taken("named") <=> "gate" \in some
        /\ Taken("vars") <=> "wrangler" \in some
        /\ Taken("ids") <=> "wrangler" \in some
        /\ Taken("target") <=> "target" \in some
    BY <1>1, <1>2
  <1>4. w = [k \in DOMAIN d |-> IF Taken(k) THEN new[k] ELSE d[k]]
    BY DEF Written
  <1> HIDE DEF Taken, w
  <1>5. DOMAIN d = {"evidence", "migrations", "cleared", "decision", "audit", "gate", "named",
                    "plan", "vars", "ids", "target"}
    BY DEF Documents
  <1>6. /\ w.evidence = IF "evidence" \in some THEN new.evidence ELSE d.evidence
        /\ w.migrations = IF "evidence" \in some THEN new.migrations ELSE d.migrations
        /\ w.cleared = IF "acceptance" \in some THEN new.cleared ELSE d.cleared
        /\ w.decision = IF "acceptance" \in some THEN new.decision ELSE d.decision
        /\ w.audit = IF "acceptance" \in some THEN new.audit ELSE d.audit
    BY <1>3, <1>4, <1>5
  <1>7. /\ w.plan = IF "plan" \in some THEN new.plan ELSE d.plan
        /\ w.gate = IF "gate" \in some THEN new.gate ELSE d.gate
        /\ w.named = IF "gate" \in some THEN new.named ELSE d.named
        /\ w.vars = IF "wrangler" \in some THEN new.vars ELSE d.vars
        /\ w.ids = IF "wrangler" \in some THEN new.ids ELSE d.ids
        /\ w.target = IF "target" \in some THEN new.target ELSE d.target
    BY <1>3, <1>4, <1>5
  <1>8. w \in Documents
    <2>1. w = [evidence |-> w.evidence, migrations |-> w.migrations, cleared |-> w.cleared,
               decision |-> w.decision, audit |-> w.audit, gate |-> w.gate, named |-> w.named,
               plan |-> w.plan, vars |-> w.vars, ids |-> w.ids, target |-> w.target]
      BY <1>4, <1>5
    <2>2. /\ w.evidence \in SUBSET Evidence /\ w.migrations \in Nat /\ w.cleared \in SUBSET Evidence
          /\ w.decision \in {"blocked", "approved"} /\ w.audit \in {"waiting", "open", "passed"}
          /\ w.gate \in {"blocked", "ready"} /\ w.named \in SUBSET Findings /\ w.plan \in Plans
          /\ w.vars \in {"closed", "reviewed", "public"} /\ w.ids \in {"placeholder", "real"}
          /\ w.target \in {"prepared", "deployed"}
      BY <1>6, <1>7 DEF Documents
    <2> QED  BY <2>1, <2>2 DEF Documents
  <1> QED  BY <1>6, <1>7, <1>8 DEF ByFile, w

\* What becomes of the documents in a step: records are only added, that of the databases
\* counts a report, that of a payment follows the payment, that of RLUSD all others, and
\* the reviewed variables follow the review.
DocsMove ==
    /\ docs' \in Documents
    /\ docs.evidence \subseteq docs'.evidence /\ docs.cleared \subseteq docs'.cleared
    /\ "d1" \in docs'.evidence =>
          \/ docs'.migrations \in reports
          \/ "d1" \in docs.evidence /\ docs'.migrations = docs.migrations
    /\ docs'.vars = "reviewed" => docs.vars = "reviewed" \/ "halted" \in seen
    /\ \A a \in Assets : a \in docs'.evidence => a \in docs.evidence \/ trial[a] = "settled"
    /\ "rlusd" \in docs'.evidence =>
          "rlusd" \in docs.evidence \/ Evidence \ {"rlusd"} \subseteq docs.cleared

LEMMA ReportsAreHonest ==
    ASSUME NEW e, ReportExists(e)
    PROVE  /\ e = "release" => "halted" \in seen
           /\ e \in Assets => trial[e] = "settled" /\ StatusEndpoint = "halted"
  <1>1. CASE e = "release"
    <2>1. e \notin Assets
      BY <1>1 DEF Assets
    <2>2. "halted" \in seen
      BY <1>1, <2>1, Zenon DEF ReportExists
    <2> QED  BY <2>1, <2>2
  <1>2. CASE e \in Assets
    <2>1. e # "release"
      BY <1>2 DEF Assets
    <2>2. trial[e] = "settled" /\ StatusEndpoint = "halted"
      BY <1>2, <2>1, Zenon DEF ReportExists
    <2> QED  BY <2>1, <2>2
  <1> QED  BY <1>1, <1>2

\* What is imported was not forbidden, and rlusd has every other record cleared.
LEMMA ImportersMove ==
    ASSUME docs \in Documents, NEW e \in Evidence \ {"d1", "sourceTag"}, ReportExists(e),
           ImportAllowed(docs, e), NEW some \in SUBSET DOMAIN Files,
           docs' = Imported(docs, e) \/ docs' = Written(docs, Imported(docs, e), some)
    PROVE  DocsMove
  <1> DEFINE new == Imported(docs, e)
  <1>1. ImportWrites(docs, e, new)
    BY ImportsWrite, Zenon
  <1>2. /\ e = "release" => "halted" \in seen
        /\ e \in Assets => trial[e] = "settled"
    BY ReportsAreHonest, Zenon
  <1>3. e = "rlusd" => docs.cleared = Evidence \ {"rlusd"}
    BY ImportRules, Zenon
  <1> HIDE DEF new
  <1>4. /\ new \in Documents /\ new.migrations = docs.migrations
        /\ new.evidence = docs.evidence \cup {e} /\ new.cleared = docs.cleared \cup {e}
        /\ new.vars = "reviewed" => docs.vars = "reviewed" \/ e = "release"
    BY <1>1 DEF ImportWrites
  <1>5. CASE docs' = new
    BY <1>2, <1>3, <1>4, <1>5 DEF DocsMove, Assets
  <1>6. CASE docs' = Written(docs, new, some)
    <2>1. ByFile(docs, new, some, docs')
      BY <1>4, <1>6, WrittenByFile, Zenon
    <2> QED  BY <1>2, <1>3, <1>4, <2>1 DEF ByFile, DocsMove, Assets
  <1> QED  BY <1>5, <1>6 DEF new

LEMMA ProvisioningMoves ==
    ASSUME docs \in Documents, reports \in SUBSET Nat, NEW n,
           ImportProvisioning(n) \/ ImportForward(n)
    PROVE  DocsMove
  <1>1. CASE ImportProvisioning(n)
    <2> DEFINE new == Imported(docs, "d1")
    <2>1. ImportWrites(docs, "d1", new)
      BY ImportsWrite DEF Evidence, Foundations
    <2>2. n \in reports /\ docs' = [new EXCEPT !.migrations = n]
      BY <1>1 DEF ImportProvisioning
    <2> HIDE DEF new
    <2>3. /\ new \in Documents /\ new.vars = docs.vars
          /\ new.evidence = docs.evidence \cup {"d1"} /\ new.cleared = docs.cleared \cup {"d1"}
      BY <2>1 DEF ImportWrites
    <2>4. /\ docs' \in Documents /\ docs'.migrations = n /\ docs'.vars = new.vars
          /\ docs'.evidence = new.evidence /\ docs'.cleared = new.cleared
      BY <2>2, <2>3 DEF Documents
    <2> QED  BY <2>2, <2>3, <2>4 DEF DocsMove, Assets
  <1>2. CASE ImportForward(n)
    <2>1. n \in reports /\ docs' = [docs EXCEPT !.migrations = n]
      BY <1>2 DEF ImportForward
    <2>2. /\ docs' \in Documents /\ docs'.migrations = n /\ docs'.vars = docs.vars
          /\ docs'.evidence = docs.evidence /\ docs'.cleared = docs.cleared
      BY <2>1 DEF Documents
    <2> QED  BY <2>1, <2>2 DEF DocsMove
  <1> QED  BY <1>1, <1>2

LEMMA EditsMove ==
    ASSUME docs \in Documents, docs' \in Revisions(docs) \/ docs' \in Mistakes(docs)
    PROVE  DocsMove
  <1> DEFINE now == CurrentPlan(docs.evidence, docs.plan.approved)
             done == CurrentPlan(docs.evidence, TRUE)
             early == [docs.plan EXCEPT !.stage = XrpStage]
             open == OpenFindings(docs)
  <1>0. open \in SUBSET Findings
    BY DEF OpenFindings, Findings
  <1>1. now \in Plans /\ done \in Plans /\ early \in Plans
    <2>1. docs.evidence \in SUBSET Evidence /\ docs.plan \in Plans
      BY DEF Documents
    <2>2. docs.plan.approved \in BOOLEAN
      BY <2>1 DEF Plans
    <2>3. XrpStage \in Stages
      BY DEF XrpStage, Stages, FoundationStage, FinalAudit
    <2>4. now \in Plans /\ done \in Plans
      BY <2>1, <2>2, StagesAreTyped, Zenon
    <2>5. early \in Plans
      BY <2>1, <2>3 DEF Plans
    <2> QED  BY <2>4, <2>5
  <1>2. \/ docs' = [docs EXCEPT !.plan = now] \/ docs' = [docs EXCEPT !.plan = done]
        \/ docs' = [docs EXCEPT !.plan = early]
        \/ docs' = [docs EXCEPT !.decision = "approved", !.audit = "passed"]
        \/ docs' = [docs EXCEPT !.decision = "approved", !.audit = "passed", !.cleared = Evidence]
        \/ docs' = [docs EXCEPT !.decision = "blocked", !.audit = "open"]
        \/ docs' = [docs EXCEPT !.named = open]
        \/ docs' = [docs EXCEPT !.gate = "ready", !.named = {}]
        \/ docs' = [docs EXCEPT !.gate = "blocked"]
        \/ docs' = [docs EXCEPT !.vars = "closed"] \/ docs' = [docs EXCEPT !.vars = "public"]
        \/ docs' = [docs EXCEPT !.target = "prepared"] \/ docs' = [docs EXCEPT !.target = "deployed"]
    <2>1. CASE docs' \in Revisions(docs)
      BY <2>1 DEF Revisions
    <2>2. CASE docs' \in Mistakes(docs)
      BY <2>2 DEF Mistakes
    <2> QED  BY <2>1, <2>2
  <1> HIDE DEF now, done, early, open
  <1>3. /\ docs' \in Documents /\ docs'.migrations = docs.migrations
        /\ docs'.evidence = docs.evidence /\ docs.cleared \subseteq docs'.cleared
        /\ docs'.vars = "reviewed" => docs.vars = "reviewed"
    BY <1>0, <1>1, <1>2 DEF Documents
  <1> QED  BY <1>3 DEF DocsMove

-----------------------------------------------------------------------------
(* The steps.                                                              *)

Database ==
    \/ StartRun \/ CreateDatabase \/ RunFails \/ ReportRun \/ AddMigration
    \/ \E db \in Databases : Migrate(db)

Release ==
    \/ \E a \in Assets :
         \/ PrepareWindow(a) \/ TrialPayment(a)
         \/ \E mode \in {"enabled", "verify-only", "halted"} : DeployWindow(a, mode)
    \/ Tick
    \/ StartHalted \/ StartPublic \/ BuildFails \/ Deploy \/ Verify \/ JobKilled
    \/ DeployCommitted

\* A step works on the documents, on the databases or on production.
LEMMA StepKinds ==
    ASSUME docs \in Documents, reports \in SUBSET Nat, [Next]_vars
    PROVE  \/ DocsMove /\ UNCHANGED <<dbVars, live, window, job, seen, trial>>
           \/ Database /\ UNCHANGED <<docs, relVars>>
           \/ Release /\ UNCHANGED <<docs, dbVars>>
           \/ UNCHANGED vars
  <1> DEFINE Others == UNCHANGED <<dbVars, live, window, job, seen, trial>>
             Provisions == \E n \in 1..MaxMigrations : ImportProvisioning(n) \/ ImportForward(n)
             Imports == \E e \in Evidence : Import(e) \/ ImportStops(e)
  <1>1. \/ Provisions /\ UNCHANGED relVars
        \/ Database /\ UNCHANGED relVars
        \/ Release
        \/ Imports
        \/ EditDocument
        \/ MistakeDocument
        \/ UNCHANGED vars
    BY Zenon DEF Next, DatabaseNext, Database, Release
  <1>2. CASE Provisions /\ UNCHANGED relVars
    <2>1. PICK n : ImportProvisioning(n) \/ ImportForward(n)
      BY <1>2
    <2>2. UNCHANGED dbVars
      BY <2>1 DEF ImportProvisioning, ImportForward
    <2>3. DocsMove
      BY <2>1, ProvisioningMoves, Zenon
    <2> QED  BY <1>2, <2>2, <2>3 DEF relVars
  <1>3. CASE Database /\ UNCHANGED relVars
    <2>1. UNCHANGED docs
      BY <1>3 DEF Database, StartRun, CreateDatabase, RunFails, ReportRun, AddMigration, Migrate
    <2> QED  BY <1>3, <2>1
  <1>4. CASE Release
    <2>1. UNCHANGED <<docs, dbVars>>
      BY <1>4 DEF Release, PrepareWindow, TrialPayment, DeployWindow, Tick, StartHalted,
                  StartPublic, BuildFails, Deploy, Verify, JobKilled, DeployCommitted
    <2> QED  BY <1>4, <2>1
  <1>5. CASE Imports
    <2>1. PICK e \in Evidence : Import(e) \/ ImportStops(e)
      BY <1>5
    <2>2. e # "d1" /\ ReportExists(e) /\ ImportAllowed(docs, e)
      BY <2>1 DEF Import, ImportStops
    <2>3. e # "sourceTag"
      BY <2>2, ImportRules
    <2>4. PICK some \in SUBSET DOMAIN Files :
             docs' = Imported(docs, e) \/ docs' = Written(docs, Imported(docs, e), some)
      <3>1. CASE Import(e)
        BY <3>1 DEF Import
      <3>2. CASE ImportStops(e)
        <4>1. PICK some \in SUBSET Changed(docs, Imported(docs, e)) :
                docs' = Written(docs, Imported(docs, e), some)
          BY <3>2 DEF ImportStops
        <4>2. some \in SUBSET DOMAIN Files
          BY DEF Changed
        <4> QED  BY <4>1, <4>2
      <3> QED  BY <2>1, <3>1, <3>2
    <2>5. Others
      BY <2>1 DEF Import, ImportStops, relVars
    <2>6. e \in Evidence \ {"d1", "sourceTag"}
      BY <2>2, <2>3
    <2>7. DocsMove
      BY <2>2, <2>4, <2>6, ImportersMove, Zenon
    <2> QED  BY <2>5, <2>7
  <1>6. CASE EditDocument \/ MistakeDocument
    <2>1. docs' \in Revisions(docs) \/ docs' \in Mistakes(docs)
      BY <1>6 DEF EditDocument, MistakeDocument
    <2>2. Others
      BY <1>6 DEF EditDocument, MistakeDocument, relVars
    <2>3. DocsMove
      BY <2>1, EditsMove, Zenon
    <2> QED  BY <2>2, <2>3
  <1> QED  BY <1>1, <1>2, <1>3, <1>4, <1>5, <1>6

-----------------------------------------------------------------------------
(* The databases.                                                          *)

LEMMA StepsOfARun ==
    NextDatabase("preview") = "production" /\ NextDatabase("production") = "report"
  <1>1. NextDatabase("preview") = "production"
    BY Zenon DEF NextDatabase
  <1>2. NextDatabase("production") = "report"
    BY Zenon DEF NextDatabase
  <1> QED  BY <1>1, <1>2

LEMMA DatabasesStep ==
    ASSUME DatabasesInv, [Next]_vars
    PROVE  DatabasesInv'
  <1> USE DEF DatabasesInv
  <1>1. CASE DocsMove /\ UNCHANGED <<dbVars, live, window, job, seen, trial>>
    BY <1>1 DEF DocsMove, dbVars, DatabasesTyped, MigrationsInOrder, DatabaseEvidenceIsTrue,
                Databases, BothExist, Absent
  <1>2. CASE (Release /\ UNCHANGED <<docs, dbVars>>) \/ UNCHANGED vars
    BY <1>2 DEF vars, dbVars, DatabasesTyped, MigrationsInOrder, DatabaseEvidenceIsTrue,
                Databases, BothExist, Absent
  <1>3. CASE Database /\ UNCHANGED <<docs, relVars>>
    <2> USE DEF DatabasesTyped, MigrationsInOrder, DatabaseEvidenceIsTrue, Databases, BothExist,
                Absent
    <2>1. CASE StartRun
      BY <1>3, <2>1 DEF StartRun, NoRun
    <2>2. CASE CreateDatabase
      BY <1>3, <2>2 DEF CreateDatabase, Goto
    <2>3. CASE RunFails
      BY <1>3, <2>3 DEF RunFails, NoRun
    <2>4. CASE ReportRun
      <3>1. /\ run.step = "report" /\ reports' = reports \cup {run.files}
            /\ run' = [step |-> "none", files |-> 0] /\ UNCHANGED <<docs, files, remote>>
        BY <2>4 DEF ReportRun, NoRun
      <3>2. DatabasesTyped'
        BY <3>1
      <3>3. run.files \in 1..remote["production"]
        BY <3>1
      <3>4. MigrationsInOrder'
        BY <3>1, <3>3
      <3>5. DatabaseEvidenceIsTrue'
        BY <3>1
      <3> QED  BY <3>2, <3>4, <3>5
    <2>5. CASE AddMigration
      <3>1. files' = files + 1 /\ UNCHANGED <<docs, remote, run, reports>>
        BY <2>5 DEF AddMigration
      <3>2. DatabasesTyped'
        BY <3>1
      <3>3. MigrationsInOrder'
        BY <3>1
      <3>4. DatabaseEvidenceIsTrue'
        BY <3>1
      <3> QED  BY <3>2, <3>3, <3>4
    <2>6. CASE Migrate("preview")
      <3>1. PICK n \in remote["preview"]..run.files :
               /\ remote' = [remote EXCEPT !["preview"] = n]
               /\ IF n = run.files THEN Goto(NextDatabase("preview")) ELSE run' = NoRun
        BY <2>6 DEF Migrate
      <3>2. run.step = "preview" /\ UNCHANGED <<docs, files, reports>>
        BY <2>6 DEF Migrate
      <3>3. /\ n \in Int /\ remote["preview"] <= n /\ n <= run.files
            /\ remote' \in [Databases -> Int]
            /\ remote'["preview"] = n /\ remote'["production"] = remote["production"]
        BY <3>1
      <3>4. \/ n = run.files /\ run' = [step |-> "production", files |-> run.files]
            \/ run' = [step |-> "none", files |-> 0]
        BY <3>1, StepsOfARun DEF Goto, NoRun
      <3>5. DatabasesTyped'
        BY <3>2, <3>3, <3>4
      <3>6. MigrationsInOrder'
        BY <3>2, <3>3, <3>4
      <3>7. DatabaseEvidenceIsTrue'
        BY <3>2, <3>3
      <3> QED  BY <3>5, <3>6, <3>7
    <2>7. CASE Migrate("production")
      <3>1. PICK n \in remote["production"]..run.files :
               /\ remote' = [remote EXCEPT !["production"] = n]
               /\ IF n = run.files THEN Goto(NextDatabase("production")) ELSE run' = NoRun
        BY <2>7 DEF Migrate
      <3>2. run.step = "production" /\ UNCHANGED <<docs, files, reports>>
        BY <2>7 DEF Migrate
      <3>3. /\ n \in Int /\ remote["production"] <= n /\ n <= run.files
            /\ remote' \in [Databases -> Int]
            /\ remote'["production"] = n /\ remote'["preview"] = remote["preview"]
        BY <3>1
      <3>4. \/ n = run.files /\ run' = [step |-> "report", files |-> run.files]
            \/ run' = [step |-> "none", files |-> 0]
        BY <3>1, StepsOfARun DEF Goto, NoRun
      <3>5. DatabasesTyped'
        BY <3>2, <3>3, <3>4
      <3>6. MigrationsInOrder'
        BY <3>2, <3>3, <3>4
      <3>7. DatabaseEvidenceIsTrue'
        BY <3>2, <3>3
      <3> QED  BY <3>5, <3>6, <3>7
    <2> QED  BY <1>3, <2>1, <2>2, <2>3, <2>4, <2>5, <2>6, <2>7 DEF Database
  <1>4. docs \in Documents /\ reports \in SUBSET Nat
    BY DEF DatabasesTyped
  <1> QED  BY <1>1, <1>2, <1>3, <1>4, StepKinds

-----------------------------------------------------------------------------
(* Production.                                                             *)

\* A job has begun when it deploys the public Worker.
LEMMA JobsBegin ==
    ASSUME NEW j \in Jobs, NEW succeeds
    PROVE  /\ Begun(j, succeeds) \in Jobs
           /\ Begun(j, succeeds).step = j.step
           /\ Begun(j, succeeds).started <=> j.step = "deploy-public"
           /\ Begun(j, succeeds).closable <=> j.closable
  <1> DEFINE begun == j.step = "deploy-public"
             b == [j EXCEPT !.started = begun]
  <1>1. begun \in BOOLEAN
    OBVIOUS
  <1>2. Begun(j, succeeds) = b
    BY Zenon DEF Begun
  <1> HIDE DEF begun
  <1>3. b \in Jobs /\ b.step = j.step /\ (b.started <=> begun) /\ (b.closable <=> j.closable)
    BY <1>1 DEF Jobs
  <1> QED  BY <1>2, <1>3, Zenon DEF begun

\* A failed job rolls back what it began and can close.
LEMMA JobsFail ==
    ASSUME NEW j \in Jobs
    PROVE  /\ AfterFailure(j) \in Jobs
           /\ AfterFailure(j).step =
                 IF j.started /\ j.closable THEN "deploy-rollback" ELSE "idle"
  <1> DEFINE none == NoJob
             back == [none EXCEPT !.step = "deploy-rollback"]
  <1>1. none \in Jobs /\ none.step = "idle"
    BY DEF NoJob, Jobs
  <1> HIDE DEF none
  <1>2. back \in Jobs /\ back.step = "deploy-rollback"
    BY <1>1 DEF Jobs
  <1>3. AfterFailure(j) = IF j.started /\ j.closable THEN back ELSE none
    BY Zenon DEF AfterFailure, none
  <1> HIDE DEF back
  <1> QED  BY <1>1, <1>2, <1>3

LEMMA Verifications ==
    /\ Verifies("deploy-public") = "verify-public"
    /\ Verifies("deploy-halted") = "verify-halted"
    /\ Verifies("deploy-rollback") = "verify-rollback"
  <1>1. Verifies("deploy-public") = "verify-public"
    BY Zenon DEF Verifies
  <1>2. Verifies("deploy-halted") = "verify-halted"
    BY Zenon DEF Verifies
  <1>3. Verifies("deploy-rollback") = "verify-rollback"
    BY Zenon DEF Verifies
  <1> QED  BY <1>1, <1>2, <1>3

\* A public Worker answers "enabled", whatever the clock.
LEMMA PublicAnswers ==
    ASSUME live.mode = "public"
    PROVE  StatusEndpoint = "enabled"
  <1>1. OperationsMode = "public"
    BY DEF OperationsMode
  <1> QED  BY <1>1, Zenon DEF StatusEndpoint

\* What is deployed for the public was accepted whole, and can be halted again.
LEMMA ReleaseIsProven ==
    ASSUME docs \in Documents, ReleaseInv, ReleaseIsApproved(docs)
    PROVE  Proven
  <1>1. \A a \in Assets : trial[a] = "settled"
    BY DEF ReleaseInv, ReviewComesFirst, ReleaseIsApproved, Evidence, Remaining, Assets
  <1>2. "xrp" \in Assets
    BY DEF Assets
  <1>3. "halted" \in seen
    BY <1>1, <1>2 DEF ReleaseInv, ReviewComesFirst
  <1> QED  BY <1>1, <1>3 DEF Proven

LEMMA PublicIsClosable ==
    ASSUME NEW d \in Documents, PublicConfigAllowed(d)
    PROVE  HaltedConfigAllowed(d)
  BY DEF PublicConfigAllowed, HaltedConfigAllowed, ReleaseIsApproved, Evidence, Remaining

LEMMA ReleaseStep ==
    ASSUME docs \in Documents, reports \in SUBSET Nat, ReleaseInv, [Next]_vars
    PROVE  ReleaseInv'
  <1>1. CASE DocsMove /\ UNCHANGED <<dbVars, live, window, job, seen, trial>>
    <2>1. ReleaseTyped' /\ WindowsHaveTokens' /\ PublicIsWatched'
      BY <1>1 DEF ReleaseInv, ReleaseTyped, WindowsHaveTokens, PublicIsWatched, Proven
    <2>2. ReviewComesFirst'
      BY <1>1 DEF ReleaseInv, ReviewComesFirst, DocsMove
    <2> QED  BY <2>1, <2>2 DEF ReleaseInv
  <1>2. CASE (Database /\ UNCHANGED <<docs, relVars>>) \/ UNCHANGED vars
    BY <1>2 DEF vars, relVars, ReleaseInv, ReleaseTyped, WindowsHaveTokens, ReviewComesFirst,
                PublicIsWatched, Proven
  <1>3. CASE Release /\ UNCHANGED <<docs, dbVars>>
    <2> USE DEF Unprepared, Assets, NoToken
    <2>0. /\ ReleaseTyped /\ WindowsHaveTokens /\ ReviewComesFirst /\ PublicIsWatched
          /\ UNCHANGED docs
      BY <1>3 DEF ReleaseInv
    <2>1. ASSUME NEW a \in Assets, PrepareWindow(a)
          PROVE  ReleaseInv'
      <3>1. /\ window[a] = -1 /\ docs.vars = "reviewed"
            /\ window' = [window EXCEPT ![a] = WindowTicks]
            /\ UNCHANGED <<docs, live, job, seen, trial>>
        BY <2>1 DEF PrepareWindow, WindowAllowed, CommittedTargetIsHalted
      <3>2. "halted" \in seen
        BY <2>0, <3>1 DEF ReviewComesFirst
      <3>3. ReleaseTyped'
        BY <2>0, <3>1, WindowAssumption DEF ReleaseTyped
      <3>4. WindowsHaveTokens' /\ PublicIsWatched'
        BY <2>0, <3>1 DEF WindowsHaveTokens, PublicIsWatched, Proven
      <3>5. ReviewComesFirst'
        BY <2>0, <3>1, <3>2 DEF ReviewComesFirst
      <3> QED  BY <3>3, <3>4, <3>5 DEF ReleaseInv
    <2>2. ASSUME NEW a \in Assets, TrialPayment(a)
          PROVE  ReleaseInv'
      <3>1. /\ live.window = a /\ UNCHANGED <<docs, live, window, job, seen>>
            /\ \/ /\ trial[a] = "none" /\ Serves("create", a)
                  /\ trial' = [trial EXCEPT ![a] = "requested"]
               \/ /\ trial[a] = "requested" /\ trial' = [trial EXCEPT ![a] = "settled"]
        BY <2>2 DEF TrialPayment
      <3>2. "halted" \in seen
        <4>1. CASE trial[a] = "requested"
          BY <2>0, <4>1 DEF ReviewComesFirst
        <4>2. CASE Serves("create", a)
          <5>1. live.mode # "public"
            BY <2>0, <3>1 DEF WindowsHaveTokens
          <5>2. window[a] > 0
            BY <2>0, <3>1, <4>2, <5>1 DEF Serves, OperationAllowed, OperationsMode, Expired,
                                          ReleaseTyped
          <5> QED  BY <2>0, <5>2 DEF ReviewComesFirst
        <4> QED  BY <3>1, <4>1, <4>2
      <3>3. ReleaseTyped'
        BY <2>0, <3>1 DEF ReleaseTyped
      <3>4. WindowsHaveTokens'
        BY <2>0, <3>1 DEF WindowsHaveTokens
      <3>5. ReviewComesFirst'
        <4>1. \A w \in Assets : trial[w] = "settled" => trial'[w] = "settled"
          BY <2>0, <3>1 DEF ReleaseTyped
        <4> QED  BY <2>0, <3>1, <3>2, <4>1 DEF ReviewComesFirst
      <3>6. PublicIsWatched'
        <4>1. Proven => Proven'
          BY <2>0, <3>1 DEF ReleaseTyped, Proven
        <4> QED  BY <2>0, <3>1, <4>1 DEF PublicIsWatched
      <3> QED  BY <3>3, <3>4, <3>5, <3>6 DEF ReleaseInv
    <2>3. ASSUME NEW a \in Assets, NEW mode \in {"enabled", "verify-only", "halted"},
                 DeployWindow(a, mode)
          PROVE  ReleaseInv'
      <3>1. /\ live' \in {[mode |-> "halted", window |-> "none"], [mode |-> mode, window |-> a]}
            /\ UNCHANGED <<docs, window, job, seen, trial>>
        BY <2>3 DEF DeployWindow, Worker
      <3>2. ReleaseTyped' /\ WindowsHaveTokens'
        BY <2>0, <3>1 DEF ReleaseTyped, WindowsHaveTokens
      <3>3. ReviewComesFirst' /\ PublicIsWatched'
        BY <2>0, <3>1 DEF ReviewComesFirst, PublicIsWatched, Proven
      <3> QED  BY <3>2, <3>3 DEF ReleaseInv
    <2>4. CASE Tick
      <3>1. /\ window' = [w \in Assets |-> IF window[w] > 0 THEN window[w] - 1 ELSE window[w]]
            /\ UNCHANGED <<docs, live, job, seen, trial>>
        BY <2>4 DEF Tick
      <3>2. window' \in [Assets -> -1..WindowTicks]
        BY <2>0, <3>1, WindowAssumption DEF ReleaseTyped
      <3>3. \A w \in Assets : /\ window[w] # -1 => window'[w] # -1
                              /\ window'[w] > 0 => window[w] > 0
        BY <2>0, <3>1, WindowAssumption DEF ReleaseTyped
      <3>4. ReleaseTyped'
        BY <2>0, <3>1, <3>2 DEF ReleaseTyped
      <3>5. WindowsHaveTokens' /\ PublicIsWatched'
        BY <2>0, <3>1 DEF WindowsHaveTokens, PublicIsWatched, Proven
      <3>6. ReviewComesFirst'
        BY <2>0, <3>1, <3>3 DEF ReviewComesFirst
      <3> QED  BY <3>4, <3>5, <3>6 DEF ReleaseInv
    <2>5. CASE StartHalted
      <3>1. job = NoJob /\ job' = [step |-> "deploy-halted", started |-> FALSE, closable |-> FALSE]
        BY <2>5 DEF StartHalted, NoJob
      <3>2. UNCHANGED <<docs, live, window, seen, trial>>
        BY <2>5 DEF StartHalted
      <3> QED  BY <2>0, <3>1, <3>2 DEF ReleaseInv, ReleaseTyped, WindowsHaveTokens,
                  ReviewComesFirst, PublicIsWatched, Proven, NoJob, Jobs
    <2>6. CASE StartPublic
      <3>1. HaltedConfigAllowed(docs) /\ Proven
        BY <2>6, PublicIsClosable, ReleaseIsProven DEF StartPublic
      <3>2. /\ job = NoJob
            /\ job' = [step |-> "deploy-public", started |-> FALSE, closable |-> TRUE]
            /\ UNCHANGED <<docs, live, window, seen, trial>>
        BY <2>6, <3>1 DEF StartPublic
      <3> QED  BY <2>0, <3>1, <3>2 DEF ReleaseInv, ReleaseTyped, WindowsHaveTokens,
                  ReviewComesFirst, PublicIsWatched, Proven, NoJob, Jobs
    <2>7. CASE BuildFails
      <3>1. /\ job.step \in {"deploy-halted", "deploy-public", "deploy-rollback"}
            /\ job' \in Jobs /\ job'.step \in {"deploy-rollback", "idle"}
            /\ UNCHANGED <<docs, live, window, trial>>
        BY <2>0, <2>7, JobsFail DEF BuildFails, ReleaseTyped
      <3>2. /\ seen' = seen \/ seen' = seen \cup {"unclosed"}
            /\ job.step = "deploy-rollback" => "unclosed" \in seen'
        BY <2>7 DEF BuildFails, Left
      <3>3. ReleaseTyped'
        BY <2>0, <3>1, <3>2 DEF ReleaseTyped
      <3>4. WindowsHaveTokens' /\ ReviewComesFirst'
        BY <2>0, <3>1, <3>2 DEF WindowsHaveTokens, ReviewComesFirst
      <3>5. PublicIsWatched'
        BY <2>0, <3>1, <3>2 DEF PublicIsWatched, Proven
      <3> QED  BY <3>3, <3>4, <3>5 DEF ReleaseInv
    <2>8. CASE Deploy
      <3> DEFINE begun == Begun(job, TRUE)
                 works == [begun EXCEPT !.step = Verifies(job.step)]
                 fails == AfterFailure(Begun(job, FALSE))
                 made == Worker(Target(job.step))
      <3>1. /\ job.step \in {"deploy-halted", "deploy-public", "deploy-rollback"}
            /\ job \in Jobs
            /\ UNCHANGED <<docs, window, trial>>
        BY <2>0, <2>8 DEF Deploy, ReleaseTyped
      <3>2. \/ live' = made /\ job' = works /\ seen' = Unseen(job, seen)
            \/ live' \in {live, made} /\ job' = fails /\ seen' = Unseen(job, Left(job))
        BY <2>8, Zenon DEF Deploy
      <3>3. /\ fails \in Jobs
            /\ fails.step = IF job.step = "deploy-public" /\ job.closable THEN "deploy-rollback"
                            ELSE "idle"
        <4> DEFINE b == Begun(job, FALSE)
        <4>1. b \in Jobs /\ (b.started <=> job.step = "deploy-public")
              /\ (b.closable <=> job.closable)
          BY <3>1, JobsBegin
        <4> HIDE DEF b
        <4>2. /\ AfterFailure(b) \in Jobs
              /\ AfterFailure(b).step =
                    IF b.started /\ b.closable THEN "deploy-rollback" ELSE "idle"
          BY <4>1, JobsFail
        <4> QED  BY <4>1, <4>2 DEF b
      <3>4. /\ works \in Jobs /\ works.step = Verifies(job.step)
            /\ works.started <=> job.step = "deploy-public"
            /\ works.closable <=> job.closable
        <4>1. /\ begun \in Jobs /\ (begun.started <=> job.step = "deploy-public")
              /\ (begun.closable <=> job.closable)
          BY <3>1, JobsBegin
        <4>2. Verifies(job.step) \in {"verify-public", "verify-halted", "verify-rollback"}
          BY <3>1, Verifications
        <4> HIDE DEF begun
        <4> QED  BY <4>1, <4>2 DEF Jobs
      <3> HIDE DEF works, fails, made
      <3>5. job' \in Jobs
        BY <3>2, <3>3, <3>4
      <3>6. CASE job.step = "deploy-public"
        <4>1. job.closable /\ Proven
          BY <2>0, <3>6 DEF PublicIsWatched
        <4>2. made = [mode |-> "public", window |-> "none"]
          BY <3>6 DEF made, Worker, Target
        <4>3. seen' = seen \ {"public"}
          BY <3>2, <3>6 DEF Unseen, Left
        <4>4. \/ job'.step = "verify-public" /\ job'.started /\ job'.closable
              \/ job'.step = "deploy-rollback"
          BY <3>2, <3>3, <3>4, <3>6, <4>1, Verifications
        <4>5. ReleaseTyped' /\ WindowsHaveTokens'
          BY <2>0, <3>1, <3>2, <3>5, <4>2, <4>3 DEF ReleaseTyped, WindowsHaveTokens
        <4>6. ReviewComesFirst' /\ Proven'
          BY <2>0, <3>1, <4>1, <4>3 DEF ReviewComesFirst, Proven
        <4>7. PublicIsWatched'
          BY <4>4, <4>6 DEF PublicIsWatched
        <4> QED  BY <4>5, <4>6, <4>7 DEF ReleaseInv
      <3>7. CASE job.step # "deploy-public"
        <4>1. made = [mode |-> "halted", window |-> "none"]
          BY <3>7 DEF made, Worker, Target
        <4>2. \/ /\ live' = made /\ seen' = seen
                 /\ job'.step \in {"verify-halted", "verify-rollback"}
              \/ /\ live' \in {live, made} /\ job'.step = "idle"
                 /\ seen' \in {seen, seen \cup {"unclosed"}}
                 /\ job.step = "deploy-rollback" => "unclosed" \in seen'
          BY <3>1, <3>2, <3>3, <3>4, <3>7, Verifications DEF Unseen, Left
        <4>3. seen' \in {seen, seen \cup {"unclosed"}} /\ live' \in {live, made}
          BY <4>2
        <4>4. ReleaseTyped' /\ WindowsHaveTokens'
          BY <2>0, <3>1, <3>5, <4>1, <4>3 DEF ReleaseTyped, WindowsHaveTokens
        <4>5. ReviewComesFirst' /\ (Proven => Proven')
          BY <2>0, <3>1, <4>3 DEF ReviewComesFirst, Proven
        <4>6. PublicIsWatched'
          BY <2>0, <3>1, <3>7, <4>1, <4>2, <4>5 DEF PublicIsWatched
        <4> QED  BY <4>4, <4>5, <4>6 DEF ReleaseInv
      <3> QED  BY <3>6, <3>7
    <2>9. CASE Verify
      <3>1. /\ job.step \in {"verify-halted", "verify-public", "verify-rollback"}
            /\ UNCHANGED <<docs, live, window, trial>>
        BY <2>9 DEF Verify
      <3>2. CASE StatusEndpoint = Expected(job.step) /\ job' = NoJob
                 /\ seen' \in {seen, seen \cup {"halted"}, seen \cup {"public"}}
                 /\ (job.step = "verify-public" => "public" \in seen')
        <4>1. live.mode = "public" => job.step = "verify-public"
          BY <3>1, <3>2, PublicAnswers DEF Expected
        <4> QED  BY <2>0, <3>1, <3>2, <4>1 DEF ReleaseInv, ReleaseTyped, WindowsHaveTokens,
                  ReviewComesFirst, PublicIsWatched, Proven, NoJob, Jobs
      <3>3. CASE job' = AfterFailure(job) /\ seen' = Left(job)
        <4>1. /\ seen' \in {seen, seen \cup {"unclosed"}}
              /\ job.step = "verify-rollback" => "unclosed" \in seen'
          BY <3>3 DEF Left
        <4>2. /\ job' \in Jobs /\ job'.step \in {"deploy-rollback", "idle"}
              /\ job.step = "verify-public" => job'.step = "deploy-rollback"
          BY <2>0, <3>3, JobsFail DEF PublicIsWatched, ReleaseTyped
        <4>3. ReleaseTyped'
          BY <2>0, <3>1, <4>1, <4>2 DEF ReleaseTyped
        <4>4. WindowsHaveTokens' /\ ReviewComesFirst'
          BY <2>0, <3>1, <4>1 DEF WindowsHaveTokens, ReviewComesFirst
        <4>5. PublicIsWatched'
          BY <2>0, <3>1, <4>1, <4>2 DEF PublicIsWatched, Proven
        <4> QED  BY <4>3, <4>4, <4>5 DEF ReleaseInv
      <3>4. CASE /\ StatusEndpoint = Expected(job.step) /\ job' = NoJob
                 /\ seen' = seen \cup (CASE job.step = "verify-halted" -> {"halted"}
                                         [] job.step = "verify-public" -> {"public"}
                                         [] OTHER -> {})
        <4> DEFINE now == CASE job.step = "verify-halted" -> {"halted"}
                            [] job.step = "verify-public" -> {"public"}
                            [] OTHER -> {}
        <4>1. job.step = "verify-halted" => now = {"halted"}
          BY Zenon
        <4>2. job.step = "verify-public" => now = {"public"}
          BY Zenon
        <4>3. job.step = "verify-rollback" => now = {}
          BY Zenon
        <4>4. seen' = seen \cup now
          BY <3>4, Zenon
        <4> HIDE DEF now
        <4>5. /\ seen' \in {seen, seen \cup {"halted"}, seen \cup {"public"}}
              /\ job.step = "verify-public" => "public" \in seen'
          BY <3>1, <4>1, <4>2, <4>3, <4>4
        <4>6. StatusEndpoint = Expected(job.step) /\ job' = NoJob
          BY <3>4, Zenon
        <4> QED  BY <3>2, <4>5, <4>6
      <3> QED  BY <2>9, <3>3, <3>4, Zenon DEF Verify
    <2>10. CASE JobKilled
      <3>1. /\ job' = NoJob /\ seen' = seen \cup {"unclosed"}
            /\ UNCHANGED <<docs, live, window, trial>>
        BY <2>10 DEF JobKilled
      <3> QED  BY <2>0, <3>1 DEF ReleaseInv, ReleaseTyped, WindowsHaveTokens,
                  ReviewComesFirst, PublicIsWatched, Proven, NoJob, Jobs
    <2>11. CASE DeployCommitted
      <3>1. docs.vars = "reviewed"
        BY <2>11 DEF DeployCommitted, ChecksPass, PlanIsSound, ReleaseIsApproved, Evidence,
                     Remaining
      <3>2. /\ live' = [mode |-> "halted", window |-> "none"]
            /\ UNCHANGED <<docs, window, job, seen, trial>>
        BY <2>11, <3>1 DEF DeployCommitted, Worker
      <3> QED  BY <2>0, <3>2 DEF ReleaseInv, ReleaseTyped, WindowsHaveTokens,
                  ReviewComesFirst, PublicIsWatched, Proven
    <2> QED  BY <1>3, <2>1, <2>2, <2>3, <2>4, <2>5, <2>6, <2>7, <2>8, <2>9, <2>10, <2>11
             DEF Release
  <1> QED  BY <1>1, <1>2, <1>3, StepKinds

-----------------------------------------------------------------------------
(* RLUSD is the last record of the program.                                *)

LEMMA RlusdStep ==
    ASSUME docs \in Documents, reports \in SUBSET Nat, RlusdComesLast, [Next]_vars
    PROVE  RlusdComesLast'
  <1>1. CASE DocsMove
    BY <1>1 DEF DocsMove, RlusdComesLast
  <1>2. CASE UNCHANGED docs
    BY <1>2 DEF RlusdComesLast
  <1> QED  BY <1>1, <1>2, StepKinds DEF vars

\* The documents of the three moments the release is followed from.
LEMMA FirstDocuments ==
    /\ Initial \in Documents /\ Initial.evidence = {"sourceTag"} /\ Initial.vars = "closed"
    /\ Founded \in Documents /\ Founded.evidence = Foundations /\ Founded.vars = "closed"
    /\ Founded.migrations = 1
    /\ Reviewed \in Documents /\ Reviewed.evidence = Foundations \cup {"provider", "release"}
    /\ Reviewed.migrations = 1
  <1> DEFINE i == Initial
             p == CurrentPlan({"sourceTag"}, FALSE)
             one == Imported(i, "d1")
             two == Imported(one, "stopDrill")
             q == CurrentPlan(Foundations, FALSE)
             f == [two EXCEPT !.migrations = 1, !.plan = q]
             three == Imported(f, "provider")
             r == Imported(three, "release")
  <1>1. p \in Plans /\ q \in Plans
    BY StagesAreTyped DEF Evidence, Foundations
  <1>2. i \in Documents /\ i.evidence = {"sourceTag"} /\ i.vars = "closed"
    <2>1. i = [evidence |-> {"sourceTag"}, migrations |-> 0, cleared |-> {"sourceTag"},
               decision |-> "blocked", audit |-> "waiting", gate |-> "blocked",
               named |-> Evidence \ {"sourceTag"}, plan |-> p,
               vars |-> "closed", ids |-> "placeholder", target |-> "prepared"]
      BY DEF Initial
    <2> HIDE DEF p, i
    <2> QED  BY <1>1, <2>1 DEF Documents, Findings, Evidence, Foundations
  <1>3. {"d1", "stopDrill", "provider", "release"} \subseteq Evidence \ {"sourceTag"}
    BY DEF Evidence, Foundations, Remaining
  <1>4. ImportWrites(i, "d1", one)
    <2> HIDE DEF i
    <2> QED  BY <1>2, <1>3, ImportsWrite
  <1>5. one \in Documents /\ one.evidence = {"sourceTag", "d1"} /\ one.vars = "closed"
    <2> HIDE DEF i, one
    <2> QED  BY <1>2, <1>4 DEF ImportWrites
  <1>6. ImportWrites(one, "stopDrill", two)
    <2> HIDE DEF one
    <2> QED  BY <1>3, <1>5, ImportsWrite
  <1>7. two \in Documents /\ two.evidence = Foundations /\ two.vars = "closed"
    <2> HIDE DEF one, two
    <2> QED  BY <1>5, <1>6 DEF ImportWrites, Foundations
  <1>8. /\ f \in Documents /\ f.evidence = Foundations /\ f.vars = "closed"
        /\ f.migrations = 1
    <2> HIDE DEF two, q
    <2> QED  BY <1>1, <1>7 DEF Documents
  <1>9. ImportWrites(f, "provider", three)
    <2> HIDE DEF f
    <2> QED  BY <1>3, <1>8, ImportsWrite
  <1>10. three \in Documents /\ three.evidence = Foundations \cup {"provider"}
         /\ three.migrations = 1
    <2> HIDE DEF f, three
    <2> QED  BY <1>8, <1>9 DEF ImportWrites
  <1>11. ImportWrites(three, "release", r)
    <2> HIDE DEF three
    <2> QED  BY <1>3, <1>10, ImportsWrite
  <1>12. r \in Documents /\ r.evidence = Foundations \cup {"provider", "release"}
         /\ r.migrations = 1
    <2> HIDE DEF three, r
    <2> QED  BY <1>10, <1>11 DEF ImportWrites
  <1>13. Founded = f /\ Reviewed = r
    BY Zenon DEF Founded, Reviewed
  <1> HIDE DEF i, f, r
  <1> QED  BY <1>2, <1>8, <1>12, <1>13 DEF i

LEMMA ReleaseInit ==
    ASSUME Init
    PROVE  DatabasesInv /\ ReleaseInv /\ RlusdComesLast
  <1>1. /\ run = [step |-> "none", files |-> 0] /\ reports = {} /\ files = 1
        /\ live = [mode |-> "none", window |-> "none"] /\ seen = {}
        /\ trial = [a \in Assets |-> "none"]
        /\ job \in Jobs /\ job.step = "idle"
    BY DEF Init, NoRun, NoJob, Worker, NoToken, Jobs
  <1>2. \/ docs = Founded /\ remote = [db \in Databases |-> 1]
           /\ window = [a \in Assets |-> -1]
        \/ docs = Initial /\ remote = [db \in Databases |-> -1]
           /\ window = [a \in Assets |-> 0]
        \/ docs = Reviewed /\ remote = [db \in Databases |-> 1]
           /\ window = [a \in Assets |-> 0]
    BY DEF Init, Absent, Unprepared
  <1>3. /\ docs \in Documents
        /\ "d1" \in docs.evidence => docs.migrations = 1 /\ remote = [db \in Databases |-> 1]
        /\ docs.evidence \cap {"xrp", "rlusd"} = {}
        /\ docs.vars = "reviewed" => window = [a \in Assets |-> 0]
    BY <1>2, FirstDocuments DEF Foundations
  <1>4. DatabasesInv
    BY <1>1, <1>2, <1>3 DEF DatabasesInv, DatabasesTyped, MigrationsInOrder,
                            DatabaseEvidenceIsTrue, Databases, Absent, BothExist
  <1>5. ReleaseInv
    <2>1. window \in [Assets -> {-1, 0}]
      BY <1>2
    <2>2. ReleaseTyped
      BY <1>1, <2>1, WindowAssumption DEF ReleaseTyped, Assets, NoToken, Unprepared
    <2>3. WindowsHaveTokens /\ PublicIsWatched
      BY <1>1 DEF WindowsHaveTokens, PublicIsWatched
    <2>4. ReviewComesFirst
      BY <1>1, <1>3, <2>1 DEF ReviewComesFirst, Assets, Unprepared
    <2> QED  BY <2>2, <2>3, <2>4 DEF ReleaseInv
  <1>6. RlusdComesLast
    BY <1>3 DEF RlusdComesLast
  <1> QED  BY <1>4, <1>5, <1>6

\* What every step of the release keeps: the databases are migrated in their order and
\* no further than their reports say, the Worker is paid through only after its review,
\* a public Worker was proven and is watched, and RLUSD is accepted last.
THEOREM ReleaseIsInvariant == Spec => [](DatabasesInv /\ ReleaseInv /\ RlusdComesLast)
  <1>1. Init => DatabasesInv /\ ReleaseInv /\ RlusdComesLast
    BY ReleaseInit
  <1>2. DatabasesInv /\ ReleaseInv /\ RlusdComesLast /\ [Next]_vars
        => (DatabasesInv /\ ReleaseInv /\ RlusdComesLast)'
    <2> SUFFICES ASSUME DatabasesInv, ReleaseInv, RlusdComesLast, [Next]_vars
                 PROVE  DatabasesInv' /\ ReleaseInv' /\ RlusdComesLast'
      OBVIOUS
    <2>1. docs \in Documents /\ reports \in SUBSET Nat
      BY DEF DatabasesInv, DatabasesTyped
    <2> QED  BY <2>1, DatabasesStep, ReleaseStep, RlusdStep
  <1> QED  BY <1>1, <1>2, PTL DEF Spec

\* The database record that was accepted (provision-mainnet-d1.mjs, and the import of
\* its report) counts migrations that production really has, and production never has
\* one the preview database did not get first, however runs fail and are repeated.
THEOREM DatabaseEvidenceIsKept == Spec => []DatabaseEvidenceIsTrue
  <1>1. DatabasesInv => DatabaseEvidenceIsTrue
    BY DEF DatabasesInv
  <1> QED  BY <1>1, ReleaseIsInvariant, PTL

\* Whoever has no token is served (mainnet-operations.ts) only by a public Worker that
\* was reviewed halted and had a payment of each asset settled through it, and no such
\* Worker is left alone before its job saw it work (deploy-mainnet.yml).
THEOREM PaymentsWaitForTheReview == Spec => []PaymentsAreAuthorized
  <1>1. ASSUME ReleaseInv
        PROVE  PaymentsAreAuthorized
    <2>0. ReleaseTyped /\ WindowsHaveTokens /\ PublicIsWatched
      BY <1>1 DEF ReleaseInv
    <2>1. ASSUME NEW op \in Operations, Serves(op, NoToken)
          PROVE  live.mode = "public"
      <3>1. OperationsMode \in {"public", "enabled", "verify-only"}
        BY <2>1 DEF Serves, OperationAllowed
      <3>2. live.mode \in {"public", "enabled", "verify-only"}
        BY <3>1 DEF OperationsMode
      <3>3. ~(live.mode \in {"enabled", "verify-only"})
        <4>1. live.mode \in {"enabled", "verify-only"} => live.window \in {"xrp", "rlusd"}
          BY <2>0 DEF WindowsHaveTokens, Assets
        <4>2. live.mode \in {"enabled", "verify-only"} => live.window = "none"
          BY <2>1 DEF Serves, Authorized, NoToken
        <4> QED  BY <4>1, <4>2
      <3> QED  BY <3>2, <3>3
    <2>2. live.mode = "public" => "halted" \in seen /\ \A a \in Assets : trial[a] = "settled"
      BY <2>0 DEF PublicIsWatched, Proven
    <2>3. live.mode = "public" /\ job = NoJob => seen \cap {"public", "unclosed"} # {}
      BY <2>0 DEF PublicIsWatched, NoJob
    <2> QED  BY <2>1, <2>2, <2>3 DEF PaymentsAreAuthorized
  <1> QED  BY <1>1, ReleaseIsInvariant, PTL

-----------------------------------------------------------------------------
(* The checks and the importers.                                           *)

\* What the checks say of a release that is not approved: its records determine all
\* but the plan and the count of the migrations.
Follows(d) ==
    /\ Foundations \subseteq d.evidence /\ d.cleared = d.evidence
    /\ d.decision = "blocked" /\ d.gate = "blocked" /\ d.ids = "real"
    /\ d.audit = IF Remaining \subseteq d.evidence THEN "open" ELSE "waiting"
    /\ d.vars = IF "release" \in d.evidence THEN "reviewed" ELSE "closed"
    /\ d.target = IF "release" \in d.evidence THEN "deployed" ELSE "prepared"

\* What the gate's text has to say, which is all the checks ask of it.
NamesItsFindings(d) == OpenFindings(d) \subseteq d.named

LEMMA PlanFields ==
    ASSUME NEW a \in SUBSET Evidence, NEW approved \in BOOLEAN
    PROVE  /\ CurrentPlan(a, approved).approved = approved
           /\ CurrentPlan(a, approved).stage = DeriveStage(a)
           /\ CurrentPlan(a, approved).remaining = Remaining \ a
           /\ CurrentPlan(a, approved).committed <=> "release" \in a
  BY DEF CurrentPlan

\* With its foundations, the stage of a plan says what was accepted.
LEMMA StagesTell ==
    ASSUME NEW a \in SUBSET Evidence, Foundations \subseteq a
    PROVE  /\ DeriveStage(a) = FinalAudit <=> Remaining \subseteq a
           /\ DeriveStage(a) = RlusdStage <=> {"provider", "release", "xrp"} \subseteq a /\ "rlusd" \notin a
           /\ DeriveStage(a) = XrpStage => {"provider", "release"} \subseteq a /\ "xrp" \notin a
           /\ DeriveStage(a) = ReviewStage => "provider" \in a /\ "release" \notin a
  BY StageIsDerived DEF FinalAudit, RlusdStage, XrpStage, ReviewStage, Remaining

LEMMA BlockedFollows ==
    ASSUME NEW d \in Documents, ChecksPass(d), d.decision = "blocked" \/ ~d.plan.approved
    PROVE  /\ Follows(d) /\ NamesItsFindings(d) /\ ~d.plan.approved
           /\ d.plan = CurrentPlan(d.evidence, FALSE)
  <1>0. d.plan \in Plans /\ d.evidence \in SUBSET Evidence /\ d.cleared \in SUBSET Evidence
    BY DEF Documents
  <1>1. ~d.plan.approved /\ d.plan.approved = FALSE
    BY <1>0 DEF ChecksPass, PlanIsSound, Plans
  <1>2. /\ d.plan = CurrentPlan(d.evidence, FALSE)
        /\ d.vars = IF "release" \in d.evidence THEN "reviewed" ELSE "closed"
        /\ d.decision = "blocked" /\ d.gate = "blocked"
        /\ d.audit = IF d.plan.stage = FinalAudit THEN "open" ELSE "waiting"
        /\ OpenFindings(d) = d.plan.remaining
              \cup (IF d.plan.stage = FinalAudit THEN {"final"} ELSE {})
        /\ NamesItsFindings(d)
    BY <1>1, Zenon DEF ChecksPass, PlanIsSound, NamesItsFindings
  <1>3. d.plan.remaining = Remaining \ d.evidence /\ d.plan.stage = DeriveStage(d.evidence)
    BY <1>0, <1>2, PlanFields
  <1>4. d.evidence = d.cleared
    BY DEF ChecksPass, EvidenceIsSound
  <1>5. Foundations \subseteq d.cleared
    BY <1>2, <1>3 DEF OpenFindings, Evidence, Foundations, Remaining
  <1>6. d.ids = "real"
    BY <1>2, <1>5 DEF ChecksPass, AcceptanceIsSound, Foundations
  <1>7. d.target = IF "release" \in d.evidence THEN "deployed" ELSE "prepared"
    BY <1>2 DEF ChecksPass, TargetIsSound, Documents
  <1>8. d.audit = IF Remaining \subseteq d.evidence THEN "open" ELSE "waiting"
    BY <1>0, <1>2, <1>3, <1>4, <1>5, StagesTell
  <1> QED  BY <1>1, <1>2, <1>4, <1>5, <1>6, <1>7, <1>8 DEF Follows

LEMMA FollowingPasses ==
    ASSUME NEW d \in Documents, Follows(d), NamesItsFindings(d),
           d.plan = CurrentPlan(d.evidence, FALSE)
    PROVE  ChecksPass(d)
  <1>0. d.evidence \in SUBSET Evidence
    BY DEF Documents
  <1>1. /\ d.plan.approved = FALSE /\ d.plan.remaining = Remaining \ d.evidence
        /\ d.plan.stage = FinalAudit <=> Remaining \subseteq d.evidence
    <2>1. Foundations \subseteq d.evidence
      BY DEF Follows
    <2>2. DeriveStage(d.evidence) = FinalAudit <=> Remaining \subseteq d.evidence
      BY <1>0, <2>1, StagesTell, Zenon
    <2>3. /\ d.plan.approved = FALSE /\ d.plan.remaining = Remaining \ d.evidence
          /\ d.plan.stage = DeriveStage(d.evidence)
      <3> DEFINE p == CurrentPlan(d.evidence, FALSE)
      <3>1. /\ p.approved = FALSE /\ p.remaining = Remaining \ d.evidence
            /\ p.stage = DeriveStage(d.evidence)
        BY <1>0, PlanFields
      <3> HIDE DEF p
      <3>2. d.plan = p
        BY DEF p
      <3> QED  BY <3>1, <3>2
    <2> QED  BY <2>2, <2>3
  <1>2. OpenFindings(d) = d.plan.remaining
              \cup (IF d.plan.stage = FinalAudit THEN {"final"} ELSE {})
    BY <1>0, <1>1 DEF Follows, OpenFindings, Evidence
  <1>3. PlanIsSound(d)
    <2>1. d.plan = CurrentPlan(d.evidence, d.plan.approved)
      BY <1>1
    <2>2. d.audit = IF d.plan.stage = FinalAudit THEN "open" ELSE "waiting"
      BY <1>1 DEF Follows
    <2> QED  BY <1>1, <1>2, <2>1, <2>2 DEF PlanIsSound, Follows, NamesItsFindings
  <1>4. EvidenceIsSound(d) /\ TargetIsSound(d)
    BY DEF EvidenceIsSound, TargetIsSound, Follows
  <1>5. OpenFindings(d) # {}
    BY <1>1, <1>2
  <1>6. AcceptanceIsSound(d)
    BY <1>5 DEF AcceptanceIsSound, Follows, Foundations
  <1> QED  BY <1>3, <1>4, <1>6 DEF ChecksPass

LEMMA SameDocuments ==
    ASSUME NEW d \in Documents, NEW w \in Documents, Follows(d), Follows(w),
           w.evidence = d.evidence, w.migrations = d.migrations, w.plan = d.plan
    PROVE  SameButNames(w, d)
  <1>1. /\ w.cleared = d.cleared /\ w.decision = d.decision /\ w.audit = d.audit
        /\ w.gate = d.gate /\ w.vars = d.vars /\ w.ids = d.ids /\ w.target = d.target
    BY DEF Follows
  <1> QED  BY <1>1 DEF Documents, SameButNames

\* What an importer takes from documents that pass leaves records that are followed.
LEMMA ImportsFollow ==
    ASSUME NEW d \in Documents, ChecksPass(d), NEW e \in Evidence \ {"d1"}, ImportAllowed(d, e),
           "rlusd" \in d.evidence => Evidence \ {"rlusd"} \subseteq d.cleared
    PROVE  /\ e # "sourceTag" /\ Follows(d) /\ d.plan = CurrentPlan(d.evidence, FALSE)
           /\ ImportWrites(d, e, Imported(d, e))
           /\ Follows(Imported(d, e)) /\ NamesItsFindings(Imported(d, e))
           /\ ~Imported(d, e).plan.approved
           /\ e \in {"release", "xrp", "rlusd"} =>
                 Imported(d, e).plan = CurrentPlan(Imported(d, e).evidence, FALSE)
  <1> DEFINE new == Imported(d, e)
  <1>1. e \in {"stopDrill", "provider", "release", "xrp", "rlusd"} /\ d.decision = "blocked"
    BY ImportRules DEF Evidence, Foundations, Remaining
  <1>2. /\ Follows(d) /\ NamesItsFindings(d) /\ ~d.plan.approved
        /\ d.plan = CurrentPlan(d.evidence, FALSE)
    BY <1>1, BlockedFollows
  <1>3. ImportWrites(d, e, new)
    BY <1>1, ImportsWrite
  <1>4. /\ d.evidence \in SUBSET Evidence /\ d.plan \in Plans
        /\ d.plan.stage = DeriveStage(d.evidence)
        /\ d.plan.committed <=> "release" \in d.evidence
    BY <1>2, PlanFields DEF Documents
  <1>5. /\ e = "xrp" => {"provider", "release"} \subseteq d.evidence /\ "rlusd" \notin d.evidence
        /\ e = "rlusd" => /\ {"provider", "release", "xrp"} \subseteq d.evidence
                          /\ "rlusd" \notin d.evidence
    <2>1. Foundations \subseteq d.evidence
      BY <1>2 DEF Follows
    <2>2. /\ DeriveStage(d.evidence) = RlusdStage =>
                {"provider", "release", "xrp"} \subseteq d.evidence
          /\ DeriveStage(d.evidence) = XrpStage => {"provider", "release"} \subseteq d.evidence
      BY <1>4, <2>1, StagesTell, Zenon
    <2>3. /\ e = "xrp" => d.plan.stage = XrpStage /\ "rlusd" \notin d.evidence
          /\ e = "rlusd" => d.plan.stage = RlusdStage /\ "rlusd" \notin d.evidence
      BY ImportRules, Zenon
    <2> QED  BY <1>4, <2>2, <2>3
  <1> HIDE DEF new
  <1>6. /\ new \in Documents /\ new.evidence = d.evidence \cup {e} /\ new.plan \in Plans
        /\ new.evidence \in SUBSET Evidence
    BY <1>3 DEF ImportWrites, Documents
  <1>7. Follows(new)
    <2>1. new.audit = IF Remaining \subseteq new.evidence THEN "open" ELSE "waiting"
      <3>1. CASE e = "rlusd"
        BY <1>3, <1>5, <1>6, <3>1 DEF ImportWrites, Remaining
      <3>2. CASE e # "rlusd"
        <4>1. Remaining \subseteq new.evidence <=> Remaining \subseteq d.evidence
          BY <1>2, <1>6, <3>2 DEF Follows, Remaining, Evidence
        <4>2. new.audit = d.audit
          BY <1>3, <3>2 DEF ImportWrites
        <4> QED  BY <1>2, <4>1, <4>2 DEF Follows
      <3> QED  BY <3>1, <3>2
    <2>2. /\ new.vars = IF "release" \in new.evidence THEN "reviewed" ELSE "closed"
          /\ new.target = IF "release" \in new.evidence THEN "deployed" ELSE "prepared"
      BY <1>1, <1>2, <1>3, <1>6 DEF ImportWrites, Follows
    <2> QED  BY <1>1, <1>2, <1>3, <1>6, <2>1, <2>2 DEF ImportWrites, Follows
  <1>8. ~new.plan.approved
    BY <1>1, <1>2, <1>3, <1>6, PlanFields DEF ImportWrites
  <1>9. ASSUME e \in {"release", "xrp", "rlusd"}
        PROVE  new.plan = CurrentPlan(new.evidence, FALSE)
    <2>1. CASE e = "release"
      BY <1>3, <2>1 DEF ImportWrites
    <2>2. CASE e \in {"xrp", "rlusd"}
      <3> DEFINE p == CurrentPlan(new.evidence, FALSE)
      <3>1. /\ p \in Plans /\ p.approved = FALSE /\ p.stage = DeriveStage(new.evidence)
            /\ p.remaining = Remaining \ new.evidence
            /\ p.committed <=> "release" \in new.evidence
        BY <1>6, PlanFields, StagesAreTyped
      <3> HIDE DEF p
      <3>2. new.plan.approved = p.approved
        BY <1>6, <1>8, <3>1 DEF Plans
      <3>3. new.plan.committed = p.committed
        <4>1. new.plan.committed <=> p.committed
          BY <1>3, <1>4, <1>6, <2>2, <3>1 DEF ImportWrites
        <4> QED  BY <1>6, <3>1, <4>1 DEF Plans
      <3>4. new.plan.stage = p.stage /\ new.plan.remaining = p.remaining
        <4>1. CASE e = "xrp"
          <5>1. new.plan.stage = RlusdStage /\ new.plan.remaining = {"rlusd"}
            BY <1>3, <4>1 DEF ImportWrites
          <5>2. p.stage = RlusdStage
            BY <1>2, <1>5, <1>6, <3>1, <4>1, StagesTell DEF Follows
          <5>3. p.remaining = {"rlusd"}
            BY <1>5, <1>6, <3>1, <4>1 DEF Remaining
          <5> QED  BY <5>1, <5>2, <5>3
        <4>2. CASE e = "rlusd"
          <5>1. new.plan.stage = FinalAudit /\ new.plan.remaining = {}
            BY <1>3, <4>2 DEF ImportWrites
          <5>2. Remaining \subseteq new.evidence
            BY <1>5, <1>6, <4>2 DEF Remaining
          <5>3. p.stage = FinalAudit
            BY <1>2, <1>6, <3>1, <5>2, StagesTell DEF Follows
          <5> QED  BY <3>1, <5>1, <5>2, <5>3
        <4> QED  BY <2>2, <4>1, <4>2
      <3>5. new.plan = p
        BY <1>6, <3>1, <3>2, <3>3, <3>4 DEF Plans
      <3> QED  BY <3>5 DEF p
    <2> QED  BY <1>9, <2>1, <2>2
  <1>10. NamesItsFindings(new)
    <2>1. CASE e = "rlusd"
      <3>1. Evidence \subseteq new.cleared
        BY <1>2, <1>3, <1>5, <2>1 DEF ImportWrites, Follows, Evidence, Foundations, Remaining
      <3> QED  BY <1>3, <2>1, <3>1 DEF ImportWrites, NamesItsFindings, OpenFindings
    <2>2. CASE e # "rlusd"
      BY <1>2, <1>3, <2>2 DEF ImportWrites, NamesItsFindings, OpenFindings
    <2> QED  BY <2>1, <2>2
  <1> QED  BY <1>1, <1>2, <1>3, <1>7, <1>8, <1>9, <1>10 DEF new

\* An importer that stopped between two files leaves documents the checks refuse.
LEMMA HalfImportsFail ==
    ASSUME NEW d \in Documents, ChecksPass(d), NEW e \in Evidence \ {"d1"}, ImportAllowed(d, e),
           "rlusd" \in d.evidence => Evidence \ {"rlusd"} \subseteq d.cleared,
           NEW some \in SUBSET DOMAIN Files, ChecksPass(Written(d, Imported(d, e), some))
    PROVE  \/ Written(d, Imported(d, e), some) = d
           \/ SameButNames(Written(d, Imported(d, e), some), Imported(d, e))
  <1> DEFINE new == Imported(d, e)
             w == Written(d, new, some)
  <1>1. /\ Follows(d) /\ d.plan = CurrentPlan(d.evidence, FALSE)
        /\ ImportWrites(d, e, new) /\ Follows(new) /\ e # "sourceTag"
        /\ e \in {"release", "xrp", "rlusd"} => new.plan = CurrentPlan(new.evidence, FALSE)
    BY ImportsFollow
  <1>2. new \in Documents
    BY <1>1 DEF ImportWrites
  <1>3. ByFile(d, new, some, w)
    BY <1>2, WrittenByFile, Zenon
  <1> HIDE DEF new, w
  <1>4. w \in Documents /\ w.decision = "blocked" /\ w.migrations = d.migrations
    BY <1>1, <1>3 DEF ByFile, Follows, ImportWrites
  <1>5. Follows(w) /\ NamesItsFindings(w) /\ w.plan = CurrentPlan(w.evidence, FALSE)
    BY <1>4, BlockedFollows DEF w, new
  <1>6. CASE w.evidence = d.evidence
    <2>1. SameButNames(w, d)
      BY <1>1, <1>4, <1>5, <1>6, SameDocuments
    <2>2. w.named = d.named
      <3>1. CASE e = "rlusd"
        <4>1. "rlusd" \notin w.evidence
          BY <1>6, <3>1, ImportRules, Zenon
        <4>2. "rlusd" \in w.named
          BY <1>5, <4>1 DEF NamesItsFindings, OpenFindings, Follows, Evidence, Remaining
        <4> QED  BY <1>1, <1>3, <3>1, <4>2 DEF ByFile, ImportWrites
      <3>2. CASE e # "rlusd"
        BY <1>1, <1>3, <3>2 DEF ByFile, ImportWrites
      <3> QED  BY <3>1, <3>2
    <2>3. w = d
      BY <1>4, <2>1, <2>2 DEF SameButNames, Documents
    <2> QED  BY <2>3 DEF w, new
  <1>7. CASE w.evidence = new.evidence
    <2>1. w.plan = new.plan
      <3>1. CASE e \in {"release", "xrp", "rlusd"}
        BY <1>1, <1>5, <1>7, <3>1
      <3>2. CASE e \notin {"release", "xrp", "rlusd"}
        <4>1. e \in {"stopDrill", "provider"}
          BY <1>1, <3>2 DEF Evidence, Foundations, Remaining
        <4> QED  BY <1>1, <1>3, <4>1 DEF ImportWrites, ByFile
      <3> QED  BY <3>1, <3>2
    <2>2. w.migrations = new.migrations
      BY <1>1, <1>4 DEF ImportWrites
    <2>3. SameButNames(w, new)
      BY <1>1, <1>2, <1>4, <1>5, <1>7, <2>1, <2>2, SameDocuments
    <2> QED  BY <2>3 DEF w, new
  <1> QED  BY <1>3, <1>6, <1>7 DEF ByFile

\* What the readiness checks of the two payments promise.
LEMMA ReadyWindows ==
    ASSUME docs \in Documents, ChecksPass(docs)
    PROVE  /\ XrpReady(docs) => WindowAllowed("xrp") /\ ImportAllowed(docs, "xrp")
           /\ RlusdReady(docs) => WindowAllowed("rlusd") /\ ImportAllowed(docs, "rlusd")
  <1>1. ASSUME XrpReady(docs)
        PROVE  WindowAllowed("xrp") /\ ImportAllowed(docs, "xrp")
    <2>1. /\ docs.vars = "reviewed" /\ docs.ids = "real" /\ docs.target = "deployed"
          /\ docs.plan.stage = XrpStage /\ ~docs.plan.approved /\ "rlusd" \notin docs.evidence
      BY <1>1 DEF XrpReady, AtHaltedBaseline
    <2>2. Follows(docs)
      BY <2>1, BlockedFollows
    <2>3. docs.decision = "blocked" /\ Consistent(docs, "xrp")
      BY <2>2 DEF Follows, Consistent
    <2> QED  BY <2>1, <2>3, ImportRules DEF WindowAllowed, CommittedTargetIsHalted
  <1>2. ASSUME RlusdReady(docs)
        PROVE  WindowAllowed("rlusd") /\ ImportAllowed(docs, "rlusd")
    <2>1. /\ docs.vars = "reviewed" /\ docs.ids = "real" /\ docs.target = "deployed"
          /\ docs.plan.stage = RlusdStage /\ ~docs.plan.approved
          /\ docs.plan.remaining = {"rlusd"} /\ OpenFindings(docs) = {"rlusd"}
          /\ "xrp" \in docs.evidence /\ "rlusd" \notin docs.evidence
      BY <1>2 DEF RlusdReady, AtHaltedBaseline
    <2>2. Follows(docs)
      BY <2>1, BlockedFollows
    <2>3. docs.decision = "blocked" /\ docs.gate = "blocked" /\ docs.audit = "waiting"
      BY <2>1, <2>2 DEF Follows, Remaining
    <2>4. docs.cleared = Evidence \ {"rlusd"}
      BY <2>1, <2>3 DEF OpenFindings, Documents
    <2> QED  BY <2>1, <2>3, <2>4, ImportRules DEF WindowAllowed, CommittedTargetIsHalted
  <1> QED  BY <1>1, <1>2

\* From documents that pass every check, an importer (record-*-acceptance.mjs and its
\* siblings) leaves documents that pass again when the plan is brought up to date, and one
\* killed between two of its files leaves documents that no check lets through, unless the
\* gate is all that was missing and its old text names what is open; and a readiness
\* check that passed means that the window opens and its payment is recorded.
THEOREM ImportsKeepTheChecks == Spec => ImportsAreChecked
  <1> DEFINE Inv == DatabasesInv /\ ReleaseInv /\ RlusdComesLast
  <1>1. ASSUME Inv, ChecksPass(docs)
        PROVE  /\ \A e \in Evidence :
                     /\ Import(e) => ChecksPass([docs' EXCEPT
                           !.plan = CurrentPlan(docs'.evidence, docs'.plan.approved)])
                     /\ ImportStops(e) /\ ChecksPass(docs') =>
                           docs' = docs \/ SameButNames(docs', Imported(docs, e))
               /\ XrpReady(docs) => WindowAllowed("xrp") /\ ImportAllowed(docs, "xrp")
               /\ RlusdReady(docs) => WindowAllowed("rlusd") /\ ImportAllowed(docs, "rlusd")
    <2>1. /\ docs \in Documents
          /\ "rlusd" \in docs.evidence => Evidence \ {"rlusd"} \subseteq docs.cleared
      BY <1>1 DEF DatabasesInv, DatabasesTyped, RlusdComesLast
    <2>2. ASSUME NEW e \in Evidence, Import(e)
          PROVE  ChecksPass([docs' EXCEPT
                    !.plan = CurrentPlan(docs'.evidence, docs'.plan.approved)])
      <3> DEFINE new == docs'
                 p == CurrentPlan(new.evidence, new.plan.approved)
                 done == [new EXCEPT !.plan = p]
      <3>1. new = Imported(docs, e) /\ e \in Evidence \ {"d1"} /\ ImportAllowed(docs, e)
        BY <2>2 DEF Import
      <3>2. /\ ImportWrites(docs, e, new) /\ Follows(new) /\ NamesItsFindings(new)
            /\ ~new.plan.approved
        BY <1>1, <2>1, <3>1, ImportsFollow
      <3> HIDE DEF new
      <3>3. new \in Documents /\ new.evidence \in SUBSET Evidence /\ new.plan \in Plans
        BY <3>2 DEF ImportWrites, Documents
      <3>4. new.plan.approved = FALSE
        BY <3>2, <3>3 DEF Plans
      <3>5. p = CurrentPlan(new.evidence, FALSE) /\ p \in Plans
        BY <3>3, <3>4, StagesAreTyped
      <3> HIDE DEF p
      <3>6. /\ done \in Documents /\ Follows(done) /\ NamesItsFindings(done)
            /\ done.plan = p /\ done.evidence = new.evidence
        BY <3>2, <3>3, <3>5 DEF Documents, Follows, NamesItsFindings, OpenFindings
      <3>7. ChecksPass(done)
        <4> HIDE DEF done
        <4> QED  BY <3>5, <3>6, FollowingPasses
      <3> QED  BY <3>7 DEF new, p
    <2>3. ASSUME NEW e \in Evidence, ImportStops(e), ChecksPass(docs')
          PROVE  docs' = docs \/ SameButNames(docs', Imported(docs, e))
      <3>1. e \in Evidence \ {"d1"} /\ ImportAllowed(docs, e)
        BY <2>3 DEF ImportStops
      <3>2. PICK some \in SUBSET Changed(docs, Imported(docs, e)) :
              docs' = Written(docs, Imported(docs, e), some)
        BY <2>3 DEF ImportStops
      <3>3. some \in SUBSET DOMAIN Files
        BY DEF Changed
      <3>4. ChecksPass(Written(docs, Imported(docs, e), some))
        BY <2>3, <3>2, Zenon
      <3> QED  BY <1>1, <2>1, <3>1, <3>2, <3>3, <3>4, HalfImportsFail, Zenon
    <2>4. /\ XrpReady(docs) => WindowAllowed("xrp") /\ ImportAllowed(docs, "xrp")
          /\ RlusdReady(docs) => WindowAllowed("rlusd") /\ ImportAllowed(docs, "rlusd")
      BY <1>1, <2>1, ReadyWindows, Zenon
    <2> QED  BY <2>2, <2>3, <2>4
  <1> HIDE DEF Inv
  <1>2. Spec => []Inv
    BY ReleaseIsInvariant DEF Inv
  <1> QED  BY <1>1, <1>2, PTL DEF ImportsAreChecked

=============================================================================
