-------------------------- MODULE ReleaseDocuments --------------------------
(***************************************************************************)
(* The documents that decide whether the Mainnet program may run, the      *)
(* checks every build makes of them, and what importing an evidence report *)
(* does to them. docs has the release evidence records that are accepted,  *)
(* with the migration count of the database record; the acceptance audit,  *)
(* where "cleared" says that the control passed and its finding is         *)
(* resolved; the release plan; the Mainnet gate, with the findings that    *)
(* the text of its audit check names; the committed Worker variables and   *)
(* database ids (wrangler.jsonc); the production target. A file is written *)
(* as a whole, and each field here belongs to one file.                    *)
(***************************************************************************)
EXTENDS Naturals, FiniteSets

Foundations == {"d1", "sourceTag", "stopDrill"}
Remaining   == {"provider", "release", "xrp", "rlusd"}
Evidence    == Foundations \cup Remaining

\* The stages of the plan, in order; each of 2 to 5 waits for one record.
FoundationStage == 1
ProviderStage   == 2
ReviewStage     == 3
XrpStage        == 4
RlusdStage      == 5
FinalAudit      == 6
Stages == FoundationStage .. FinalAudit
StageOf == [provider |-> ProviderStage, release |-> ReviewStage,
            xrp |-> XrpStage, rlusd |-> RlusdStage]

\* What each file holds, and the files of a set of documents.
Files == [evidence   |-> {"evidence", "migrations"},
          acceptance |-> {"cleared", "decision", "audit"},
          plan       |-> {"plan"},
          gate       |-> {"gate", "named"},
          wrangler   |-> {"vars", "ids"},
          target     |-> {"target"}]

\* The first unresolved record determines the stage.
DeriveStage(accepted) ==
    IF ~(Foundations \subseteq accepted) THEN FoundationStage
    ELSE CHOOSE s \in Stages :
            /\ s = FinalAudit <=> Remaining \subseteq accepted
            /\ s # FinalAudit => \E e \in Remaining \ accepted :
                 s = StageOf[e] /\ \A o \in Remaining \ accepted : s <= StageOf[o]

\* A plan is rewritten together: stage, remaining evidence, staged target.
CurrentPlan(accepted, approved) ==
    [approved |-> approved, stage |-> DeriveStage(accepted),
     remaining |-> Remaining \ accepted, committed |-> "release" \in accepted]

OpenFindings(d) ==
    (Evidence \ d.cleared) \cup (IF d.audit = "open" THEN {"final"} ELSE {})
------------------------------------------------------------------------------
(* The checks.                                                             *)

PlanIsSound(d) ==
    /\ d.plan = CurrentPlan(d.evidence, d.plan.approved)
    /\ d.vars = IF "release" \in d.evidence THEN "reviewed" ELSE "closed"
    /\ IF d.plan.approved
       THEN /\ d.plan.stage = FinalAudit
            /\ d.decision = "approved" /\ d.gate = "ready" /\ d.audit = "passed"
            /\ d.cleared = Evidence
       ELSE /\ d.decision = "blocked" /\ d.gate = "blocked"
            /\ d.audit = IF d.plan.stage = FinalAudit THEN "open" ELSE "waiting"
            /\ OpenFindings(d) = d.plan.remaining
                 \cup (IF d.plan.stage = FinalAudit THEN {"final"} ELSE {})
            /\ OpenFindings(d) \subseteq d.named

EvidenceIsSound(d) ==
    /\ d.evidence = d.cleared
    /\ d.decision = "approved" => d.evidence = Evidence
    /\ "d1" \in d.evidence => d.ids = "real"
    /\ "release" \in d.evidence => d.vars = "reviewed"

AcceptanceIsSound(d) ==
    IF d.decision = "approved"
    THEN d.cleared = Evidence /\ d.audit = "passed" /\ d.gate = "ready"
    ELSE /\ OpenFindings(d) # {}
         /\ d.gate = "blocked"
         /\ d.vars = IF "release" \in d.cleared THEN "reviewed" ELSE "closed"
         /\ d.ids = IF "d1" \in d.cleared THEN "real" ELSE "placeholder"

\* Mutant: the production target is not compared with the Worker variables.
AnyTarget(d) == TRUE

TargetIsSound(d) ==
    d.vars = IF d.target = "prepared" THEN "closed" ELSE "reviewed"

ChecksPass(d) ==
    PlanIsSound(d) /\ EvidenceIsSound(d) /\ AcceptanceIsSound(d) /\ TargetIsSound(d)

\* --require-complete, --require-ready and --require-mainnet.
ReleaseIsApproved(d) ==
    d.evidence = Evidence /\ d.decision = "approved" /\ d.gate = "ready"

\* The halted Worker may be deployed for its review, and again at every later stage.
HaltedConfigAllowed(d) ==
    /\ d.ids = "real" /\ "provider" \in d.evidence
    /\ \/ /\ d.plan.stage = ReviewStage /\ ~d.plan.approved
          /\ "release" \notin d.evidence /\ d.vars = "closed"
       \/ /\ "release" \in d.evidence /\ d.vars = "reviewed"
          /\ \/ d.plan.stage \in XrpStage .. FinalAudit /\ ~d.plan.approved
             \/ d.plan.stage = FinalAudit /\ d.plan.approved

PublicConfigAllowed(d) ==
    /\ d.plan.approved /\ d.plan.stage = FinalAudit
    /\ ReleaseIsApproved(d) /\ d.cleared = Evidence /\ d.audit = "passed"
    /\ d.target = "deployed" /\ d.vars = "reviewed" /\ d.ids = "real"
\* Before an acceptance window: the halted Worker is reviewed, the acceptance of
\* this asset is next, and nothing but what is still to be accepted is open.
AtHaltedBaseline(d) ==
    /\ "release" \in d.evidence /\ d.target = "deployed"
    /\ d.vars = "reviewed" /\ d.ids = "real"

XrpReady(d) ==
    /\ AtHaltedBaseline(d) /\ d.plan.stage = XrpStage /\ ~d.plan.approved
    /\ {"xrp", "rlusd"} \cap d.evidence = {} /\ OpenFindings(d) = {"xrp", "rlusd"}

RlusdReady(d) ==
    /\ AtHaltedBaseline(d) /\ d.plan.stage = RlusdStage /\ ~d.plan.approved
    /\ d.plan.remaining = {"rlusd"}
    /\ "xrp" \in d.evidence /\ "rlusd" \notin d.evidence /\ OpenFindings(d) = {"rlusd"}
------------------------------------------------------------------------------
(* The importers: when a report is taken, and the documents it leaves.     *)

\* Record, control and finding agree: nothing imported yet, or a replay.
Consistent(d, e) == e \in d.evidence <=> e \in d.cleared

Accept(d, e) == [d EXCEPT !.evidence = @ \cup {e}, !.cleared = @ \cup {e}]

ImportAllowed(d, e) ==
    CASE e = "d1" -> d.vars = "closed"
      [] e \in {"provider", "stopDrill"} -> d.decision = "blocked" /\ Consistent(d, e)
      [] e = "release" ->
            /\ d.decision = "blocked" /\ ~d.plan.approved /\ Consistent(d, e)
            /\ "release" \in d.evidence \/ d.plan.stage = ReviewStage
            /\ d.vars \in {"closed", "reviewed"}
      [] e = "xrp" ->
            /\ d.decision = "blocked" /\ ~d.plan.approved /\ Consistent(d, e)
            /\ d.plan.stage = XrpStage /\ "rlusd" \notin d.evidence
            /\ d.vars = "reviewed" /\ d.target = "deployed"
      [] e = "rlusd" ->
            /\ d.decision = "blocked" /\ ~d.plan.approved /\ d.gate = "blocked"
            /\ d.plan.stage = RlusdStage /\ d.audit = "waiting"
            /\ "rlusd" \notin d.evidence /\ d.cleared = Evidence \ {"rlusd"}
            /\ d.vars = "reviewed" /\ d.target = "deployed"
      [] OTHER -> FALSE

Imported(d, e) ==
    CASE e = "d1" -> [Accept(d, e) EXCEPT !.ids = "real"]
      [] e = "release" ->
            [Accept(d, e) EXCEPT !.vars = "reviewed", !.target = "deployed",
                                 !.plan = CurrentPlan(d.evidence \cup {e}, FALSE)]
      [] e = "xrp" ->
            [Accept(d, e) EXCEPT !.plan.stage = RlusdStage, !.plan.remaining = {"rlusd"}]
      [] e = "rlusd" ->
            [Accept(d, e) EXCEPT !.audit = "open", !.named = {"final"},
                                 !.plan.stage = FinalAudit, !.plan.remaining = {}]
      [] OTHER -> Accept(d, e)

\* The importer was stopped when it had written these files of the new documents.
Written(d, new, files) ==
    [k \in DOMAIN d |-> IF \E f \in files : k \in Files[f] THEN new[k] ELSE d[k]]
=============================================================================
