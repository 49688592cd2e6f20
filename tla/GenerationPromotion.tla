------------------------- MODULE GenerationPromotion ------------------------
(***************************************************************************)
(* Promotion of index generations: IndexGenerationPromotionService over    *)
(* PostgresIndexGenerationStore (src/src/runtime/ingestion-scale.ts) and   *)
(* the CLI commands that drive it.  Clients (CLI calls, admin routes) run  *)
(* concurrently; every await is a point where another client may step in,  *)
(* and a client may die there.  One tenant and namespace: rows of another  *)
(* scope are never read or written.                                        *)
(***************************************************************************)
CONSTANTS
  Generations, NoGeneration,
  Promotions,       \* promotion ids
  Evals,            \* eval ids
  RequiredChoices,  \* the requiredEvalIds a plan may ask for
  Clients,
  MayAbandon        \* TRUE: a client may die between two statements

ASSUME PromotionAssumption ==
  /\ Promotions # {}
  /\ NoGeneration \notin Generations
  /\ RequiredChoices \subseteq SUBSET Evals
  /\ MayAbandon \in BOOLEAN

VARIABLES
  manifests,   \* index_generation_manifests: the status of each generation
  promotions,  \* index_generation_promotions
  op,          \* the command each client is executing, and what it has read
  latest,      \* history: the newest result recorded for each eval of a plan
  everPassed,  \* history: evals that have passed for a promotion at some time
  planned,     \* history: the candidate named by the plan saved last
  serial       \* history: every command so far has run alone and to its end

vars == <<manifests, promotions, op, latest, everPassed, planned, serial>>
history == <<latest, everPassed, planned>>

Verdicts == {"passed", "failed"}
Results == [Evals -> Verdicts \cup {"missing"}]
NoResults == [e \in Evals |-> "missing"]

Promotion ==
  [status: {"absent", "planned", "ready", "failed", "promoted"},
   candidate: Generations \cup {NoGeneration},
   required: SUBSET Evals, results: Results]
NoPromotion ==
  [status |-> "absent", candidate |-> NoGeneration, required |-> {}, results |-> NoResults]

Op ==
  [at: {"idle", "check_plan", "save_candidate", "save_active", "save_plan",
        "record", "read_promotion", "switch"},
   promotion: Promotions, generation: Generations \cup {NoGeneration},
   active: Generations \cup {NoGeneration}, required: SUBSET Evals, results: Results]

Active == {g \in Generations : manifests[g] = "active"}
Exists(p) == promotions[p].status # "absent"

(* promotionStatusFor *)
StatusFor(required, results) ==
  IF \E e \in required : results[e] = "failed" THEN "failed"
  ELSE IF \A e \in required : results[e] = "passed" THEN "ready"
  ELSE "planned"

(* Mistake: only failed evals hold a promotion back. *)
Ready_UnlessFailed(promotion) ==
  /\ promotion.status # "promoted"
  /\ \A e \in promotion.required : promotion.results[e] # "failed"

(* generationPromotionReadiness looks at the results, not at a stored        *)
(* "ready" or "failed".                                                      *)
Ready(promotion) ==
  /\ promotion.status # "promoted"
  /\ \A e \in promotion.required : promotion.results[e] = "passed"

(* A command on a promotion that has been planned, and what it has read. *)
On(p, place, required, results) ==
  [at |-> place, promotion |-> p, generation |-> NoGeneration,
   active |-> NoGeneration, required |-> required, results |-> results]
NoOp == On(CHOOSE p \in Promotions : TRUE, "idle", {}, NoResults)

Init ==
  /\ manifests = [g \in Generations |-> "none"]
  /\ promotions = [p \in Promotions |-> NoPromotion]
  /\ op = [c \in Clients |-> NoOp]
  /\ latest = [p \in Promotions |-> NoResults]
  /\ everPassed = {}
  /\ planned = [p \in Promotions |-> NoGeneration]
  /\ serial = TRUE

Goto(c, place) == op' = [op EXCEPT ![c].at = place]

(* The command returns or throws. *)
End(c) == op' = [op EXCEPT ![c] = NoOp]

-----------------------------------------------------------------------------
(* plan-generation-promotion *)

(* activeGenerationForPromotion: the active manifest is read first.  Nothing *)
(* keeps the candidate from being that very generation.                      *)
PlanReadsActive(c) ==
  /\ op[c].at = "idle"
  /\ \E p \in Promotions, g \in Generations, required \in RequiredChoices,
        active \in IF Active = {} THEN {NoGeneration} ELSE Active :
       op' = [op EXCEPT ![c] =
                [at |-> "check_plan", promotion |-> p, generation |-> g,
                 active |-> active, required |-> required, results |-> NoResults]]
  /\ UNCHANGED <<manifests, promotions, history>>

(* An existing plan is only overwritten with --replace true. *)
PlanChecksExisting(c) ==
  /\ op[c].at = "check_plan"
  /\ \E replace \in BOOLEAN :
       IF Exists(op[c].promotion) /\ ~ replace THEN End(c) ELSE Goto(c, "save_candidate")
  /\ UNCHANGED <<manifests, promotions, history>>

(* Mistake: the active manifest is not saved back. *)
SaveCandidate_Only(c) ==
  /\ op[c].at = "save_candidate"
  /\ manifests' = [manifests EXCEPT ![op[c].generation] = "candidate"]
  /\ Goto(c, "save_plan")
  /\ UNCHANGED <<promotions, history>>

(* saveManifest is an upsert of the whole row. *)
SaveCandidate(c) ==
  /\ op[c].at = "save_candidate"
  /\ manifests' = [manifests EXCEPT ![op[c].generation] = "candidate"]
  /\ Goto(c, IF op[c].active = NoGeneration THEN "save_plan" ELSE "save_active")
  /\ UNCHANGED <<promotions, history>>

(* The active manifest as it was read; rag_index_generation_active_scope_idx *)
(* refuses it while another generation is active.                            *)
SaveActive(c) ==
  /\ op[c].at = "save_active"
  /\ IF Active \subseteq {op[c].active}
     THEN /\ manifests' = [manifests EXCEPT ![op[c].active] = "active"]
          /\ Goto(c, "save_plan")
     ELSE /\ End(c)
          /\ UNCHANGED manifests
  /\ UNCHANGED <<promotions, history>>

(* Mistakes of savePromotion: the candidate is never written; a plan that is  *)
(* overwritten keeps its results.                                             *)
SavedPlan_NoCandidate(promotion, o) ==
  [status |-> StatusFor(o.required, NoResults), candidate |-> promotion.candidate,
   required |-> o.required, results |-> NoResults]
SavedPlan_KeepsResults(promotion, o) ==
  [status |-> StatusFor(o.required, promotion.results),
   candidate |-> IF promotion.status = "absent" THEN o.generation ELSE promotion.candidate,
   required |-> o.required, results |-> promotion.results]

(* savePromotion: on conflict the candidate of the row is left as it is. *)
SavedPlan(promotion, o) ==
  [status |-> StatusFor(o.required, NoResults),
   candidate |-> IF promotion.status = "absent" THEN o.generation ELSE promotion.candidate,
   required |-> o.required, results |-> NoResults]

SavePlan(c) ==
  LET p == op[c].promotion IN
  /\ op[c].at = "save_plan"
  /\ promotions' = [promotions EXCEPT ![p] = SavedPlan(@, op[c])]
  /\ latest' = [latest EXCEPT ![p] = NoResults]
  /\ planned' = [planned EXCEPT ![p] = op[c].generation]
  /\ End(c)
  /\ UNCHANGED <<manifests, everPassed>>

-----------------------------------------------------------------------------
(* record-generation-eval: read the row, then write back all its results *)

EvalReads(c) ==
  /\ op[c].at = "idle"
  /\ \E p \in Promotions :
       /\ Exists(p)
       /\ op' = [op EXCEPT ![c] =
                   On(p, "record", promotions[p].required, promotions[p].results)]
  /\ UNCHANGED <<manifests, promotions, history>>

WithResult(promotion, o, e, verdict) ==
  LET results == [o.results EXCEPT ![e] = verdict] IN
  [promotion EXCEPT !.results = results, !.status = StatusFor(o.required, results)]

EvalWrites(c) ==
  LET p == op[c].promotion IN
  /\ op[c].at = "record"
  /\ \E e \in Evals, verdict \in Verdicts :
       /\ promotions' = [promotions EXCEPT ![p] = WithResult(@, op[c], e, verdict)]
       /\ latest' = [latest EXCEPT ![p][e] = verdict]
       /\ everPassed' = IF verdict = "passed" THEN everPassed \cup {<<p, e>>} ELSE everPassed
  /\ End(c)
  /\ UNCHANGED <<manifests, planned>>

-----------------------------------------------------------------------------
(* promote-generation *)

(* The service's own check ... *)
PromoteChecks(c) ==
  /\ op[c].at = "idle"
  /\ \E p \in Promotions :
       /\ Exists(p) /\ Ready(promotions[p])
       /\ op' = [op EXCEPT ![c] = On(p, "read_promotion", {}, NoResults)]
  /\ UNCHANGED <<manifests, promotions, history>>

(* ... and the store's, on the row as it is read again; getManifest, which   *)
(* follows, always finds the candidate.                                      *)
PromoteReads(c) ==
  LET p == op[c].promotion IN
  /\ op[c].at = "read_promotion"
  /\ IF Ready(promotions[p])
     THEN op' = [op EXCEPT ![c] =
                   On(p, "switch", promotions[p].required, NoResults)]
     ELSE End(c)
  /\ UNCHANGED <<manifests, promotions, history>>

(* Mistakes of the switch: the generation it replaces stays active; it gets a *)
(* status the table does not know.                                            *)
Switched_DeprecatesNone(candidate) ==
  [g \in Generations |-> IF g = candidate THEN "active" ELSE manifests[g]]
Switched_Archives(candidate) ==
  [g \in Generations |->
     IF g = candidate THEN "active"
     ELSE IF manifests[g] = "active" THEN "archived" ELSE manifests[g]]

(* One statement activates the candidate, deprecates every other active      *)
(* generation and marks the promotion: none of it looks at the evals again.  *)
Switched(candidate) ==
  [g \in Generations |->
     IF g = candidate THEN "active"
     ELSE IF manifests[g] = "active" THEN "deprecated" ELSE manifests[g]]

PromoteSwitches(c) ==
  LET p == op[c].promotion IN
  /\ op[c].at = "switch"
  /\ manifests' = Switched(promotions[p].candidate)
  /\ promotions' = [promotions EXCEPT ![p].status = "promoted"]
  /\ End(c)
  /\ UNCHANGED history

(* The unique index is checked row by row: when the update visits the        *)
(* candidate before the generation it replaces, the statement fails.         *)
PromoteRefused(c) ==
  /\ op[c].at = "switch"
  /\ Active \ {promotions[op[c].promotion].candidate} # {}
  /\ End(c)
  /\ UNCHANGED <<manifests, promotions, history>>

Abandon(c) ==
  /\ MayAbandon
  /\ op[c].at # "idle"
  /\ End(c)
  /\ UNCHANGED <<manifests, promotions, history>>

Command(c) ==
  \/ PlanReadsActive(c) \/ PlanChecksExisting(c)
  \/ SaveCandidate(c) \/ SaveActive(c) \/ SavePlan(c)
  \/ EvalReads(c) \/ EvalWrites(c)
  \/ PromoteChecks(c) \/ PromoteReads(c) \/ PromoteSwitches(c) \/ PromoteRefused(c)

(* No other command is under way. *)
Alone(c) == \A d \in Clients \ {c} : op[d].at = "idle"

Next ==
  \E c \in Clients :
    \/ Command(c) /\ serial' = (serial /\ Alone(c))
    \/ Abandon(c) /\ serial' = FALSE

Spec == Init /\ [][Next]_vars

-----------------------------------------------------------------------------
RowsTyped ==
  /\ manifests \in [Generations -> {"none", "candidate", "active", "deprecated"}]
  /\ promotions \in [Promotions -> Promotion]
  /\ op \in [Clients -> Op]
  /\ latest \in [Promotions -> Results]
  /\ everPassed \subseteq Promotions \X Evals
  /\ planned \in [Promotions -> Generations \cup {NoGeneration}]

TypeOK == RowsTyped /\ serial \in BOOLEAN

(* "Postgres additionally enforces one active generation per tenant/          *)
(* namespace": the index refuses the stale snapshot a plan saves, and the     *)
(* switch deprecates whatever is active by then.                              *)
OneActiveGeneration == \A g, h \in Active : g = h

(* Whoever is about to switch has seen every required eval pass, whatever     *)
(* other clients recorded, lost or replaced since.                            *)
SwitchWasVetted ==
  \A c \in Clients : op[c].at = "switch" =>
    \A e \in op[c].required : <<op[c].promotion, e>> \in everPassed

Named(g) == \E p \in Promotions : Exists(p) /\ promotions[p].candidate = g

(* A promotion row always has its candidate's manifest, so that promote can   *)
(* find it and the switch has a row to activate; and no generation is active  *)
(* that was never the candidate of a promotion, although plans write the      *)
(* status of manifests as well and write back what may no longer be so.       *)
CandidateIsKnown ==
  /\ \A p \in Promotions : Exists(p) =>
       promotions[p].candidate \in Generations /\ manifests[promotions[p].candidate] # "none"
  /\ \A g \in Active : Named(g)

BecomesPromoted(p) ==
  promotions[p].status # "promoted" /\ promotions'[p].status = "promoted"

(* "The promotion service refuses to switch the active generation until every *)
(* required eval id has a passing result": the newest result recorded for     *)
(* each of them is a pass.                                                    *)
SwitchAfterRequiredEvals ==
  [][\A p \in Promotions : BecomesPromoted(p) =>
       \A e \in promotions[p].required : latest[p][e] = "passed"]_vars

BecomesActive(g) == manifests[g] # "active" /\ manifests'[g] = "active"
Replanned(g) == \E c \in Clients : op[c].at = "save_active" /\ op[c].generation = g

(* The same promise while commands run one after another and to their end:    *)
(* there it holds, across replaced plans, evals recorded twice and evals      *)
(* recorded after a promotion; and nothing else switches: a generation        *)
(* becomes active by its promotion only, or once more in the plan that has    *)
(* just demoted it.                                                           *)
SerialSwitchAfterRequiredEvals ==
  [][serial' =>
       /\ \A p \in Promotions : BecomesPromoted(p) =>
            \A e \in promotions[p].required : latest[p][e] = "passed"
       /\ \A g \in Generations : BecomesActive(g) =>
            Replanned(g) \/ \E p \in Promotions : BecomesPromoted(p) /\ promotions[p].candidate = g
    ]_vars

(* "overwrite the plan": the switch activates the candidate of the plan that  *)
(* was saved last.                                                            *)
SwitchesToPlannedCandidate ==
  [][\A p \in Promotions : BecomesPromoted(p) => manifests'[planned[p]] = "active"]_vars

(* While commands have run one after another, a scope that has been promoted  *)
(* to once is never without an active generation when no command is running,  *)
(* although re-planning the active generation first demotes it.               *)
ScopeStaysServed ==
  serial /\ (\A c \in Clients : op[c].at = "idle") =>
    ((\E p \in Promotions : promotions[p].status = "promoted") => Active # {})
=============================================================================
