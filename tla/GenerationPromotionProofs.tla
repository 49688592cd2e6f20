---------------------- MODULE GenerationPromotionProofs ---------------------
(***************************************************************************)
(* For any number of clients, promotions, generations and evals, with      *)
(* clients dying anywhere: one generation of the scope is active, a switch *)
(* was vetted, every promotion's candidate is known and nothing else is    *)
(* active.  And for commands that run one after another: what is stored    *)
(* is up to date, and only a vetted promotion switches.                    *)
(***************************************************************************)
EXTENDS GenerationPromotion, TLAPS

(* A command under way names a generation once it plans one, and the active  *)
(* one it read, if any.                                                      *)
Planning(c) == op[c].at \in {"check_plan", "save_candidate", "save_active", "save_plan"}
OpOK ==
  \A c \in Clients :
    /\ Planning(c) => op[c].generation \in Generations
    /\ op[c].at = "save_active" => op[c].active \in Generations
    /\ Planning(c) /\ op[c].active \in Generations => Named(op[c].active)
    /\ op[c].at \in {"save_active", "save_plan"} => manifests[op[c].generation] # "none"
    /\ op[c].at \in {"record", "read_promotion", "switch"} => Exists(op[c].promotion)

(* What the rows, and the snapshots of them, show as passed has passed. *)
Evidence ==
  /\ \A p \in Promotions, e \in Evals :
       promotions[p].results[e] = "passed" => <<p, e>> \in everPassed
  /\ \A c \in Clients, e \in Evals :
       op[c].at = "record" /\ op[c].results[e] = "passed" =>
         <<op[c].promotion, e>> \in everPassed

Inv == RowsTyped /\ OpOK /\ Evidence /\ OneActiveGeneration /\ SwitchWasVetted /\ CandidateIsKnown

(* Record types, unfolded only where a record is built. *)
LEMMA NoOpTyped ==
  /\ NoOp \in Op /\ NoOp.at = "idle"
  /\ NoResults \in Results /\ \A e \in Evals : NoResults[e] = "missing"
<1>1. NoResults \in Results /\ \A e \in Evals : NoResults[e] = "missing"
  BY DEF NoResults, Results
<1>2. (CHOOSE q \in Promotions : TRUE) \in Promotions
  BY PromotionAssumption DEF PromotionAssumption
<1>3. QED BY <1>1, <1>2 DEF NoOp, On, Op

LEMMA OnTyped ==
  ASSUME NEW p \in Promotions, NEW place \in {"record", "read_promotion", "switch"},
         NEW required \in SUBSET Evals, NEW results \in Results
  PROVE  LET o == On(p, place, required, results)
         IN  /\ o \in Op /\ o.at = place /\ o.promotion = p
             /\ o.required = required /\ o.results = results
  BY DEF On, Op

LEMMA InitInv == ASSUME Init PROVE Inv
<1>1. NoOp \in Op /\ NoOp.at = "idle" /\ NoResults \in Results
      /\ \A e \in Evals : NoResults[e] = "missing"
  BY NoOpTyped
<1>2. NoPromotion \in Promotion /\ NoPromotion.status = "absent"
      /\ \A e \in Evals : NoPromotion.results[e] = "missing"
  BY <1>1 DEF NoPromotion, Promotion
<1>3. RowsTyped
  BY <1>1, <1>2 DEF Init, RowsTyped
<1>4. OpOK /\ Evidence /\ SwitchWasVetted
  BY <1>1, <1>2 DEF Init, OpOK, Planning, Evidence, SwitchWasVetted
<1>5. OneActiveGeneration /\ CandidateIsKnown
  BY <1>2 DEF Init, OneActiveGeneration, Active, CandidateIsKnown, Exists
<1>6. QED BY <1>3, <1>4, <1>5 DEF Inv

-----------------------------------------------------------------------------
(* A client that ends its command, or takes a new one, changes op only. *)
LEMMA OpStep ==
  ASSUME Inv, NEW c \in Clients, NEW o \in Op, op' = [op EXCEPT ![c] = o],
         UNCHANGED <<manifests, promotions, history>>,
         o.at \in {"check_plan", "save_candidate", "save_active", "save_plan"} =>
           o.generation \in Generations,
         o.at = "save_active" => o.active \in Generations,
         o.at \in {"check_plan", "save_candidate", "save_active", "save_plan"}
           /\ o.active \in Generations => Named(o.active),
         o.at \in {"save_active", "save_plan"} => manifests[o.generation] # "none",
         o.at \in {"record", "read_promotion", "switch"} => Exists(o.promotion),
         \A e \in Evals : o.at = "record" /\ o.results[e] = "passed" =>
           <<o.promotion, e>> \in everPassed,
         o.at = "switch" => \A e \in o.required : <<o.promotion, e>> \in everPassed
  PROVE  Inv'
<1>1. op' \in [Clients -> Op] /\ \A d \in Clients : op'[d] = IF d = c THEN o ELSE op[d]
  BY DEF Inv, RowsTyped
<1>2. RowsTyped'
  BY <1>1 DEF Inv, RowsTyped, history
<1>3. OpOK'
  BY <1>1 DEF Inv, OpOK, Planning, Exists, Named, history
<1>4. Evidence'
  BY <1>1 DEF Inv, Evidence, history
<1>5. SwitchWasVetted'
  BY <1>1 DEF Inv, SwitchWasVetted, history
<1>6. OneActiveGeneration' /\ CandidateIsKnown'
  BY DEF Inv, OneActiveGeneration, Active, CandidateIsKnown, Exists, Named, history
<1>7. QED BY <1>2, <1>3, <1>4, <1>5, <1>6 DEF Inv

LEMMA EndStep ==
  ASSUME Inv, NEW c \in Clients, End(c), UNCHANGED <<manifests, promotions, history>>
  PROVE  Inv'
<1>1. NoOp \in Op /\ NoOp.at = "idle"
  <2>1. op[c] \in Op
    BY DEF Inv, RowsTyped
  <2>2. op[c].promotion \in Promotions
    BY <2>1 DEF Op
  <2>3. QED BY <2>2, NoOpTyped
<1>2. QED BY <1>1, OpStep DEF End

LEMMA OpTyped ==
  ASSUME Inv, NEW c \in Clients
  PROVE  /\ op[c] \in Op /\ op[c].promotion \in Promotions
         /\ op[c].required \in SUBSET Evals /\ op[c].results \in Results
         /\ NoOp \in Op /\ NoOp.at = "idle"
<1>1. op[c] \in Op
  BY DEF Inv, RowsTyped
<1>2. op[c].promotion \in Promotions
  BY <1>1 DEF Op
<1>3. QED BY <1>1, <1>2, NoOpTyped DEF Op

LEMMA PlanReadsActiveStep == ASSUME Inv, NEW c \in Clients, PlanReadsActive(c) PROVE Inv'
<1>1. PICK p \in Promotions, g \in Generations, required \in RequiredChoices,
           active \in Active \cup {NoGeneration} :
        op' = [op EXCEPT ![c] =
                 [at |-> "check_plan", promotion |-> p, generation |-> g,
                  active |-> active, required |-> required, results |-> NoResults]]
  <2>1. Active \subseteq Generations
    BY DEF Active
  <2>2. QED BY <2>1 DEF PlanReadsActive
<1>2. [at |-> "check_plan", promotion |-> p, generation |-> g,
       active |-> active, required |-> required, results |-> NoResults] \in Op
  BY PromotionAssumption, NoOpTyped DEF Op, PromotionAssumption, Active
<1>3. active \in Generations => Named(active)
  BY PromotionAssumption DEF PromotionAssumption, Inv, CandidateIsKnown
<1>4. QED BY <1>1, <1>2, <1>3, OpStep DEF PlanReadsActive

LEMMA GotoOp ==
  ASSUME Inv, NEW c \in Clients,
         NEW place \in {"save_candidate", "save_active", "save_plan"}, Goto(c, place)
  PROVE  /\ [op[c] EXCEPT !.at = place] \in Op
         /\ op' = [op EXCEPT ![c] = [op[c] EXCEPT !.at = place]]
  BY DEF Inv, RowsTyped, Goto, Op

LEMMA PlanChecksExistingStep == ASSUME Inv, NEW c \in Clients, PlanChecksExisting(c) PROVE Inv'
<1>1. CASE End(c)
  BY <1>1, EndStep DEF PlanChecksExisting
<1>2. CASE Goto(c, "save_candidate")
  <2>1. PICK o \in Op : o = [op[c] EXCEPT !.at = "save_candidate"] /\ op' = [op EXCEPT ![c] = o]
    BY <1>2, GotoOp
  <2>2. o.at = "save_candidate" /\ o.generation = op[c].generation /\ o.active = op[c].active
    BY <2>1, OpTyped DEF Op
  <2>3. op[c].generation \in Generations /\ (op[c].active \in Generations => Named(op[c].active))
    BY DEF PlanChecksExisting, Inv, OpOK, Planning
  <2>4. QED BY <2>1, <2>2, <2>3, OpStep DEF PlanChecksExisting
<1>3. QED BY <1>1, <1>2 DEF PlanChecksExisting

(* The manifest of one generation becomes something other than "none". *)
LEMMA ManifestStep ==
  ASSUME Inv, NEW c \in Clients, NEW g \in Generations, NEW status \in {"candidate", "active"},
         manifests' = [manifests EXCEPT ![g] = status],
         status = "active" => Active \subseteq {g} /\ Named(g),
         NEW place \in {"save_active", "save_plan"}, Goto(c, place),
         op[c].generation \in Generations, manifests'[op[c].generation] # "none",
         op[c].active \in Generations => Named(op[c].active),
         place = "save_active" => op[c].active \in Generations,
         UNCHANGED <<promotions, history>>
  PROVE  Inv'
<1>1. PICK o \in Op : o = [op[c] EXCEPT !.at = place] /\ op' = [op EXCEPT ![c] = o]
  BY GotoOp
<1>2. o.at = place /\ o.generation = op[c].generation /\ o.active = op[c].active
      /\ o.promotion = op[c].promotion
  BY <1>1, OpTyped DEF Op
<1>3. op' \in [Clients -> Op] /\ \A d \in Clients : op'[d] = IF d = c THEN o ELSE op[d]
  BY <1>1 DEF Inv, RowsTyped
<1>4. \A h \in Generations : manifests'[h] = IF h = g THEN status ELSE manifests[h]
  BY DEF Inv, RowsTyped
<1>5. RowsTyped'
  BY <1>3 DEF Inv, RowsTyped, history
<1>6. OpOK'
  BY <1>2, <1>3, <1>4 DEF Inv, OpOK, Planning, Exists, Named
<1>7. Evidence' /\ SwitchWasVetted'
  BY <1>2, <1>3 DEF Inv, Evidence, SwitchWasVetted, history
<1>8. OneActiveGeneration'
  BY <1>4 DEF Inv, OneActiveGeneration, Active
<1>9. CandidateIsKnown'
  BY <1>4 DEF Inv, CandidateIsKnown, Exists, Named, Active
<1>10. QED BY <1>5, <1>6, <1>7, <1>8, <1>9 DEF Inv

LEMMA SaveCandidateStep == ASSUME Inv, NEW c \in Clients, SaveCandidate(c) PROVE Inv'
<1>1. op[c].generation \in Generations /\ manifests \in [Generations -> {"none", "candidate", "active", "deprecated"}]
  BY DEF SaveCandidate, Inv, OpOK, Planning, RowsTyped
<1>2. manifests'[op[c].generation] = "candidate"
  BY <1>1 DEF SaveCandidate
<1>3. op[c].active \in Generations \cup {NoGeneration}
  BY OpTyped DEF Op
<1>4. PICK place \in {"save_active", "save_plan"} :
        Goto(c, place) /\ (place = "save_active" => op[c].active # NoGeneration)
  BY DEF SaveCandidate
<1>5. op[c].active \in Generations => Named(op[c].active)
  BY DEF SaveCandidate, Inv, OpOK, Planning
<1>6. QED BY <1>1, <1>2, <1>3, <1>4, <1>5, ManifestStep DEF SaveCandidate

LEMMA SaveActiveStep == ASSUME Inv, NEW c \in Clients, SaveActive(c) PROVE Inv'
<1>1. CASE Active \subseteq {op[c].active}
  <2>1. op[c].generation \in Generations /\ op[c].active \in Generations
        /\ manifests[op[c].generation] # "none" /\ Named(op[c].active)
    BY DEF SaveActive, Inv, OpOK, Planning
  <2>2. manifests' = [manifests EXCEPT ![op[c].active] = "active"] /\ Goto(c, "save_plan")
    BY <1>1 DEF SaveActive
  <2>3. manifests'[op[c].generation] # "none"
    BY <2>1, <2>2 DEF Inv, RowsTyped
  <2>4. QED BY <1>1, <2>1, <2>2, <2>3, ManifestStep DEF SaveActive
<1>2. CASE ~ (Active \subseteq {op[c].active})
  BY <1>2, EndStep DEF SaveActive, history
<1>3. QED BY <1>1, <1>2

(* A promotion row is replaced by one whose candidate is known. *)
LEMMA PromotionStep ==
  ASSUME Inv, NEW c \in Clients, End(c), NEW p \in Promotions, NEW promotion \in Promotion,
         promotions' = [promotions EXCEPT ![p] = promotion], promotion.status # "absent",
         promotion.candidate \in Generations, manifests'[promotion.candidate] # "none",
         manifests' \in [Generations -> {"none", "candidate", "active", "deprecated"}],
         \A g \in Generations : manifests[g] # "none" => manifests'[g] # "none",
         OneActiveGeneration',
         Exists(p) => promotion.candidate = promotions[p].candidate,
         \A g \in Generations :
           manifests'[g] = "active" => manifests[g] = "active" \/ g = promotion.candidate,
         everPassed \subseteq everPassed', everPassed' \subseteq Promotions \X Evals,
         \A e \in Evals : promotion.results[e] = "passed" => <<p, e>> \in everPassed',
         latest' \in [Promotions -> Results],
         planned' \in [Promotions -> Generations \cup {NoGeneration}]
  PROVE  Inv'
<1>1. op' \in [Clients -> Op] /\ \A d \in Clients : op'[d] = IF d = c THEN NoOp ELSE op[d]
  BY OpTyped DEF End, Inv, RowsTyped
<1>2. /\ promotions' \in [Promotions -> Promotion]
      /\ \A q \in Promotions : promotions'[q] = IF q = p THEN promotion ELSE promotions[q]
  BY DEF Inv, RowsTyped
<1>3. \A d \in Clients : op[d].promotion \in Promotions
  BY OpTyped
<1>4. NoOp.at = "idle"
  BY OpTyped
<1>5. RowsTyped'
  BY <1>1, <1>2 DEF RowsTyped
<1>6. \A g : Named(g) \/ g = promotion.candidate => Named(g)'
  BY <1>2 DEF Named, Exists
<1>7. OpOK'
  <2>1. ASSUME NEW d \in Clients, Planning(d)', op'[d].active \in Generations
        PROVE  Named(op[d].active)'
    <3>1. Planning(d) /\ op'[d].active = op[d].active
      BY <1>1, <1>4, <2>1 DEF Planning
    <3>2. Named(op[d].active)
      BY <2>1, <3>1 DEF Inv, OpOK
    <3>3. QED BY <1>2, <3>1, <3>2 DEF Named, Exists
  <2>2. QED BY <1>1, <1>2, <1>3, <1>4, <2>1 DEF Inv, OpOK, Planning, Exists
<1>8. Evidence'
  BY <1>1, <1>2, <1>4 DEF Inv, Evidence
<1>9. SwitchWasVetted'
  BY <1>1, <1>4 DEF Inv, SwitchWasVetted
<1>10. CandidateIsKnown'
  <2>1. \A g \in Active' : Named(g)'
    BY <1>6 DEF Inv, CandidateIsKnown, Active
  <2>2. QED BY <1>2, <2>1 DEF Inv, CandidateIsKnown, Exists
<1>11. QED BY <1>5, <1>7, <1>8, <1>9, <1>10 DEF Inv

LEMMA StatusTyped ==
  ASSUME NEW required, NEW results
  PROVE  StatusFor(required, results) \in {"planned", "ready", "failed"}
  BY DEF StatusFor

LEMMA SavePlanStep == ASSUME Inv, NEW c \in Clients, SavePlan(c) PROVE Inv'
<1> DEFINE p == op[c].promotion
           row == SavedPlan(promotions[p], op[c])
<1>1. p \in Promotions /\ promotions[p] \in Promotion /\ NoResults \in Results
      /\ op[c].generation \in Generations /\ manifests[op[c].generation] # "none"
      /\ op[c].required \in SUBSET Evals
  BY OpTyped, NoOpTyped DEF SavePlan, Inv, OpOK, Planning, RowsTyped
<1>2. row.candidate \in Generations /\ manifests[row.candidate] # "none"
  BY <1>1 DEF SavedPlan, Inv, CandidateIsKnown, Exists
<1>3. row \in Promotion /\ row.status # "absent" /\ row.results = NoResults
  BY <1>1, <1>2, StatusTyped DEF SavedPlan, Promotion
<1>4. \A e \in Evals : row.results[e] # "passed"
  BY <1>1, <1>3, NoOpTyped
<1>5. latest' \in [Promotions -> Results]
      /\ planned' \in [Promotions -> Generations \cup {NoGeneration}]
  BY <1>1 DEF SavePlan, Inv, RowsTyped
<1>6. promotions' = [promotions EXCEPT ![p] = row] /\ End(c) /\ UNCHANGED <<manifests, everPassed>>
  BY DEF SavePlan
<1>7. OneActiveGeneration'
  BY <1>6 DEF Inv, OneActiveGeneration, Active
<1>8. Exists(p) => row.candidate = promotions[p].candidate
  BY DEF SavedPlan, Exists
<1>9. /\ manifests' \in [Generations -> {"none", "candidate", "active", "deprecated"}]
      /\ everPassed \subseteq everPassed' /\ everPassed' \subseteq Promotions \X Evals
  BY <1>6 DEF Inv, RowsTyped
<1>10. /\ manifests' = manifests
       /\ \A e \in Evals : row.results[e] = "passed" => <<p, e>> \in everPassed'
  BY <1>4, <1>6
<1> HIDE DEF row, p
<1>11. QED
  BY <1>1, <1>2, <1>3, <1>5, <1>6, <1>7, <1>8, <1>9, <1>10, PromotionStep DEF p

LEMMA EvalReadsStep == ASSUME Inv, NEW c \in Clients, EvalReads(c) PROVE Inv'
<1>1. PICK p \in Promotions :
        /\ Exists(p)
        /\ op' = [op EXCEPT ![c] =
                    On(p, "record", promotions[p].required, promotions[p].results)]
  BY DEF EvalReads
<1>2. promotions[p].required \in SUBSET Evals /\ promotions[p].results \in Results
  BY DEF Inv, RowsTyped, Promotion
<1>3. PICK o : o = On(p, "record", promotions[p].required, promotions[p].results)
  OBVIOUS
<1>4. o \in Op /\ o.at = "record" /\ o.promotion = p /\ o.results = promotions[p].results
  BY <1>2, <1>3, OnTyped
<1>5. \A e \in Evals : o.results[e] = "passed" => <<p, e>> \in everPassed
  BY <1>4 DEF Inv, Evidence
<1>6. QED BY <1>1, <1>3, <1>4, <1>5, OpStep DEF EvalReads

LEMMA EvalWritesStep == ASSUME Inv, NEW c \in Clients, EvalWrites(c) PROVE Inv'
<1> DEFINE p == op[c].promotion
<1>1. PICK e \in Evals, verdict \in Verdicts :
        /\ promotions' = [promotions EXCEPT ![p] = WithResult(promotions[p], op[c], e, verdict)]
        /\ latest' = [latest EXCEPT ![p][e] = verdict]
        /\ everPassed' = IF verdict = "passed" THEN everPassed \cup {<<p, e>>} ELSE everPassed
  BY DEF EvalWrites
<1>2. p \in Promotions /\ promotions[p] \in Promotion /\ op[c].results \in Results /\ Exists(p)
  BY OpTyped DEF EvalWrites, Inv, OpOK, RowsTyped
<1>3. PICK results \in Results : results = [op[c].results EXCEPT ![e] = verdict]
  BY <1>2 DEF Results, Verdicts
<1> DEFINE row == WithResult(promotions[p], op[c], e, verdict)
<1>4. row \in Promotion /\ row.status # "absent" /\ row.results = results
      /\ row.candidate = promotions[p].candidate
  <2>1. PICK status \in {"planned", "ready", "failed"} :
          status = StatusFor(op[c].required, results)
    BY StatusTyped
  <2>2. row = [promotions[p] EXCEPT !.results = results, !.status = status]
    BY <1>3, <2>1 DEF WithResult
  <2>3. QED BY <1>2, <2>2 DEF Promotion
<1> HIDE DEF row
<1>5. row.candidate \in Generations /\ manifests[row.candidate] # "none"
  BY <1>2, <1>4 DEF Inv, CandidateIsKnown
<1>6. \A f \in Evals : row.results[f] = "passed" => <<p, f>> \in everPassed'
  BY <1>1, <1>2, <1>3, <1>4 DEF EvalWrites, Inv, Evidence, Results
<1>7. latest' \in [Promotions -> Results]
  BY <1>1, <1>2 DEF Inv, RowsTyped, Results, Verdicts
<1>8. everPassed \subseteq everPassed' /\ everPassed' \subseteq Promotions \X Evals
  BY <1>1, <1>2 DEF Inv, RowsTyped
<1>9. OneActiveGeneration'
  BY DEF EvalWrites, Inv, OneActiveGeneration, Active
<1>10. promotions' = [promotions EXCEPT ![p] = row]
  BY <1>1 DEF row
<1>11. /\ manifests' \in [Generations -> {"none", "candidate", "active", "deprecated"}]
       /\ planned' \in [Promotions -> Generations \cup {NoGeneration}]
       /\ manifests' = manifests /\ End(c)
  BY DEF EvalWrites, Inv, RowsTyped
<1>12. QED
  BY <1>2, <1>4, <1>5, <1>6, <1>7, <1>8, <1>9, <1>10, <1>11, PromotionStep

LEMMA PromoteChecksStep == ASSUME Inv, NEW c \in Clients, PromoteChecks(c) PROVE Inv'
<1>1. PICK p \in Promotions :
        Exists(p) /\ op' = [op EXCEPT ![c] = On(p, "read_promotion", {}, NoResults)]
  BY DEF PromoteChecks
<1>2. PICK o : o = On(p, "read_promotion", {}, NoResults)
  OBVIOUS
<1>3. o \in Op /\ o.at = "read_promotion" /\ o.promotion = p
  BY <1>2, NoOpTyped, OnTyped
<1>4. QED BY <1>1, <1>2, <1>3, OpStep DEF PromoteChecks

LEMMA PromoteReadsStep == ASSUME Inv, NEW c \in Clients, PromoteReads(c) PROVE Inv'
<1> DEFINE p == op[c].promotion
<1>1. CASE Ready(promotions[p])
  <2>1. p \in Promotions /\ promotions[p].required \in SUBSET Evals /\ Exists(p)
    BY OpTyped DEF PromoteReads, Inv, OpOK, RowsTyped, Promotion
  <2>2. PICK o : o = On(p, "switch", promotions[p].required, NoResults)
    OBVIOUS
  <2>3. o \in Op /\ o.at = "switch" /\ o.promotion = p /\ o.required = promotions[p].required
    BY <2>1, <2>2, NoOpTyped, OnTyped
  <2>4. \A e \in o.required : <<p, e>> \in everPassed
    BY <1>1, <2>1, <2>3 DEF Ready, Inv, Evidence
  <2>5. op' = [op EXCEPT ![c] = o] /\ UNCHANGED <<manifests, promotions, history>>
    BY <1>1, <2>2 DEF PromoteReads
  <2>6. QED BY <2>1, <2>3, <2>4, <2>5, OpStep
<1>2. CASE ~ Ready(promotions[p])
  BY <1>2, EndStep DEF PromoteReads
<1>3. QED BY <1>1, <1>2

LEMMA PromoteSwitchesStep == ASSUME Inv, NEW c \in Clients, PromoteSwitches(c) PROVE Inv'
<1> DEFINE p == op[c].promotion
<1>1. p \in Promotions /\ promotions[p] \in Promotion /\ Exists(p)
  BY OpTyped DEF PromoteSwitches, Inv, OpOK, RowsTyped
<1>2. promotions[p].candidate \in Generations
  BY <1>1 DEF Inv, CandidateIsKnown
<1> DEFINE row == [promotions[p] EXCEPT !.status = "promoted"]
<1>3. row \in Promotion /\ row.status = "promoted" /\ row.results = promotions[p].results
      /\ row.candidate = promotions[p].candidate
  BY <1>1 DEF Promotion
<1>4. promotions' = [promotions EXCEPT ![p] = row]
  BY <1>1 DEF PromoteSwitches, Inv, RowsTyped
<1> HIDE DEF row
<1>5. /\ \A g \in Generations :
           manifests'[g] = IF g = row.candidate THEN "active"
                           ELSE IF manifests[g] = "active" THEN "deprecated" ELSE manifests[g]
      /\ manifests' \in [Generations -> {"none", "candidate", "active", "deprecated"}]
  BY <1>3 DEF PromoteSwitches, Switched, Inv, RowsTyped
<1>6. OneActiveGeneration'
  BY <1>5 DEF OneActiveGeneration, Active
<1>7. \A e \in Evals : row.results[e] = "passed" => <<p, e>> \in everPassed
  BY <1>1, <1>3 DEF Inv, Evidence
<1>8. /\ manifests'[row.candidate] # "none"
      /\ \A g \in Generations : manifests[g] # "none" => manifests'[g] # "none"
  BY <1>2, <1>3, <1>5
<1>9. UNCHANGED <<latest, everPassed, planned>> /\ End(c)
  BY DEF PromoteSwitches, history
<1>10. row.status # "absent"
  BY <1>3
<1>11. row.candidate \in Generations
  BY <1>2, <1>3
<1>12. \A g \in Generations :
         manifests'[g] = "active" => manifests[g] = "active" \/ g = row.candidate
  BY <1>5
<1> HIDE DEF p
<1>13. QED
  BY <1>1, <1>3, <1>4, <1>5, <1>6, <1>7, <1>8, <1>9, <1>10, <1>11, <1>12, PromotionStep
     DEF Inv, RowsTyped

LEMMA CommandStep == ASSUME Inv, NEW c \in Clients, Command(c) PROVE Inv'
<1>1. CASE PromoteRefused(c)
  BY <1>1, EndStep DEF PromoteRefused
<1>2. QED
  BY <1>1, PlanReadsActiveStep, PlanChecksExistingStep, SaveCandidateStep, SaveActiveStep,
     SavePlanStep, EvalReadsStep, EvalWritesStep, PromoteChecksStep, PromoteReadsStep,
     PromoteSwitchesStep DEF Command

LEMMA StepInv == Inv /\ [Next]_vars => Inv'
<1> SUFFICES ASSUME Inv, [Next]_vars PROVE Inv'
  OBVIOUS
<1>1. CASE UNCHANGED vars
  BY <1>1 DEF vars, Inv, RowsTyped, OpOK, Planning, Exists, Evidence, OneActiveGeneration, Active,
              SwitchWasVetted, CandidateIsKnown, Named
<1>2. ASSUME NEW c \in Clients, Abandon(c) PROVE Inv'
  BY <1>2, EndStep DEF Abandon
<1>3. QED
  BY <1>1, <1>2, CommandStep DEF Next

LEMMA Invariance == Spec => []Inv
<1>1. Init => Inv
  BY InitInv
<1>2. QED BY <1>1, StepInv, PTL DEF Spec

-----------------------------------------------------------------------------
(* Commands that run one after another. *)

Promoted == \E p \in Promotions : promotions[p].status = "promoted"

(* What a command has read is still so while nobody else acts. *)
Fresh(c) ==
  LET p == op[c].promotion IN
  /\ op[c].at \in {"check_plan", "save_candidate"} =>
       Active = IF op[c].active = NoGeneration THEN {} ELSE {op[c].active}
  /\ op[c].at = "save_active" => Active = {op[c].active} \ {op[c].generation}
  /\ op[c].at = "record" =>
       op[c].required = promotions[p].required /\ op[c].results = promotions[p].results
  /\ op[c].at = "switch" => Ready(promotions[p])

ResultsAreLatest == \A p \in Promotions : latest[p] = promotions[p].results
Served == Promoted => Active # {} \/ \E c \in Clients : op[c].at = "save_active"

Settled ==
  ResultsAreLatest /\ Served /\ \A c \in Clients : Fresh(c)

(* The others stay idle, so only the command that acts may have read        *)
(* anything.                                                                *)
LEMMA AloneStep ==
  ASSUME Inv, NEW c \in Clients, Alone(c), op' = [op EXCEPT ![c] = op'[c]]
  PROVE  \A d \in Clients \ {c} : op'[d].at = "idle" /\ Fresh(d)'
<1>1. \A d \in Clients \ {c} : op'[d].at = "idle"
  BY DEF Inv, RowsTyped, Alone
<1>2. QED BY <1>1 DEF Fresh

(* A command that changes nothing but op. *)
LEMMA ReadStep ==
  ASSUME Inv, Settled, NEW c \in Clients, Alone(c), op' = [op EXCEPT ![c] = op'[c]],
         UNCHANGED <<manifests, promotions, history>>,
         Fresh(c)', op[c].at # "save_active"
  PROVE  Settled'
<1>1. Fresh(c)' /\ \A d \in Clients \ {c} : Fresh(d)'
  BY AloneStep
<1>2. ResultsAreLatest'
  BY DEF Settled, ResultsAreLatest, history
<1>3. Served'
  <2>1. \A d \in Clients : op[d].at = "save_active" => d = c
    BY DEF Alone
  <2>2. QED BY <2>1 DEF Settled, Served, Promoted, Active
<1>4. QED BY <1>1, <1>2, <1>3 DEF Settled

LEMMA EndOp ==
  ASSUME Inv, NEW c \in Clients, End(c)
  PROVE  op'[c].at = "idle" /\ op' = [op EXCEPT ![c] = op'[c]]
<1>1. op' = [op EXCEPT ![c] = NoOp] /\ NoOp.at = "idle"
  BY NoOpTyped DEF End
<1>2. QED BY <1>1 DEF Inv, RowsTyped

LEMMA EndReadStep ==
  ASSUME Inv, Settled, NEW c \in Clients, Alone(c), End(c),
         UNCHANGED <<manifests, promotions, history>>, op[c].at # "save_active"
  PROVE  Settled'
<1>1. op'[c].at = "idle" /\ op' = [op EXCEPT ![c] = op'[c]]
  BY EndOp
<1>2. Fresh(c)'
  BY <1>1 DEF Fresh
<1>3. QED BY <1>1, <1>2, ReadStep

LEMMA PlanReadsActiveSettled ==
  ASSUME Inv, Settled, NEW c \in Clients, Alone(c), PlanReadsActive(c) PROVE Settled'
<1>1. PICK p \in Promotions, g \in Generations, required \in RequiredChoices,
           active \in IF Active = {} THEN {NoGeneration} ELSE Active :
        op' = [op EXCEPT ![c] =
                 [at |-> "check_plan", promotion |-> p, generation |-> g,
                  active |-> active, required |-> required, results |-> NoResults]]
  BY DEF PlanReadsActive
<1>2. Active = IF active = NoGeneration THEN {} ELSE {active}
  <2>1. Active \subseteq Generations
    BY DEF Active
  <2>2. QED
    BY <1>1, <2>1, PromotionAssumption DEF PromotionAssumption, Inv, OneActiveGeneration
<1>3. /\ op'[c].at = "check_plan" /\ op'[c].active = active
      /\ op' = [op EXCEPT ![c] = op'[c]]
  BY <1>1 DEF Inv, RowsTyped
<1>4. Active' = Active
  BY DEF PlanReadsActive, Active
<1>5. Fresh(c)'
  BY <1>2, <1>3, <1>4 DEF Fresh
<1>6. QED BY <1>3, <1>5, ReadStep DEF PlanReadsActive

LEMMA PlanChecksExistingSettled ==
  ASSUME Inv, Settled, NEW c \in Clients, Alone(c), PlanChecksExisting(c) PROVE Settled'
<1>1. CASE End(c)
  BY <1>1, EndReadStep DEF PlanChecksExisting
<1>2. CASE Goto(c, "save_candidate")
  <2>1. op' = [op EXCEPT ![c] = [op[c] EXCEPT !.at = "save_candidate"]]
    BY <1>2, GotoOp
  <2>2. op[c] \in Op
    BY OpTyped
  <2>3. /\ op'[c].at = "save_candidate" /\ op'[c].active = op[c].active
        /\ op' = [op EXCEPT ![c] = op'[c]]
    BY <2>1, <2>2 DEF Op, Inv, RowsTyped
  <2>4. Active' = Active /\ op[c].at = "check_plan"
    BY DEF PlanChecksExisting, Active
  <2>5. Fresh(c)'
    BY <2>3, <2>4 DEF Fresh, Settled
  <2>6. QED BY <2>3, <2>4, <2>5, ReadStep DEF PlanChecksExisting
<1>3. QED BY <1>1, <1>2 DEF PlanChecksExisting

LEMMA SaveCandidateSettled ==
  ASSUME Inv, Settled, NEW c \in Clients, Alone(c), SaveCandidate(c) PROVE Settled'
<1> DEFINE g == op[c].generation
           place == IF op[c].active = NoGeneration THEN "save_plan" ELSE "save_active"
<1>1. g \in Generations /\ op[c] \in Op
      /\ Active = IF op[c].active = NoGeneration THEN {} ELSE {op[c].active}
  BY OpTyped DEF SaveCandidate, Inv, OpOK, Planning, Settled, Fresh
<1>2. op' = [op EXCEPT ![c] = [op[c] EXCEPT !.at = place]]
  BY GotoOp DEF SaveCandidate
<1>3. /\ op'[c].at = place /\ op'[c].active = op[c].active /\ op'[c].generation = g
      /\ \A d \in Clients \ {c} : Fresh(d)'
  <2>1. /\ op'[c].at = place /\ op'[c].active = op[c].active /\ op'[c].generation = g
        /\ op' = [op EXCEPT ![c] = op'[c]]
    BY <1>1, <1>2 DEF Op, Inv, RowsTyped
  <2>2. QED BY <2>1, AloneStep
<1>4. Active' = Active \ {g}
  BY <1>1 DEF SaveCandidate, Active, Inv, RowsTyped
<1>5. Fresh(c)'
  BY <1>1, <1>3, <1>4 DEF Fresh
<1>6. ResultsAreLatest' /\ Promoted' = Promoted
  BY DEF SaveCandidate, Settled, ResultsAreLatest, history, Promoted
<1>7. Served'
  <2>1. CASE op[c].active = NoGeneration
    <3>1. \A d \in Clients : op[d].at # "save_active"
      BY DEF Alone, SaveCandidate
    <3>2. ~ Promoted
      BY <1>1, <2>1, <3>1 DEF Settled, Served
    <3>3. QED BY <1>6, <3>2 DEF Served
  <2>2. CASE op[c].active # NoGeneration
    BY <1>3, <2>2 DEF Served
  <2>3. QED BY <2>1, <2>2
<1>8. QED BY <1>3, <1>5, <1>6, <1>7 DEF Settled

LEMMA SaveActiveSettled ==
  ASSUME Inv, Settled, NEW c \in Clients, Alone(c), SaveActive(c) PROVE Settled'
<1>1. Active \subseteq {op[c].active} /\ op[c].active \in Generations
  BY DEF SaveActive, Settled, Fresh, Inv, OpOK
<1>2. manifests' = [manifests EXCEPT ![op[c].active] = "active"] /\ Goto(c, "save_plan")
  BY <1>1 DEF SaveActive
<1>3. op' = [op EXCEPT ![c] = [op[c] EXCEPT !.at = "save_plan"]] /\ op[c] \in Op
  BY <1>2, GotoOp, OpTyped
<1>4. op'[c].at = "save_plan" /\ \A d \in Clients \ {c} : Fresh(d)'
  <2>1. op'[c].at = "save_plan" /\ op' = [op EXCEPT ![c] = op'[c]]
    BY <1>3 DEF Op, Inv, RowsTyped
  <2>2. QED BY <2>1, AloneStep
<1>5. Fresh(c)'
  BY <1>4 DEF Fresh
<1>6. ResultsAreLatest'
  BY DEF SaveActive, Settled, ResultsAreLatest, history
<1>7. op[c].active \in Active'
  BY <1>1, <1>2 DEF Active, Inv, RowsTyped
<1>8. QED BY <1>4, <1>5, <1>6, <1>7 DEF Settled, Served

(* A command that replaces one promotion and ends. *)
LEMMA ReplaceStep ==
  ASSUME Inv, Settled, NEW c \in Clients, Alone(c), End(c), op[c].at # "save_active",
         NEW p \in Promotions, NEW STATE promotion,
         promotions' = [promotions EXCEPT ![p] = promotion],
         latest' = [latest EXCEPT ![p] = promotion.results],
         promotion.status = "promoted" \/ Promoted => Active' # {} \/ Active' = Active,
         promotion.status = "promoted" => Active' # {}
  PROVE  Settled'
<1>1. op'[c].at = "idle" /\ op' = [op EXCEPT ![c] = op'[c]]
  BY EndOp
<1>2. \A d \in Clients : Fresh(d)' /\ op'[d].at = "idle"
  <2>1. Fresh(c)'
    BY <1>1 DEF Fresh
  <2>2. \A d \in Clients \ {c} : op'[d].at = "idle" /\ Fresh(d)'
    BY <1>1, AloneStep
  <2>3. QED BY <1>1, <2>1, <2>2
<1>3. /\ \A q \in Promotions : promotions'[q] = IF q = p THEN promotion ELSE promotions[q]
      /\ \A q \in Promotions : latest'[q] = IF q = p THEN promotion.results ELSE latest[q]
  BY DEF Inv, RowsTyped
<1>4. ResultsAreLatest'
  BY <1>3 DEF Settled, ResultsAreLatest
<1>5. Served'
  <2>1. CASE promotion.status = "promoted"
    BY <2>1 DEF Served
  <2>2. CASE promotion.status # "promoted"
    <3>1. Promoted' => Promoted
      BY <1>3, <2>2 DEF Promoted
    <3>2. \A d \in Clients : op[d].at # "save_active"
      BY DEF Alone
    <3>3. QED BY <3>1, <3>2 DEF Settled, Served
  <2>3. QED BY <2>1, <2>2
<1>6. QED BY <1>2, <1>4, <1>5 DEF Settled

LEMMA SavePlanSettled ==
  ASSUME Inv, Settled, NEW c \in Clients, Alone(c), SavePlan(c) PROVE Settled'
<1> DEFINE p == op[c].promotion
           row == SavedPlan(promotions[p], op[c])
<1>1. p \in Promotions
  BY OpTyped
<1>2. row.results = NoResults /\ row.required = op[c].required
      /\ row.status = StatusFor(op[c].required, NoResults)
  BY DEF SavedPlan
<1>3. promotions' = [promotions EXCEPT ![p] = row] /\ latest' = [latest EXCEPT ![p] = NoResults]
      /\ End(c) /\ Active' = Active /\ op[c].at = "save_plan"
  BY DEF SavePlan, Active
<1>4. row.status # "promoted"
  BY <1>2, StatusTyped
<1> HIDE DEF row
<1>5. QED BY <1>1, <1>2, <1>3, <1>4, ReplaceStep

LEMMA EvalReadsSettled ==
  ASSUME Inv, Settled, NEW c \in Clients, Alone(c), EvalReads(c) PROVE Settled'
<1>1. PICK p \in Promotions :
        /\ Exists(p)
        /\ op' = [op EXCEPT ![c] =
                    On(p, "record", promotions[p].required, promotions[p].results)]
  BY DEF EvalReads
<1>2. /\ op'[c] = On(p, "record", promotions[p].required, promotions[p].results)
      /\ op' = [op EXCEPT ![c] = op'[c]]
  BY <1>1 DEF Inv, RowsTyped
<1>3. Fresh(c)'
  BY <1>2 DEF Fresh, On, EvalReads
<1>4. QED BY <1>2, <1>3, ReadStep DEF EvalReads

LEMMA EvalWritesSettled ==
  ASSUME Inv, Settled, NEW c \in Clients, Alone(c), EvalWrites(c) PROVE Settled'
<1> DEFINE p == op[c].promotion
<1>1. PICK e \in Evals, verdict \in Verdicts :
        /\ promotions' = [promotions EXCEPT ![p] = WithResult(promotions[p], op[c], e, verdict)]
        /\ latest' = [latest EXCEPT ![p][e] = verdict]
  BY DEF EvalWrites
<1> DEFINE results == [op[c].results EXCEPT ![e] = verdict]
           row == WithResult(promotions[p], op[c], e, verdict)
<1>2. p \in Promotions /\ promotions[p] \in Promotion
  BY OpTyped DEF Inv, RowsTyped
<1>3. op[c].required = promotions[p].required /\ op[c].results = promotions[p].results
  BY DEF EvalWrites, Settled, Fresh
<1>4. row.results = results /\ row.required = op[c].required
      /\ row.status = StatusFor(op[c].required, results)
  BY <1>2, <1>3 DEF WithResult, Promotion
<1>5. latest' = [latest EXCEPT ![p] = results]
  <2>1. latest[p] = op[c].results
    BY <1>2, <1>3 DEF Settled, ResultsAreLatest
  <2>2. QED BY <1>1, <2>1
<1>6. End(c) /\ Active' = Active /\ op[c].at = "record"
  BY DEF EvalWrites, Active
<1>7. row.status # "promoted"
  BY <1>4, StatusTyped
<1>8. promotions' = [promotions EXCEPT ![p] = row]
  BY <1>1
<1> HIDE DEF row, results
<1>9. QED BY <1>2, <1>4, <1>5, <1>6, <1>7, <1>8, ReplaceStep

LEMMA PromoteChecksSettled ==
  ASSUME Inv, Settled, NEW c \in Clients, Alone(c), PromoteChecks(c) PROVE Settled'
<1>1. PICK p \in Promotions : op' = [op EXCEPT ![c] = On(p, "read_promotion", {}, NoResults)]
  BY DEF PromoteChecks
<1>2. op'[c].at = "read_promotion" /\ op' = [op EXCEPT ![c] = op'[c]]
  BY <1>1 DEF On, Inv, RowsTyped
<1>3. Fresh(c)'
  BY <1>2 DEF Fresh
<1>4. QED BY <1>2, <1>3, ReadStep DEF PromoteChecks

LEMMA PromoteReadsSettled ==
  ASSUME Inv, Settled, NEW c \in Clients, Alone(c), PromoteReads(c) PROVE Settled'
<1> DEFINE p == op[c].promotion
<1>1. CASE Ready(promotions[p])
  <2>1. op' = [op EXCEPT ![c] = On(p, "switch", promotions[p].required, NoResults)]
    BY <1>1 DEF PromoteReads
  <2>2. /\ op'[c].at = "switch" /\ op'[c].promotion = p
        /\ op' = [op EXCEPT ![c] = op'[c]]
    BY <2>1 DEF On, Inv, RowsTyped
  <2>3. promotions' = promotions
    BY DEF PromoteReads
  <2>4. Fresh(c)'
    BY <1>1, <2>2, <2>3 DEF Fresh, Ready
  <2>5. QED BY <2>2, <2>4, ReadStep DEF PromoteReads
<1>2. CASE ~ Ready(promotions[p])
  BY <1>2, EndReadStep DEF PromoteReads
<1>3. QED BY <1>1, <1>2

LEMMA PromoteSwitchesSettled ==
  ASSUME Inv, Settled, NEW c \in Clients, Alone(c), PromoteSwitches(c) PROVE Settled'
<1> DEFINE p == op[c].promotion
           row == [promotions[p] EXCEPT !.status = "promoted"]
<1>1. p \in Promotions /\ promotions[p] \in Promotion /\ promotions[p].candidate \in Generations
  BY OpTyped DEF PromoteSwitches, Inv, OpOK, RowsTyped, CandidateIsKnown
<1>2. row.status = "promoted" /\ row.results = promotions[p].results
  BY <1>1 DEF Promotion
<1>3. promotions' = [promotions EXCEPT ![p] = row] /\ End(c) /\ op[c].at = "switch"
  BY DEF PromoteSwitches
<1>4. promotions[p].candidate \in Active'
  BY <1>1 DEF PromoteSwitches, Switched, Active
<1>5. latest' = [latest EXCEPT ![p] = row.results]
  BY <1>1, <1>2 DEF PromoteSwitches, history, Settled, ResultsAreLatest, Inv, RowsTyped
<1> HIDE DEF row
<1>6. QED BY <1>1, <1>2, <1>3, <1>4, <1>5, ReplaceStep

LEMMA CommandSettled ==
  ASSUME Inv, Settled, NEW c \in Clients, Alone(c), Command(c) PROVE Settled'
<1>1. CASE PromoteRefused(c)
  BY <1>1, EndReadStep DEF PromoteRefused
<1>2. QED
  BY <1>1, PlanReadsActiveSettled, PlanChecksExistingSettled, SaveCandidateSettled,
     SaveActiveSettled, SavePlanSettled, EvalReadsSettled, EvalWritesSettled,
     PromoteChecksSettled, PromoteReadsSettled, PromoteSwitchesSettled DEF Command

SerialInv == Inv /\ serial \in BOOLEAN /\ (serial => Settled)

LEMMA SerialInvariance == Spec => []SerialInv
<1>1. Init => SerialInv
  <2> SUFFICES ASSUME Init PROVE SerialInv
    OBVIOUS
  <2>1. Inv /\ serial \in BOOLEAN
    BY InitInv DEF Init
  <2>2. NoOp.at = "idle" /\ NoPromotion.status = "absent" /\ NoPromotion.results = NoResults
    BY NoOpTyped DEF NoPromotion
  <2>3. Settled
    BY <2>2 DEF Init, Settled, ResultsAreLatest, Served, Promoted, Fresh
  <2>4. QED BY <2>1, <2>3 DEF SerialInv
<1>2. SerialInv /\ [Next]_vars => SerialInv'
  <2> SUFFICES ASSUME SerialInv, [Next]_vars PROVE SerialInv'
    OBVIOUS
  <2>1. Inv'
    BY StepInv DEF SerialInv
  <2>2. CASE UNCHANGED vars
    <3>1. Settled => Settled'
      BY <2>2 DEF vars, Settled, ResultsAreLatest, Served, Promoted, Fresh,
                  Active, Ready
    <3>2. QED BY <2>1, <2>2, <3>1 DEF SerialInv, vars
  <2>3. ASSUME NEW c \in Clients, Command(c), serial' = (serial /\ Alone(c)) PROVE SerialInv'
    BY <2>1, <2>3, CommandSettled DEF SerialInv
  <2>4. ASSUME NEW c \in Clients, Abandon(c), serial' = FALSE PROVE SerialInv'
    BY <2>1, <2>4 DEF SerialInv
  <2>5. QED BY <2>2, <2>3, <2>4 DEF Next
<1>3. QED BY <1>1, <1>2, PTL DEF Spec

-----------------------------------------------------------------------------
(* Every variable keeps its type: the rows hold statuses the tables know, and *)
(* every promotion a client works on is one that may exist.                   *)
THEOREM TypeCorrect == Spec => []TypeOK
<1>1. SerialInv => TypeOK
  BY DEF SerialInv, Inv, TypeOK
<1>2. QED BY <1>1, SerialInvariance, PTL

(* At most one generation of a scope is active, at every moment: also after  *)
(* a plan saved the active manifest it had read before another client        *)
(* promoted, and after a client died in the middle of its command.           *)
THEOREM OneActive == Spec => []OneActiveGeneration
  BY Invariance, PTL DEF Inv

(* No client switches generations on evals that never passed. *)
THEOREM Vetted == Spec => []SwitchWasVetted
  BY Invariance, PTL DEF Inv

(* Every promotion's candidate has a manifest, whichever command died, and no *)
(* generation is active that no promotion has named.                          *)
THEOREM CandidatesKnown == Spec => []CandidateIsKnown
  BY Invariance, PTL DEF Inv

(* While commands run one after another, a scope that was promoted to once is *)
(* served by an active generation between commands.                           *)
THEOREM ScopeServed == Spec => []ScopeStaysServed
<1>1. SerialInv => ScopeStaysServed
  BY DEF SerialInv, Settled, Served, Promoted, ScopeStaysServed
<1>2. QED BY <1>1, SerialInvariance, PTL

LEMMA OnlyTheSwitchPromotes ==
  ASSUME Inv, NEW c \in Clients, Command(c), NEW p \in Promotions, BecomesPromoted(p)
  PROVE  PromoteSwitches(c) /\ op[c].promotion = p
<1>1. promotions' # promotions
  BY DEF BecomesPromoted
<1>2. CASE SavePlan(c)
  <2>1. SavedPlan(promotions[op[c].promotion], op[c]).status # "promoted"
    BY StatusTyped DEF SavedPlan
  <2>2. QED BY <1>2, <2>1 DEF SavePlan, BecomesPromoted, Inv, RowsTyped
<1>3. CASE EvalWrites(c)
  <2>1. PICK e \in Evals, verdict \in Verdicts :
          promotions' = [promotions EXCEPT ![op[c].promotion] =
                           WithResult(promotions[op[c].promotion], op[c], e, verdict)]
    BY <1>3 DEF EvalWrites
  <2>2. op[c].promotion \in Promotions /\ promotions[op[c].promotion] \in Promotion
    BY OpTyped DEF Inv, RowsTyped
  <2>3. WithResult(promotions[op[c].promotion], op[c], e, verdict).status # "promoted"
    BY <2>2, StatusTyped DEF WithResult, Promotion
  <2>4. QED BY <2>1, <2>2, <2>3 DEF BecomesPromoted, Inv, RowsTyped
<1>4. CASE PromoteSwitches(c)
  BY <1>4 DEF PromoteSwitches, BecomesPromoted, Inv, RowsTyped
<1>5. QED
  BY <1>1, <1>2, <1>3, <1>4
     DEF Command, PlanReadsActive, PlanChecksExisting, SaveCandidate, SaveActive, EvalReads,
         PromoteChecks, PromoteReads, PromoteRefused

(* What a plan reads as active is still so when it writes it back, unless it *)
(* has demoted that generation itself.                                       *)
LEMMA OnlyPromotionsActivate ==
  ASSUME Inv, Settled, NEW c \in Clients, Command(c), NEW g \in Generations, BecomesActive(g)
  PROVE  Replanned(g) \/ \E p \in Promotions : BecomesPromoted(p) /\ promotions[p].candidate = g
<1>1. CASE SaveActive(c)
  <2>1. op[c].at = "save_active" /\ Active = {op[c].active} \ {op[c].generation}
    BY <1>1 DEF SaveActive, Settled, Fresh
  <2>2. manifests' = [manifests EXCEPT ![op[c].active] = "active"]
    BY <1>1, <2>1 DEF SaveActive
  <2>3. g = op[c].active /\ g \notin Active
    BY <2>2 DEF BecomesActive, Active, Inv, RowsTyped
  <2>4. QED BY <2>1, <2>3 DEF Replanned
<1>2. CASE SaveCandidate(c)
  BY <1>2 DEF SaveCandidate, BecomesActive, Inv, RowsTyped
<1>3. CASE PromoteSwitches(c)
  <2> DEFINE p == op[c].promotion
  <2>1. p \in Promotions /\ promotions[p] \in Promotion /\ Ready(promotions[p])
    BY <1>3, OpTyped DEF PromoteSwitches, Settled, Fresh, Inv, RowsTyped
  <2>2. g = promotions[p].candidate
    BY <1>3 DEF PromoteSwitches, Switched, BecomesActive
  <2>3. promotions'[p].status = "promoted"
    BY <1>3, <2>1 DEF PromoteSwitches, Inv, RowsTyped, Promotion
  <2>4. QED BY <2>1, <2>2, <2>3 DEF BecomesPromoted, Ready
<1>4. CASE manifests' = manifests
  BY <1>4 DEF BecomesActive
<1>5. QED
  BY <1>1, <1>2, <1>3, <1>4
     DEF Command, PlanReadsActive, PlanChecksExisting, SavePlan, EvalReads, EvalWrites,
         PromoteChecks, PromoteReads, PromoteRefused

(* While commands run one after another, a promotion switches generations     *)
(* only if the newest result of every required eval is a pass, and nothing    *)
(* but a promotion activates a generation that its own plan did not demote.   *)
THEOREM SwitchesAfterEvals == Spec => SerialSwitchAfterRequiredEvals
<1> DEFINE Vet ==
      serial' =>
        /\ \A p \in Promotions : BecomesPromoted(p) =>
             \A e \in promotions[p].required : latest[p][e] = "passed"
        /\ \A g \in Generations : BecomesActive(g) =>
             Replanned(g)
             \/ \E p \in Promotions : BecomesPromoted(p) /\ promotions[p].candidate = g
<1>1. SerialInv /\ [Next]_vars => [Vet]_vars
  <2> SUFFICES ASSUME SerialInv, Next, serial' PROVE Vet
    OBVIOUS
  <2>1. PICK c \in Clients : Command(c) /\ serial
    BY DEF Next, SerialInv
  <2>2. Settled /\ Inv
    BY <2>1 DEF SerialInv
  <2>3. ASSUME NEW p \in Promotions, BecomesPromoted(p)
        PROVE  \A e \in promotions[p].required : latest[p][e] = "passed"
    <3>1. PromoteSwitches(c) /\ op[c].promotion = p
      BY <2>1, <2>2, <2>3, OnlyTheSwitchPromotes
    <3>2. Ready(promotions[p])
      BY <2>2, <3>1 DEF PromoteSwitches, Settled, Fresh
    <3>3. QED BY <2>2, <3>2 DEF Ready, Settled, ResultsAreLatest
  <2>4. ASSUME NEW g \in Generations, BecomesActive(g)
        PROVE  Replanned(g)
               \/ \E p \in Promotions : BecomesPromoted(p) /\ promotions[p].candidate = g
    BY <2>1, <2>2, <2>4, OnlyPromotionsActivate
  <2>5. QED BY <2>3, <2>4
<1>2. QED BY <1>1, SerialInvariance, PTL DEF Spec, SerialSwitchAfterRequiredEvals
=============================================================================
