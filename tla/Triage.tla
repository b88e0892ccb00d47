------------------------------- MODULE Triage -------------------------------
(***************************************************************************)
(* Alert triage: recommendations which groups of alerts may be hidden, kept*)
(* with the budget of AI calls in one document per tenant.  The leader's   *)
(* scheduled runs, manual runs and the analysts' decisions each load the   *)
(* document, change it and write all of it back.                           *)
(***************************************************************************)
EXTENDS Integers, FiniteSets, FiniteSetsExt

CONSTANTS
  Keys,       \* groups of alerts: source, destination, naming tag
  PairOf,     \* the source and tag of a group, what a suppression covers
  Alerts,     \* possible alerts: [key, kind, sensor]
  Runs,       \* scheduled runs that can be under way at once
  Manual,     \* manual runs, which never ask the AI
  Analysts,   \* requests of analysts that can be under way at once
  Assigned,   \* the sensors of each analyst, {} for an unrestricted one
  Answers,    \* replies of the AI: verdicts, "weak" (a benign without confidence)
              \* or "none" (unusable)
  Limit,      \* AI calls per hour
  PerRun,     \* AI calls per run
  MaxHour,    \* bound on the clock, in hours
  MaxFaults,  \* bound on crashes and failed saves
  NoRec, NoDoc

VARIABLES
  hour,
  alerts,      \* stored alerts of the look-back period
  hidden,      \* pairs with a live group suppression
  doc,         \* setting alert_triage:<tenant>
  job,         \* what each run or request is doing
  called,      \* AI calls made by the runs begun in this hour
  handled,     \* the latest recorded decision on each group
  overlapped,  \* two of them were under way at once
  faults       \* how many crashed or could not save

vars == <<hour, alerts, hidden, doc, job, called, handled, overlapped, faults>>
history == <<called, handled, overlapped, faults>>

Runners == Runs \union Manual
Jobs == Runners \union Analysts
Pairs == {PairOf[k] : k \in Keys}
Kinds == {"routine", "odd", "protected"}
Verdicts == {"benign", "suspicious", "unknown"}
Sensors == {a.sensor : a \in Alerts}

Decision(v, s) == [verdict |-> v, source |-> s]
Decisions == [verdict : Verdicts, source : {"rule", "ai"}]
Recs == [decision : Decisions, status : {"pending", "applied", "dismissed"},
         sensors : SUBSET Sensors]
Docs == [ai : [hour : 0 .. MaxHour, calls : 0 .. Limit * Cardinality(Jobs)],
         recs : [Keys -> Recs \union {NoRec}]]
Idle == [pc |-> "idle", doc |-> NoDoc, began |-> 0, fresh |-> [k \in Keys |-> NoRec],
         todo |-> {}, key |-> NoRec]

Init ==
  /\ hour = 0
  /\ alerts = {} /\ hidden = {}
  /\ doc = [ai |-> [hour |-> 0, calls |-> 0], recs |-> [k \in Keys |-> NoRec]]
  /\ job = [j \in Jobs |-> Idle]
  /\ called = 0
  /\ handled = [k \in Keys |-> "pending"]
  /\ overlapped = FALSE /\ faults = 0

-----------------------------------------------------------------------------
(* Decisions.                                                              *)

(* protected_reason: threat intelligence, a detection rule, high severity  *)
(* or an alarm tag.                                                        *)
Protected(as) == \E a \in as : a.kind = "protected"

(* Guard rails first, then what the rules know to be benign.               *)
Classify(as) ==
  CASE Protected(as) -> Decision("suspicious", "rule")
    [] \A a \in as : a.kind = "routine" -> Decision("benign", "rule")
    [] OTHER -> Decision("unknown", "rule")

(* A group is asked about once: a stored answer of the AI is reused.       *)
CachedAi(recs, k) == recs[k] # NoRec /\ recs[k].decision.source = "ai"
Decide(recs, k, as) ==
  IF Classify(as) = Decision("unknown", "rule") /\ CachedAi(recs, k)
  THEN recs[k].decision ELSE Classify(as)

(* A weak "benign" counts as no opinion, an unusable reply as no decision. *)
DecisionFromAi(old, answer) ==
  CASE answer = "none" -> old
    [] answer = "weak" -> Decision("unknown", "ai")
    [] OTHER -> Decision(answer, "ai")

(* AiBudget                                                                *)
Used(ai, h) == IF ai.hour = h THEN ai.calls ELSE 0

Remaining(ai, h) == Max({0, Limit - Used(ai, h)})
NoteCall(ai, h) == [hour |-> h, calls |-> Used(ai, h) + 1]

(* Whether a user restricted to some sensors may see a group.              *)
VisibleTo(sensors, allowed) ==
  allowed = {} \/ (sensors # {} /\ sensors \subseteq allowed)

(* from_group                                                              *)
FromGroup(as, decision) ==
  [decision |-> decision, status |-> "pending", sensors |-> {a.sensor : a \in as}]

(* A group seen before keeps its status; a pending one without alerts goes,*)
(* a decided one stays on record.                                          *)
Decided(rec) == rec # NoRec /\ rec.status # "pending"

Merge_ForgetsStatus(prev, fresh) ==                           \* mutant
  [k \in Keys |-> IF fresh[k] # NoRec THEN fresh[k]
                  ELSE IF Decided(prev[k]) THEN prev[k] ELSE NoRec]

Merge(prev, fresh) ==
  [k \in Keys |-> CASE fresh[k] # NoRec /\ prev[k] # NoRec ->
                         [fresh[k] EXCEPT !.status = prev[k].status]
                    [] fresh[k] = NoRec /\ ~ Decided(prev[k]) -> NoRec
                    [] OTHER -> IF fresh[k] # NoRec THEN fresh[k] ELSE prev[k]]

-----------------------------------------------------------------------------
(* Runs.                                                                   *)

Busy(j) == job[j].pc # "idle"
Finish_KeepsDoc(j) == job' = [job EXCEPT ![j].pc = "idle"]     \* mutant

Finish(j) == job' = [job EXCEPT ![j] = Idle]

(* load_state *)
Load(j, pc, k) ==
  /\ ~ Busy(j)
  /\ job' = [job EXCEPT ![j] = [Idle EXCEPT !.pc = pc, !.doc = doc, !.began = hour, !.key = k]]
  /\ overlapped' = (overlapped \/ \E i \in Jobs \ {j} : Busy(i))
  /\ UNCHANGED <<hour, alerts, hidden, doc, called, handled, faults>>

(* run_for_tenant, of the schedule or by hand                              *)
BeginRun(r) == Load(r, "loaded", NoRec)

(* group_alerts: the alerts that no suppression hides, by group.           *)
Listed(k) == {a \in alerts : a.key = k /\ PairOf[k] \notin hidden}

(* The groups, what is known of them, and those the AI is asked about.     *)
Fresh(r) ==
  [k \in Keys |-> IF Listed(k) = {} THEN NoRec
                  ELSE FromGroup(Listed(k), Decide(job[r].doc.recs, k, Listed(k)))]
Open(fresh) == {k \in Keys : fresh[k] # NoRec /\ fresh[k].decision = Decision("unknown", "rule")}
Allowed(r, open) ==
  Min({Remaining(job[r].doc.ai, job[r].began), PerRun, Cardinality(open)})

Ask(r, fresh, todo) ==
  job' = [job EXCEPT ![r] = [@ EXCEPT !.pc = "asking", !.fresh = fresh, !.todo = todo]]

Collect(r) ==
  /\ job[r].pc = "loaded"
  /\ IF \A k \in Keys : Fresh(r)[k] = NoRec /\ job[r].doc.recs[k] = NoRec
     THEN Finish(r)
     ELSE \E todo \in SUBSET Open(Fresh(r)) :
            /\ \/ r \in Runs /\ Cardinality(todo) = Allowed(r, Open(Fresh(r)))
               \/ todo = {}    \* by hand, or AI is off for the tenant
            /\ Ask(r, Fresh(r), todo)
  /\ UNCHANGED <<hour, alerts, hidden, doc, history>>

(* The call is counted before it is made, in the run's own copy.           *)
Asked(r, k, answer) ==
  [job[r] EXCEPT !.doc.ai = NoteCall(@, job[r].began), !.todo = @ \ {k},
                 !.fresh[k].decision = DecisionFromAi(@, answer)]

AskAi(r, k, answer) ==
  /\ job[r].pc = "asking" /\ k \in job[r].todo
  /\ job' = [job EXCEPT ![r] = Asked(r, k, answer)]
  /\ called' = IF job[r].began = hour THEN called + 1 ELSE called
  /\ UNCHANGED <<hour, alerts, hidden, doc, handled, overlapped, faults>>

Fault == faults < MaxFaults /\ faults' = faults + 1

(* save_state *)
Save(j, new, ok) ==
  /\ \/ ok /\ doc' = new /\ UNCHANGED faults
     \/ ~ ok /\ Fault /\ UNCHANGED doc
  /\ Finish(j)

SaveRun(r, ok) ==
  LET d == job[r].doc
  IN /\ job[r].pc = "asking" /\ job[r].todo = {}
     /\ Save(r, [d EXCEPT !.recs = Merge(d.recs, job[r].fresh)], ok)
     /\ UNCHANGED <<hour, alerts, hidden, called, handled, overlapped>>

-----------------------------------------------------------------------------
(* Decisions of an analyst.                                                *)

Pending(d, k) == d.recs[k] # NoRec /\ d.recs[k].status = "pending"
Covered(d, k) == {i \in Keys : Pending(d, i) /\ PairOf[i] = PairOf[k]}
CanSee(p, d, k) == VisibleTo(d.recs[k].sensors, Assigned[p])

(* apply: the recommendation is pending and not suspicious, the analyst    *)
(* sees every group the suppression would hide, and none needs review.     *)
BeginApply(p, k) ==
  /\ Pending(doc, k) /\ CanSee(p, doc, k)
  /\ \A i \in Covered(doc, k) : /\ CanSee(p, doc, i)
                                /\ doc.recs[i].decision.verdict # "suspicious"
  /\ Load(p, "applying", k)

(* save_ai_suppression; a failure is reported and nothing is recorded.     *)
Suppress(p, ok) ==
  /\ job[p].pc = "applying"
  /\ IF ok
     THEN /\ hidden' = hidden \union {PairOf[job[p].key]}
          /\ job' = [job EXCEPT ![p].pc = "suppressed"]
     ELSE /\ UNCHANGED hidden
          /\ Finish(p)
  /\ UNCHANGED <<hour, alerts, doc, history>>

Record(p, ks, status, ok) ==
  LET d == job[p].doc
  IN /\ Save(p, [d EXCEPT !.recs = [k \in Keys |->
                   IF k \in ks THEN [d.recs[k] EXCEPT !.status = status] ELSE d.recs[k]]], ok)
     /\ handled' = [k \in Keys |-> IF ok /\ k \in ks THEN status ELSE handled[k]]
     /\ UNCHANGED <<hour, alerts, hidden, called, overlapped>>

(* Every pending group of the pair is now hidden and recorded as applied.  *)
SaveApply(p, ok) ==
  /\ job[p].pc = "suppressed"
  /\ Record(p, Covered(job[p].doc, job[p].key), "applied", ok)

BeginDismiss(p, k) ==
  /\ Pending(doc, k) /\ CanSee(p, doc, k)
  /\ Load(p, "dismissing", k)

SaveDismiss(p, ok) ==
  /\ job[p].pc = "dismissing"
  /\ Record(p, {job[p].key}, "dismissed", ok)

-----------------------------------------------------------------------------
(* The engine that serves j stops: what it held in memory is gone.         *)
Crash(j) ==
  /\ Busy(j)
  /\ Finish(j)
  /\ Fault
  /\ UNCHANGED <<hour, alerts, hidden, doc, called, handled, overlapped>>

(* A hit of a suppressed pair is not stored (Gate 1 of the hit insert).    *)
Raise(a) ==
  /\ a \notin alerts /\ PairOf[a.key] \notin hidden
  /\ alerts' = alerts \union {a}
  /\ UNCHANGED <<hour, hidden, doc, job, history>>

(* The alerts of a group leave the look-back period.                       *)
Age(k) ==
  /\ \E a \in alerts : a.key = k
  /\ alerts' = {a \in alerts : a.key # k}
  /\ UNCHANGED <<hour, hidden, doc, job, history>>

ExpireSuppression(pair) ==
  /\ pair \in hidden
  /\ hidden' = hidden \ {pair}
  /\ UNCHANGED <<hour, alerts, doc, job, history>>

HourPasses ==
  /\ hour < MaxHour
  /\ hour' = hour + 1
  /\ called' = 0
  /\ UNCHANGED <<alerts, hidden, doc, job, handled, overlapped, faults>>

Next ==
  \/ \E r \in Runners : \/ BeginRun(r)
                        \/ Collect(r)
                        \/ \E k \in Keys, answer \in Answers : AskAi(r, k, answer)
                        \/ \E ok \in BOOLEAN : SaveRun(r, ok)
  \/ \E p \in Analysts : \/ \E k \in Keys : BeginApply(p, k) \/ BeginDismiss(p, k)
                         \/ \E ok \in BOOLEAN : Suppress(p, ok) \/ SaveApply(p, ok)
                                                \/ SaveDismiss(p, ok)
  \/ \E j \in Jobs : Crash(j)
  \/ \E a \in Alerts : Raise(a)
  \/ \E k \in Keys : Age(k)
  \/ \E pair \in Pairs : ExpireSuppression(pair)
  \/ HourPasses

Spec == Init /\ [][Next]_vars

-----------------------------------------------------------------------------
(* Every variable holds a value of its kind, and a job knows a document    *)
(* and a group exactly while it works on them.                             *)
TypeOK ==
  /\ hour \in 0 .. MaxHour
  /\ alerts \subseteq Alerts /\ hidden \subseteq Pairs
  /\ doc \in Docs
  /\ \A j \in Jobs :
       /\ Busy(j) = (job[j].doc # NoDoc)
       /\ (job[j].key # NoRec) = (job[j].pc \in {"applying", "suppressed", "dismissing"})
       /\ Busy(j) => job[j].doc \in Docs
       /\ \A k \in Keys : job[j].fresh[k] \in Recs \union {NoRec}
       /\ job[j].todo \subseteq {k \in Keys : job[j].fresh[k] # NoRec}

(* While no two of them overlap, none crashes and every save succeeds, the *)
(* runs begun in an hour stay within the tenant's AI budget, whatever the  *)
(* analysts decide between them (AiBudget, rules.rs).                      *)
BudgetHolds == ~ overlapped /\ faults = 0 => called <= Limit

(* While no two of them overlap, a group whose applying or dismissing was  *)
(* recorded never comes back as pending: no run of the rules or the AI     *)
(* undoes a person's decision (merge, rules.rs).                           *)
DecisionIsKept ==
  ~ overlapped =>
    \A k \in Keys : handled[k] # "pending" =>
      /\ doc.recs[k] # NoRec
      /\ doc.recs[k].status = handled[k]

(* Both: the document that runs and analysts share loses neither a call    *)
(* nor a decision, as long as one of them at a time has it in hand.        *)
DocumentIsKept == BudgetHolds /\ DecisionIsKept

-----------------------------------------------------------------------------
(* Statements that this code does not keep: TLC finds a counterexample to  *)
(* each (README).                                                          *)

(* "a restart or a change of leader doesn't reset it to zero" (rules.rs):  *)
(* without overlapping work the budget holds although runs crash.          *)
RestartKeepsBudget == ~ overlapped => called <= Limit

(* Nobody hides what the guard rails protect: a live suppression covers no *)
(* stored alert that must stay visible (the checks of apply, mod.rs).      *)
NothingProtectedHidden ==
  \A a \in alerts : a.kind = "protected" => PairOf[a.key] \notin hidden
=============================================================================
