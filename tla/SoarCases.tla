------------------------------ MODULE SoarCases ------------------------------
(***************************************************************************)
(* From an alert to an incident case: the claim of the incident            *)
(* (src/rust/ndr-engine/src/soar/mod.rs), the filing actions of the        *)
(* playbooks it matched (src/rust/provigil-common/src/soar/), and the rows *)
(* of ndr.soar_cases, which analysts change as well.                       *)
(*                                                                         *)
(* One tenant and one network flow, in either direction.  A change of a    *)
(* case is an INSERT ... SELECT: it copies the row it reads, with the time *)
(* at which it started as its version, and FINAL returns the row with the  *)
(* newest version, of equal ones the row inserted last.  Time is discrete; *)
(* steps may take any time.  The number of a case is taken from            *)
(* CaseNumbers, between the lookup and the insert.                         *)
(***************************************************************************)
EXTENDS Naturals, Sequences

CONSTANTS
    Alert, Analyst, Engine, Tag,
    Tags,        \* [Alert -> Seq(Tag)] its tags, in order
    Severity,    \* [Alert -> Rank]
    Intel,       \* [Alert -> BOOLEAN] threat intelligence: flag or tag
    Playbooks,   \* [Alert -> Seq(Action)] the enabled playbooks it matches
    Manual,      \* the "alerts" that are an analyst's request for a case
    Canonical,   \* PRIMARY_INCIDENT_TAGS, in order
    Generic,     \* tags that never decide which case an alert belongs to
    None,
    ClaimTTL,    \* SOAR_DEDUPE_WINDOW_SECS
    FlowWindow,  \* "10 MINUTE" of FlowGroup::SameFlow
    KindWindow,  \* "7 DAY" of FlowGroup::SameKind
    MaxTime,     \* bound on the clock
    MaxFaults,   \* bound: failed calls and engine crashes
    EditRank,    \* the severities analysts set
    MaxChanges   \* bound: changes of a case by analysts

Rank == 0..4
Critical == 4
Action == {"create_case", "collect_evidence", "other"}

ASSUME SoarAssumption ==
    /\ Tags \in [Alert -> Seq(Tag)] /\ Severity \in [Alert -> Rank]
    /\ Intel \in [Alert -> BOOLEAN] /\ Playbooks \in [Alert -> Seq(Action)]
    /\ Manual \subseteq Alert /\ Alert \cap Analyst = {}
    /\ EditRank \subseteq Rank /\ Canonical \in Seq(Tag) /\ None \notin Nat \cup Engine \cup Tag
    /\ ClaimTTL \in Nat /\ FlowWindow \in Nat /\ KindWindow \in Nat
    /\ MaxTime \in Nat /\ MaxFaults \in Nat /\ MaxChanges \in Nat

-----------------------------------------------------------------------------
(* Which incident an alert is, and which cases it may join.                 *)

TagSet(a) == {Tags[a][n] : n \in DOMAIN Tags[a]}

(* primary_incident_tag: the first canonical tag the alert has, else its    *)
(* first tag, else "alert".                                                 *)
Incident == [a \in Alert |->
    LET known == SelectSeq(Canonical, LAMBDA t : t \in TagSet(a))
    IN  IF known # << >> THEN Head(known)
        ELSE IF Tags[a] # << >> THEN Head(Tags[a]) ELSE None]
Incidents == {Incident[a] : a \in Alert}

(* grouping_tag: the first tag that says what the alert is.                 *)
Kinds == [a \in Alert |-> SelectSeq(Tags[a], LAMBDA t : t \notin Generic)]

(* group_for: whether the alert may join a case at all.                     *)
Groups(a) == Severity[a] = Critical \/ (~Intel[a] /\ Kinds[a] # << >>)

(* The grouping's filter on a case: critical alerts join whatever is recent *)
(* on the flow, the others a case with their kind among its tags.           *)
Matches(a, case, time) ==
    IF Severity[a] = Critical
    THEN time <= case.created + FlowWindow
    ELSE time <= case.created + KindWindow /\ Head(Kinds[a]) \in TagSet(case.opener)

(* The playbooks of the alert that file: create_case at most once            *)
(* (actions_to_run), collect_evidence always.                               *)
Filings(a) ==
    {n \in DOMAIN Playbooks[a] :
        \/ Playbooks[a][n] = "collect_evidence"
        \/ /\ Playbooks[a][n] = "create_case"
           /\ \A m \in 1..(n - 1) : Playbooks[a][m] # "create_case"}

-----------------------------------------------------------------------------
VARIABLES
    now,        \* the clock
    claims,     \* Valkey: [Incidents -> Nat] until when the incident is claimed
    memory,     \* [Engine -> [Incidents -> Nat]] the engines' own claims
    cases,      \* soar_cases FINAL, in the order of their creation
    pc,         \* [Worker -> Pc]
    on,         \* [Alert -> Engine or None] where it runs
    todo,       \* [Alert -> SUBSET Nat] the filing playbooks still to run
    target,     \* [Worker -> Nat] the case it found or changes
    found,      \* [Alert -> Rank] severity of the case it found
    copy,       \* [Worker -> Row or None] the row it is about to insert
    acted,      \* [Alert -> Nat or None] history: when its claim succeeded
    filed,      \* history: alerts recorded in a case
    edited,     \* history: an analyst has set a severity
    faultsLeft, changesLeft

claim  == <<claims, memory, acted, on>>
work   == <<todo, target, found, copy>>
budget == <<faultsLeft, changesLeft>>
history == <<filed, edited>>
vars   == <<now, claim, cases, pc, work, history, budget>>

Worker == Alert \cup Analyst
Pc  == {"new", "act", "comment", "escalate", "write", "create",
        "suppressed", "done", "dead", "idle"}
Row == [opener : Alert, rank : Rank, open : BOOLEAN, created : Nat, version : Nat]

TypeOK ==
    /\ now \in 0..MaxTime
    /\ claims \in [Incidents -> Nat]
    /\ memory \in [Engine -> [Incidents -> Nat]]
    /\ cases \in Seq(Row)
    /\ pc \in [Worker -> Pc]
    /\ on \in [Alert -> Engine \cup {None}]
    /\ todo \in [Alert -> SUBSET Nat]
    /\ target \in [Worker -> Nat]
    /\ found \in [Alert -> Rank]
    /\ copy \in [Worker -> Row \cup {None}]
    /\ acted \in [Alert -> Nat \cup {None}]
    /\ filed \in SUBSET Alert /\ edited \in BOOLEAN
    /\ faultsLeft \in 0..MaxFaults
    /\ changesLeft \in 0..MaxChanges

Unclaimed == [k \in Incidents |-> 0]

Init ==
    /\ now = 0
    /\ claims = Unclaimed
    /\ memory = [g \in Engine |-> Unclaimed]
    /\ cases = << >>
    /\ pc = [w \in Worker |-> IF w \in Alert THEN "new" ELSE "idle"]
    /\ on = [a \in Alert |-> None]
    /\ todo = [a \in Alert |-> {}]
    /\ target = [w \in Worker |-> 0]
    /\ found = [a \in Alert |-> 0]
    /\ copy = [w \in Worker |-> None]
    /\ acted = [a \in Alert |-> None]
    /\ filed = {} /\ edited = FALSE
    /\ faultsLeft = MaxFaults /\ changesLeft = MaxChanges

Goto(w, from, to) == pc[w] = from /\ pc' = [pc EXCEPT ![w] = to]

Fault   == faultsLeft > 0 /\ faultsLeft' = faultsLeft - 1
NoFault == UNCHANGED faultsLeft

-----------------------------------------------------------------------------
(* execute_native_playbooks: an alert that matches no playbook claims       *)
(* nothing; the others claim their incident, in Valkey or, when it does not *)
(* answer, in the memory of their engine.                                   *)

Triggered_Always(a) == TRUE                       \* mutant of Triggered

Triggered(a) == Playbooks[a] # << >>

Ignore(a) ==
    /\ a \notin Manual
    /\ Goto(a, "new", "done")
    /\ \/ ~Triggered(a) /\ NoFault
       \/ Fault                                   \* the playbooks cannot be read
    /\ UNCHANGED <<now, claim, cases, work, history, changesLeft>>

Free(table, a) == table[Incident[a]] <= now

Held_WithoutEX(table, a) == [table EXCEPT ![Incident[a]] = None]    \* mutant of Held

Held(table, a) == [table EXCEPT ![Incident[a]] = now + ClaimTTL]

Run(a, g) ==
    /\ Goto(a, "new", "act")
    /\ on' = [on EXCEPT ![a] = g]
    /\ acted' = [acted EXCEPT ![a] = now]
    /\ todo' = [todo EXCEPT ![a] = Filings(a)]

Suppress(a) == Goto(a, "new", "suppressed") /\ UNCHANGED <<on, acted, todo>>

Begin(a) == a \notin Manual /\ Triggered(a)

Claim_WithoutNX(a, g) ==                          \* mutant of Claim
    /\ Begin(a)
    /\ claims' = Held(claims, a) /\ Run(a, g)
    /\ UNCHANGED <<now, memory, cases, target, found, copy, history, budget>>

(* SET NX EX.                                                               *)
Claim(a, g) ==
    /\ Begin(a)
    /\ \/ Free(claims, a) /\ claims' = Held(claims, a) /\ Run(a, g)
       \/ ~Free(claims, a) /\ UNCHANGED claims /\ Suppress(a)
    /\ UNCHANGED <<now, memory, cases, target, found, copy, history, budget>>

(* claim_in_this_engine; a SET whose reply is lost may have been executed.  *)
ClaimInMemory(a, g) ==
    /\ Begin(a) /\ Fault
    /\ claims' \in {claims} \cup (IF Free(claims, a) THEN {Held(claims, a)} ELSE {})
    /\ \/ /\ Free(memory[g], a) /\ Run(a, g)
          /\ memory' = [memory EXCEPT ![g] = Held(@, a)]
       \/ ~Free(memory[g], a) /\ UNCHANGED memory /\ Suppress(a)
    /\ UNCHANGED <<now, cases, target, found, copy, history, changesLeft>>

(* create_soar_case: an analyst's request claims nothing, and looks for an  *)
(* open case only if it opts in.                                            *)
Request(a, g) ==
    /\ a \in Manual
    /\ on' = [on EXCEPT ![a] = g]
    /\ \/ Goto(a, "new", "act") /\ todo' = [todo EXCEPT ![a] = {1}]
       \/ Goto(a, "new", "create") /\ UNCHANGED todo
    /\ UNCHANGED <<now, claims, memory, acted, cases, target, found, copy, history, budget>>

-----------------------------------------------------------------------------
(* execute_action, for each filing playbook in turn: find an open case to   *)
(* join (a failed query is none), comment on it and escalate it, or create  *)
(* one.                                                                     *)

Joinable(a) ==
    {i \in DOMAIN cases : Groups(a) /\ cases[i].open /\ Matches(a, cases[i], now)}

(* ORDER BY created_at DESC LIMIT 1.                                        *)
Newest(I) == {i \in I : \A j \in I : cases[j].created <= cases[i].created}

Find(a) ==
    /\ pc[a] = "act"
    /\ \E n \in todo[a] : /\ \A m \in todo[a] : n <= m
                          /\ todo' = [todo EXCEPT ![a] = @ \ {n}]
    /\ \/ /\ a \notin Manual /\ NoFault
          /\ \E i \in Newest(Joinable(a)) :
                /\ target' = [target EXCEPT ![a] = i]
                /\ found' = [found EXCEPT ![a] = cases[i].rank]
          /\ pc' = [pc EXCEPT ![a] = "comment"]
       \/ /\ a \in Manual /\ Joinable(a) # {} /\ NoFault    \* the case is reused
          /\ UNCHANGED <<pc, target, found>>
       \/ /\ (Joinable(a) = {} /\ NoFault) \/ Fault
          /\ pc' = [pc EXCEPT ![a] = "create"]
          /\ UNCHANGED <<target, found>>
    /\ UNCHANGED <<now, claim, cases, copy, history, changesLeft>>

Comment_Differs(a) ==                             \* mutant of Comment
    /\ Goto(a, "comment", IF Severity[a] # found[a] THEN "escalate" ELSE "act")
    /\ filed' = filed \cup {a} /\ NoFault
    /\ found' = [found EXCEPT ![a] = 0]
    /\ UNCHANGED <<now, claim, cases, todo, target, copy, edited, changesLeft>>

Comment(a) ==
    /\ \/ Severity[a] > found[a] /\ Goto(a, "comment", "escalate") /\ UNCHANGED target
       \/ /\ Severity[a] <= found[a] /\ Goto(a, "comment", "act")
          /\ target' = [target EXCEPT ![a] = 0]
    /\ found' = [found EXCEPT ![a] = 0]
    /\ \/ filed' = filed \cup {a} /\ NoFault
       \/ UNCHANGED filed /\ Fault
    /\ UNCHANGED <<now, claim, cases, todo, copy, edited, changesLeft>>

Create(a) ==
    /\ Goto(a, "create", "act")
    /\ \/ /\ cases' = Append(cases, [opener |-> a, rank |-> Severity[a], open |-> TRUE,
                                     created |-> now, version |-> now])
          /\ filed' = filed \cup {a}
          /\ NoFault
       \/ UNCHANGED <<cases, filed>> /\ Fault
    /\ UNCHANGED <<now, claim, work, edited, changesLeft>>

Finish(a) ==
    /\ todo[a] = {}
    /\ Goto(a, "act", "done")
    /\ on' = [on EXCEPT ![a] = None]
    /\ UNCHANGED <<now, claims, memory, acted, cases, work, history, budget>>

-----------------------------------------------------------------------------
(* Changes of a case: the SELECT copies the row, the INSERT adds the copy.  *)

Select(w, i, row) ==
    /\ copy' = [copy EXCEPT ![w] = [row EXCEPT !.version = now]]
    /\ target' = [target EXCEPT ![w] = i]
    /\ UNCHANGED <<now, claim, cases, todo, found, filed, faultsLeft>>

Escalate(a) ==
    /\ Goto(a, "escalate", "write")
    /\ Select(a, target[a], [cases[target[a]] EXCEPT !.rank = Severity[a]])
    /\ UNCHANGED <<edited, changesLeft>>

Change(n) == Goto(n, "idle", "write") /\ changesLeft > 0 /\ changesLeft' = changesLeft - 1

UpdateStatus(n, i, open) ==
    /\ Change(n)
    /\ Select(n, i, [cases[i] EXCEPT !.open = open])
    /\ UNCHANGED edited

UpdateFields(n, i, rank) ==
    /\ Change(n)
    /\ Select(n, i, [cases[i] EXCEPT !.rank = rank])
    /\ edited' = TRUE

(* An escalation's error is ignored, an analyst's is reported.              *)
Insert(w) ==
    /\ Goto(w, "write", IF w \in Alert THEN "act" ELSE "idle")
    /\ \/ /\ cases' = [cases EXCEPT ![target[w]] =
                         IF copy[w].version >= @.version THEN copy[w] ELSE @]
          /\ NoFault
       \/ UNCHANGED cases /\ Fault
    /\ copy' = [copy EXCEPT ![w] = None]
    /\ UNCHANGED <<now, claim, todo, target, found, history, changesLeft>>

-----------------------------------------------------------------------------
(* An engine dies and restarts without its memory; its alerts are not       *)
(* delivered again, their offsets are committed.                            *)
Crash(g) ==
    /\ Fault
    /\ memory' = [memory EXCEPT ![g] = Unclaimed]
    /\ pc' = [w \in Worker |->
                IF w \in Alert /\ on[w] = g THEN "dead" ELSE pc[w]]
    /\ on' = [a \in Alert |-> IF on[a] = g THEN None ELSE on[a]]
    /\ UNCHANGED <<now, claims, acted, cases, work, history, changesLeft>>

Tick ==
    /\ now < MaxTime
    /\ now' = now + 1
    /\ UNCHANGED <<claim, cases, pc, work, history, budget>>

AlertStep(a) ==
    \/ Ignore(a) \/ Find(a) \/ Comment(a) \/ Create(a) \/ Finish(a)
    \/ Escalate(a) \/ Insert(a)
    \/ \E g \in Engine : Claim(a, g) \/ ClaimInMemory(a, g) \/ Request(a, g)

AnalystStep(n) ==
    \/ \E i \in DOMAIN cases :
        \/ \E open \in BOOLEAN : UpdateStatus(n, i, open)
        \/ \E rank \in EditRank : UpdateFields(n, i, rank)
    \/ Insert(n)

Next ==
    \/ Tick
    \/ \E a \in Alert : AlertStep(a)
    \/ \E n \in Analyst : AnalystStep(n)
    \/ \E g \in Engine : Crash(g)

Spec == Init /\ [][Next]_vars

-----------------------------------------------------------------------------
(* Properties.                                                              *)

Healthy == faultsLeft = MaxFaults

(* However many engines see the alerts of one incident, only one of them    *)
(* acts per window, while Valkey answers: SOAR_DEDUPE_WINDOW_SECS lies      *)
(* between any two (soar/mod.rs:81-82).                                     *)
Apart(a, b) ==
    \/ None \in {acted[a], acted[b]}
    \/ acted[a] + ClaimTTL <= acted[b]
    \/ acted[b] + ClaimTTL <= acted[a]

OneActsPerWindow ==
    Healthy => \A a, b \in Alert : a # b /\ Incident[a] = Incident[b] => Apart(a, b)

(* Whichever alerts join a case, and however their escalations and the      *)
(* analysts' status changes overlap, its severity never falls below that of *)
(* the alert that opened it, unless an analyst edits it.                    *)
NotBelowOpening ==
    ~edited =>
        \A i \in DOMAIN cases : cases[i].rank >= Severity[cases[i].opener]

(* An alert suppressed because its incident was claimed is not lost: an     *)
(* alert of the incident has been recorded in a case or is on its way, as   *)
(* long as nothing fails and the playbooks of those that claim it file.     *)
Files(a) == a \in Manual \/ Playbooks[a] = << >> \/ Filings(a) # {}

Recorded(a) ==
    \/ a \in filed
    \/ pc[a] = "act" /\ todo[a] # {}
    \/ pc[a] \in {"comment", "create"}

SuppressedIsHandled ==
    Healthy =>
        \A a \in Alert :
            pc[a] = "suppressed" /\ (\A b \in Alert : Incident[b] = Incident[a] => Files(b))
                => \E b \in Alert : Incident[b] = Incident[a] /\ Recorded(b)

(* provigil-common/src/soar/mod.rs:130-131, "Critical alerts use this: one  *)
(* flow is one incident, even when two signatures fire on it": within the   *)
(* window critical alerts open one case.                                    *)
OneFlowOneIncident ==
    \A i, j \in DOMAIN cases :
        /\ Severity[cases[i].opener] = Critical /\ Severity[cases[j].opener] = Critical
        /\ cases[i].created <= cases[j].created
        /\ cases[j].created <= cases[i].created + FlowWindow
        => i = j

-----------------------------------------------------------------------------
(* Statements that this code does not keep: TLC finds a counterexample to  *)
(* each (README).                                                          *)

(* storage/clickhouse.rs:5446, "Escalate a case's severity and priority to  *)
(* a higher level": without an analyst's edit no case's severity falls.     *)
EscalationRaises ==
    [][ \A i \in DOMAIN cases : (cases')[i].rank >= cases[i].rank ]_vars
=============================================================================
