-------------------------- MODULE SoarCasesProofs --------------------------
(***************************************************************************)
(* Proofs about SoarCases and Containment, for every set of alerts,        *)
(* analysts, engines, hosts, devices and tasks, every choice of tags,      *)
(* severities and playbooks, and every bound.                              *)
(***************************************************************************)
EXTENDS MCResponse, Integers, TLAPS

(* A worker that has chosen a case has chosen one that exists, and one that *)
(* is about to insert holds a row: execute_action keeps the id of the case  *)
(* it found, and cases are never deleted.                                   *)
Located ==
  \A w \in Worker :
    /\ pc[w] \in {"comment", "escalate", "write"} => target[w] \in DOMAIN cases
    /\ pc[w] = "write" => copy[w] \in Row

Typed == TypeOK /\ Located

LEMMA FilingsAreIndices == \A a \in Alert : Filings(a) \in SUBSET Nat
  <1> SUFFICES ASSUME NEW a \in Alert PROVE Filings(a) \subseteq Nat
    OBVIOUS
  <1>1. DOMAIN Playbooks[a] \subseteq Nat
    BY SoarAssumption
  <1> QED
    BY <1>1 DEF Filings

LEMMA RanksAreNumbers == Rank \subseteq Nat
  BY DEF Rank

LEMMA SeverityIsNumber == \A a \in Alert : Severity[a] \in Nat
  BY SoarAssumption, RanksAreNumbers

LEMMA TypedInit == Init => Typed
  <1> SUFFICES ASSUME Init PROVE Typed
    OBVIOUS
  <1> USE SoarAssumption DEF Init
  <1>1. cases \in Seq(Row) /\ cases = << >>
    OBVIOUS
  <1>2. now \in 0..MaxTime /\ faultsLeft \in 0..MaxFaults /\ changesLeft \in 0..MaxChanges
    OBVIOUS
  <1>3. pc \in [Worker -> Pc] /\ found \in [Alert -> Rank]
    BY DEF Pc, Rank
  <1>4. claims \in [Incidents -> Nat] /\ memory \in [Engine -> [Incidents -> Nat]]
    BY DEF Unclaimed
  <1>5. TypeOK
    BY <1>1, <1>2, <1>3, <1>4 DEF TypeOK
  <1>6. Located
    BY DEF Located
  <1> QED
    BY <1>5, <1>6 DEF Typed

LEMMA HeldType ==
  ASSUME NEW stamps \in [Incidents -> Nat], NEW a \in Alert, now \in Nat
  PROVE  Held(stamps, a) \in [Incidents -> Nat]
  <1>1. now + ClaimTTL \in Nat
    BY SoarAssumption
  <1> QED
    BY <1>1 DEF Held

LEMMA RowChanges ==
  ASSUME NEW row \in Row
  PROVE  /\ \A rank \in Rank : [row EXCEPT !.rank = rank] \in Row
         /\ \A open \in BOOLEAN : [row EXCEPT !.open = open] \in Row
         /\ \A version \in Nat : [row EXCEPT !.version = version] \in Row
  BY DEF Row

LEMMA RunTypes ==
  ASSUME TypeOK, now \in Nat, NEW a \in Alert, NEW g \in Engine, Run(a, g) \/ Suppress(a)
  PROVE  /\ pc' \in [Worker -> Pc] /\ todo' \in [Alert -> SUBSET Nat]
         /\ acted' \in [Alert -> Nat \cup {None}] /\ on' \in [Alert -> Engine \cup {None}]
  <1>1. pc' \in [Worker -> Pc]
    <2>1. pc \in [Worker -> Pc] /\ "act" \in Pc /\ "suppressed" \in Pc
      BY DEF TypeOK, Pc
    <2>2. pc' = [pc EXCEPT ![a] = "act"] \/ pc' = [pc EXCEPT ![a] = "suppressed"]
      BY DEF Run, Suppress, Goto
    <2> QED
      BY <2>1, <2>2
  <1>2. CASE Run(a, g)
    BY <1>1, <1>2, FilingsAreIndices DEF Run, TypeOK
  <1>3. CASE Suppress(a)
    BY <1>1, <1>3 DEF Suppress, TypeOK
  <1> QED
    BY <1>2, <1>3

LEMMA CountsFaults ==
  ASSUME faultsLeft \in 0..MaxFaults, Fault \/ NoFault
  PROVE  faultsLeft' \in 0..MaxFaults
  BY SoarAssumption DEF Fault, NoFault

LEMMA TypedStep == Typed /\ [Next]_vars => Typed'
  <1> SUFFICES ASSUME Typed, [Next]_vars PROVE Typed'
    OBVIOUS
  <1>0. TypeOK /\ Located /\ now \in Nat
    BY SoarAssumption DEF Typed, TypeOK
  <1>1. CASE Tick
    <2>1. TypeOK'
      BY <1>0, <1>1, SoarAssumption DEF Tick, TypeOK, claim, work, history, budget
    <2>2. Located'
      BY <1>0, <1>1 DEF Tick, Located, work
    <2> QED
      BY <2>1, <2>2 DEF Typed
  <1>2. ASSUME NEW a \in Alert, Ignore(a) PROVE Typed'
    <2> USE <1>2, <1>0 DEF Ignore, Goto, Fault, NoFault
    <2>1. TypeOK'
      BY SoarAssumption DEF TypeOK, Pc, Worker, claim, work, history
    <2>2. Located'
      BY DEF Located, Worker, work, TypeOK
    <2> QED
      BY <2>1, <2>2 DEF Typed
  <1>3. ASSUME NEW a \in Alert, NEW g \in Engine, Claim(a, g) PROVE Typed'
    <2> USE <1>3, <1>0 DEF Claim
    <2>1. Filings(a) \in SUBSET Nat /\ Held(claims, a) \in [Incidents -> Nat]
      BY FilingsAreIndices, HeldType DEF TypeOK
    <2>4. TypeOK'
      BY <2>1, RunTypes DEF TypeOK, history, budget
    <2>5. Located'
      BY DEF Run, Suppress, Goto, Located, Worker, TypeOK
    <2> QED
      BY <2>4, <2>5 DEF Typed
  <1>4. ASSUME NEW a \in Alert, NEW g \in Engine, ClaimInMemory(a, g) PROVE Typed'
    <2> USE <1>4, <1>0 DEF ClaimInMemory
    <2>1. /\ Filings(a) \in SUBSET Nat /\ Held(claims, a) \in [Incidents -> Nat]
          /\ memory[g] \in [Incidents -> Nat] /\ Held(memory[g], a) \in [Incidents -> Nat]
      BY FilingsAreIndices, HeldType DEF TypeOK
    <2>2. claims' \in [Incidents -> Nat] /\ memory' \in [Engine -> [Incidents -> Nat]]
      BY <2>1 DEF TypeOK
    <2>5. TypeOK'
      BY <2>1, <2>2, RunTypes, CountsFaults DEF TypeOK, history
    <2>6. Located'
      BY DEF Run, Suppress, Goto, Located, Worker, TypeOK
    <2> QED
      BY <2>5, <2>6 DEF Typed
  <1>5. ASSUME NEW a \in Alert, NEW g \in Engine, Request(a, g) PROVE Typed'
    <2> USE <1>5, <1>0 DEF Request, Goto
    <2>2. pc' \in [Worker -> Pc]
      BY DEF TypeOK, Pc
    <2>3. todo' \in [Alert -> SUBSET Nat]
      <3>1. {1} \in SUBSET Nat /\ todo \in [Alert -> SUBSET Nat]
        BY DEF TypeOK
      <3>2. todo' = [todo EXCEPT ![a] = {1}] \/ todo' = todo
        OBVIOUS
      <3> QED
        BY <3>1, <3>2
    <2>1. TypeOK'
      BY <2>2, <2>3 DEF TypeOK, history, budget
    <2>4. Located'
      BY DEF Located, Worker, TypeOK
    <2> QED
      BY <2>1, <2>4 DEF Typed
  <1>6. ASSUME NEW a \in Alert, Find(a) PROVE Typed'
    <2> USE <1>6, <1>0
    <2>1. todo' \in [Alert -> SUBSET Nat]
      BY DEF Find, TypeOK
    <2>2. UNCHANGED <<now, claims, memory, acted, on, cases, copy, filed, edited, changesLeft>>
      BY DEF Find, claim, history
    <2>3. CASE \E i \in Newest(Joinable(a)) : /\ target' = [target EXCEPT ![a] = i]
                                              /\ found' = [found EXCEPT ![a] = cases[i].rank]
                                              /\ pc' = [pc EXCEPT ![a] = "comment"]
                                              /\ NoFault
      <3>1. PICK i \in DOMAIN cases : /\ target' = [target EXCEPT ![a] = i]
                                      /\ found' = [found EXCEPT ![a] = cases[i].rank]
        BY <2>3 DEF Newest, Joinable
      <3>2. i \in Nat /\ cases[i] \in Row
        BY <3>1 DEF TypeOK
      <3>3. TypeOK'
        BY <2>1, <2>2, <2>3, <3>1, <3>2 DEF TypeOK, Pc, Worker, NoFault, Row
      <3>4. Located'
        BY <2>2, <2>3, <3>1 DEF Located, Worker, TypeOK
      <3> QED
        BY <3>3, <3>4 DEF Typed
    <2>4. CASE /\ pc' = [pc EXCEPT ![a] = "create"] \/ UNCHANGED pc
               /\ UNCHANGED <<target, found>>
               /\ NoFault \/ Fault
      <3>1. TypeOK'
        BY <2>1, <2>2, <2>4, CountsFaults DEF TypeOK, Pc
      <3>2. Located'
        BY <2>2, <2>4 DEF Located, Worker, TypeOK
      <3> QED
        BY <3>1, <3>2 DEF Typed
    <2> QED
      BY <2>3, <2>4 DEF Find
  <1>7. ASSUME NEW a \in Alert, Comment(a) PROVE Typed'
    <2> USE <1>7, <1>0 DEF Comment, Goto
    <2>0. found' \in [Alert -> Rank] /\ target' \in [Worker -> Nat]
      BY DEF TypeOK, Rank
    <2>1. TypeOK'
      BY <2>0, CountsFaults DEF TypeOK, Pc, claim
    <2>2. Located'
      BY DEF Located, Worker, TypeOK
    <2> QED
      BY <2>1, <2>2 DEF Typed
  <1>8. ASSUME NEW a \in Alert, Create(a) PROVE Typed'
    <2> USE <1>8, <1>0
    <2> DEFINE row == [opener |-> a, rank |-> Severity[a], open |-> TRUE,
                       created |-> now, version |-> now]
    <2>1. row \in Row
      BY SoarAssumption DEF Row
    <2>2. cases' \in Seq(Row) /\ DOMAIN cases \subseteq DOMAIN cases'
      <3>1. cases' = Append(cases, row) \/ cases' = cases
        BY DEF Create
      <3>2. cases \in Seq(Row)
        BY DEF TypeOK
      <3> HIDE DEF row
      <3> QED
        BY <2>1, <3>1, <3>2
    <2> HIDE DEF row
    <2>3. pc' \in [Worker -> Pc] /\ filed' \in SUBSET Alert
      BY DEF Create, TypeOK, Goto, Pc
    <2>5. faultsLeft' \in 0..MaxFaults
      BY CountsFaults DEF Create, TypeOK
    <2>6. TypeOK'
      BY <2>2, <2>3, <2>5 DEF Create, TypeOK, claim, work
    <2>4. Located'
      BY <2>2 DEF Create, Located, Goto, Worker, TypeOK, work
    <2> QED
      BY <2>4, <2>6 DEF Typed
  <1>9. ASSUME NEW a \in Alert, Finish(a) PROVE Typed'
    <2> USE <1>9, <1>0 DEF Finish, Goto
    <2>1. TypeOK'
      BY SoarAssumption DEF TypeOK, Pc, Worker, work, history, budget
    <2>2. Located'
      BY DEF Located, Worker, TypeOK, work
    <2> QED
      BY <2>1, <2>2 DEF Typed
  <1>10. ASSUME NEW w \in Worker, NEW i \in DOMAIN cases, NEW row \in Row, NEW from,
                Goto(w, from, "write"), Select(w, i, row),
                edited' \in BOOLEAN, changesLeft' \in 0..MaxChanges
         PROVE  Typed'
    <2> USE <1>0, <1>10 DEF Goto, Select
    <2>1. i \in Nat /\ [row EXCEPT !.version = now] \in Row
      BY RowChanges DEF TypeOK
    <2>2. TypeOK'
      BY <2>1 DEF TypeOK, Pc, claim
    <2>3. Located'
      BY <2>1 DEF TypeOK, Located
    <2> QED
      BY <2>2, <2>3 DEF Typed
  <1>11. ASSUME NEW a \in Alert, Escalate(a) PROVE Typed'
    <2> DEFINE row == [cases[target[a]] EXCEPT !.rank = Severity[a]]
    <2>1. a \in Worker /\ target[a] \in DOMAIN cases /\ Severity[a] \in Rank
      BY <1>0, <1>11, SoarAssumption DEF Escalate, Goto, Worker, Located
    <2>2. row \in Row
      BY <1>0, <2>1, RowChanges DEF TypeOK
    <2>3. edited' \in BOOLEAN /\ changesLeft' \in 0..MaxChanges
      BY <1>0, <1>11 DEF Escalate, TypeOK
    <2>4. Goto(a, "escalate", "write") /\ Select(a, target[a], row)
      BY <1>11 DEF Escalate
    <2> HIDE DEF row
    <2> QED
      BY <2>1, <2>2, <2>3, <2>4, <1>10
  <1>12. ASSUME NEW n \in Analyst, NEW i \in DOMAIN cases, NEW b \in BOOLEAN,
                UpdateStatus(n, i, b)
         PROVE  Typed'
    <2> DEFINE row == [cases[i] EXCEPT !.open = b]
    <2>1. n \in Worker /\ row \in Row
      BY <1>0, RowChanges DEF TypeOK, Worker
    <2>2. edited' \in BOOLEAN /\ changesLeft' \in 0..MaxChanges
      BY <1>0, <1>12, SoarAssumption DEF UpdateStatus, Change, TypeOK
    <2>3. Goto(n, "idle", "write") /\ Select(n, i, row)
      BY <1>12 DEF UpdateStatus, Change
    <2> HIDE DEF row
    <2> QED
      BY <2>1, <2>2, <2>3, <1>10
  <1>13. ASSUME NEW n \in Analyst, NEW i \in DOMAIN cases, NEW rank \in EditRank,
                UpdateFields(n, i, rank)
         PROVE  Typed'
    <2> DEFINE row == [cases[i] EXCEPT !.rank = rank]
    <2>1. n \in Worker /\ row \in Row
      BY <1>0, RowChanges, SoarAssumption DEF TypeOK, Worker
    <2>2. edited' \in BOOLEAN /\ changesLeft' \in 0..MaxChanges
      BY <1>0, <1>13, SoarAssumption DEF UpdateFields, Change, TypeOK
    <2>3. Goto(n, "idle", "write") /\ Select(n, i, row)
      BY <1>13 DEF UpdateFields, Change
    <2> HIDE DEF row
    <2> QED
      BY <2>1, <2>2, <2>3, <1>10
  <1>14. ASSUME NEW w \in Worker, Insert(w) PROVE Typed'
    <2> USE <1>0, <1>14
    <2>1. copy[w] \in Row /\ target[w] \in DOMAIN cases
      BY DEF Insert, Goto, Located
    <2>2. cases' \in Seq(Row) /\ DOMAIN cases' = DOMAIN cases
      <3> DEFINE row == IF copy[w].version >= cases[target[w]].version
                        THEN copy[w] ELSE cases[target[w]]
      <3>1. cases \in Seq(Row)
        BY DEF TypeOK
      <3>2. row \in Row
        BY <2>1, <3>1
      <3>3. cases' = [cases EXCEPT ![target[w]] = row] \/ cases' = cases
        BY DEF Insert
      <3> HIDE DEF row
      <3> QED
        BY <2>1, <3>1, <3>2, <3>3
    <2>3. TypeOK'
      BY <2>2, SoarAssumption DEF Insert, Goto, TypeOK, Pc, Fault, NoFault, claim, history
    <2>4. Located'
      BY <2>2 DEF Insert, Goto, Located, TypeOK
    <2> QED
      BY <2>3, <2>4 DEF Typed
  <1>15. ASSUME NEW g \in Engine, Crash(g) PROVE Typed'
    <2> USE <1>0, <1>15 DEF Crash, Fault
    <2>1. TypeOK'
      BY SoarAssumption DEF TypeOK, Pc, Unclaimed, work, history
    <2>2. Located'
      BY DEF Located, TypeOK, work
    <2> QED
      BY <2>1, <2>2 DEF Typed
  <1>16. CASE UNCHANGED vars
    BY <1>0, <1>16 DEF vars, claim, work, budget, history, Typed, TypeOK, Located
  <1>17. Alert \subseteq Worker /\ Analyst \subseteq Worker
    BY DEF Worker
  <1> QED
    BY <1>1, <1>2, <1>3, <1>4, <1>5, <1>6, <1>7, <1>8, <1>9, <1>11, <1>12, <1>13, <1>14,
       <1>15, <1>16, <1>17
    DEF Next, AlertStep, AnalystStep

LEMMA AlwaysTyped == Spec => []Typed
  BY TypedInit, TypedStep, PTL DEF Spec

(* Every variable keeps its type.                                           *)
THEOREM SoarTypeCorrect == Spec => []TypeOK
<1>1. Typed => TypeOK
  BY DEF Typed
<1> QED
  BY <1>1, AlwaysTyped, PTL

-----------------------------------------------------------------------------
(* A case stays above its opening.  While no analyst has set a severity:   *)
(* the copies that are about to be inserted have the opener of the row that *)
(* they replace and a severity that is not below the opener's, and what an  *)
(* alert found when it looked bounds the opener's severity, however old.    *)

KeptAbove ==
  /\ \A i \in DOMAIN cases : cases[i].rank >= Severity[cases[i].opener]
  /\ \A w \in Worker : pc[w] = "write" =>
       /\ copy[w].opener = cases[target[w]].opener
       /\ copy[w].rank >= Severity[copy[w].opener]
  /\ \A a \in Alert : pc[a] = "comment" => found[a] >= Severity[cases[target[a]].opener]
  /\ \A a \in Alert : pc[a] = "escalate" =>
       Severity[a] >= Severity[cases[target[a]].opener]

AboveInv == Typed /\ (~edited => KeptAbove)

LEMMA AboveInit == Init => KeptAbove
  <1>1. Init => \A w \in Worker : pc[w] \notin {"write", "comment", "escalate"}
    BY DEF Init
  <1>2. Init => DOMAIN cases = {}
    BY DEF Init
  <1> QED
    BY <1>1, <1>2 DEF KeptAbove, Worker

(* The rows that there are keep their openers, and no worker gets hold of   *)
(* one.                                                                     *)
LEMMA AboveUntouched ==
  ASSUME Typed, KeptAbove, cases' = cases, UNCHANGED <<target, found, copy>>,
         \A w \in Worker : pc'[w] \in {"comment", "escalate", "write"} => pc'[w] = pc[w]
  PROVE  KeptAbove'
  BY DEF KeptAbove, Worker

LEMMA AboveSelect ==
  ASSUME Typed, KeptAbove, NEW w \in Worker, NEW i \in DOMAIN cases, NEW row \in Row,
         row.opener = cases[i].opener, row.rank >= Severity[row.opener],
         NEW from, Goto(w, from, "write"), Select(w, i, row)
  PROVE  KeptAbove'
  <1> DEFINE new == [row EXCEPT !.version = now]
  <1>1. new.opener = row.opener /\ new.rank = row.rank
    BY DEF Row
  <1>2. /\ copy' = [copy EXCEPT ![w] = new] /\ target' = [target EXCEPT ![w] = i]
        /\ cases' = cases /\ found' = found /\ pc' = [pc EXCEPT ![w] = "write"]
    BY DEF Select, Goto
  <1> HIDE DEF new
  <1>3. \A i_1 \in DOMAIN cases' : cases'[i_1].rank >= Severity[cases'[i_1].opener]
    BY <1>2 DEF KeptAbove
  <1>4. \A v \in Worker : pc'[v] = "write" =>
          /\ copy'[v].opener = cases'[target'[v]].opener
          /\ copy'[v].rank >= Severity[copy'[v].opener]
    BY <1>1, <1>2 DEF KeptAbove, Typed, TypeOK
  <1>5. \A v \in Worker : pc'[v] \in {"comment", "escalate"} =>
           pc[v] = pc'[v] /\ target'[v] = target[v]
    BY <1>2 DEF Typed, TypeOK
  <1> QED
    BY <1>2, <1>3, <1>4, <1>5 DEF KeptAbove, Worker

LEMMA AboveStep == Typed /\ KeptAbove /\ ~edited' /\ [Next]_vars => KeptAbove'
  <1> SUFFICES ASSUME Typed, KeptAbove, ~edited', [Next]_vars PROVE KeptAbove'
    OBVIOUS
  <1>0. TypeOK /\ Located
    BY DEF Typed
  <1>1. CASE Tick
    BY <1>1, AboveUntouched DEF Tick, work
  <1>2. ASSUME NEW a \in Alert, Ignore(a) PROVE KeptAbove'
    BY <1>0, <1>2, AboveUntouched DEF Ignore, Goto, work, TypeOK
  <1>3. ASSUME NEW a \in Alert, NEW g \in Engine,
               Claim(a, g) \/ ClaimInMemory(a, g) \/ Request(a, g)
        PROVE  KeptAbove'
    <2>1. pc' = [pc EXCEPT ![a] = pc'[a]] /\ pc'[a] \in {"act", "suppressed", "create"}
      BY <1>0, <1>3 DEF Claim, ClaimInMemory, Request, Run, Suppress, Goto, TypeOK, Worker
    <2>2. cases' = cases /\ UNCHANGED <<target, found, copy>>
      BY <1>3 DEF Claim, ClaimInMemory, Request
    <2> QED
      BY <1>0, <2>1, <2>2, AboveUntouched DEF TypeOK
  <1>4. ASSUME NEW a \in Alert, Find(a) PROVE KeptAbove'
    <2>1. UNCHANGED <<cases, copy>>
      BY <1>4 DEF Find
    <2>2. CASE \E i \in Newest(Joinable(a)) : /\ target' = [target EXCEPT ![a] = i]
                                              /\ found' = [found EXCEPT ![a] = cases[i].rank]
                                              /\ pc' = [pc EXCEPT ![a] = "comment"]
      <3>1. PICK i \in DOMAIN cases : /\ target' = [target EXCEPT ![a] = i]
                                      /\ found' = [found EXCEPT ![a] = cases[i].rank]
                                      /\ pc' = [pc EXCEPT ![a] = "comment"]
        BY <2>2 DEF Newest, Joinable
      <3> QED
        BY <1>0, <2>1, <3>1 DEF KeptAbove, TypeOK, Worker
    <2>3. CASE /\ pc' = [pc EXCEPT ![a] = "create"] \/ UNCHANGED pc
               /\ UNCHANGED <<target, found>>
      BY <1>0, <2>1, <2>3, AboveUntouched DEF TypeOK
    <2> QED
      BY <1>4, <2>2, <2>3 DEF Find
  <1>5. ASSUME NEW a \in Alert, Comment(a) PROVE KeptAbove'
    <2>1. pc[a] = "comment" /\ found[a] >= Severity[cases[target[a]].opener]
      BY <1>5 DEF Comment, Goto, KeptAbove
    <2>2. found[a] \in Nat /\ Severity[a] \in Nat /\ Severity[cases[target[a]].opener] \in Nat
      <3>1. target[a] \in DOMAIN cases
        BY <1>0, <2>1 DEF Located, Worker
      <3>2. cases[target[a]] \in Row
        BY <1>0, <3>1 DEF TypeOK
      <3>3. cases[target[a]].opener \in Alert
        BY <3>2 DEF Row
      <3>4. found[a] \in Nat
        BY <1>0, RanksAreNumbers DEF TypeOK
      <3> QED
        BY <3>3, <3>4, SeverityIsNumber
    <2>3. UNCHANGED <<cases, copy>> /\ found' = [found EXCEPT ![a] = 0]
      BY <1>5 DEF Comment
    <2>4. CASE /\ Severity[a] > found[a] /\ target' = target
               /\ pc' = [pc EXCEPT ![a] = "escalate"]
      <3>1. Severity[a] >= Severity[cases[target[a]].opener]
        BY <2>1, <2>2, <2>4
      <3> QED
        BY <1>0, <2>3, <2>4, <3>1 DEF KeptAbove, TypeOK, Worker
    <2>5. CASE target' = [target EXCEPT ![a] = 0] /\ pc' = [pc EXCEPT ![a] = "act"]
      BY <1>0, <2>3, <2>5 DEF KeptAbove, TypeOK, Worker
    <2> QED
      BY <1>5, <2>4, <2>5 DEF Comment, Goto
  <1>6. ASSUME NEW a \in Alert, Create(a) PROVE KeptAbove'
    <2> DEFINE row == [opener |-> a, rank |-> Severity[a], open |-> TRUE,
                       created |-> now, version |-> now]
    <2>1. row.opener = a /\ row.rank = Severity[a] /\ Severity[a] \in Nat
      BY SeverityIsNumber
    <2>2. /\ UNCHANGED <<target, found, copy>> /\ pc' = [pc EXCEPT ![a] = "act"]
          /\ cases' = Append(cases, row) \/ cases' = cases
      BY <1>6 DEF Create, Goto, work
    <2>3. cases \in Seq(Row)
      BY <1>0 DEF TypeOK
    <2> HIDE DEF row
    <2>4. \A i \in DOMAIN cases : i \in DOMAIN cases' /\ cases'[i] = cases[i]
      BY <2>2, <2>3
    <2>5. \A i \in DOMAIN cases' : cases'[i].rank >= Severity[cases'[i].opener]
      <3>1. \A i \in DOMAIN cases' : i \in DOMAIN cases \/ cases'[i] = row
        BY <2>2, <2>3
      <3> QED
        BY <2>1, <2>4, <3>1 DEF KeptAbove
    <2>6. \A w \in Worker : pc'[w] \in {"comment", "escalate", "write"} =>
             pc[w] = pc'[w] /\ target[w] \in DOMAIN cases
      BY <1>0, <2>2 DEF Located, TypeOK
    <2> QED
      BY <2>2, <2>4, <2>5, <2>6 DEF KeptAbove, Worker
  <1>7. ASSUME NEW a \in Alert, Finish(a) PROVE KeptAbove'
    BY <1>0, <1>7, AboveUntouched DEF Finish, Goto, work, TypeOK
  <1>8. ASSUME NEW a \in Alert, Escalate(a) PROVE KeptAbove'
    <2> DEFINE row == [cases[target[a]] EXCEPT !.rank = Severity[a]]
    <2>1. a \in Worker /\ target[a] \in DOMAIN cases /\ Severity[a] \in Rank
      BY <1>0, <1>8, SoarAssumption DEF Escalate, Goto, Worker, Located
    <2>2. cases[target[a]] \in Row
      BY <1>0, <2>1 DEF TypeOK
    <2>3. row \in Row /\ row.opener = cases[target[a]].opener /\ row.rank = Severity[a]
      BY <2>1, <2>2, RowChanges DEF Row
    <2>4. Severity[a] >= Severity[cases[target[a]].opener]
      BY <1>8 DEF Escalate, Goto, KeptAbove
    <2>5. Goto(a, "escalate", "write") /\ Select(a, target[a], row)
      BY <1>8 DEF Escalate
    <2> HIDE DEF row
    <2> QED
      BY <2>1, <2>3, <2>4, <2>5, AboveSelect
  <1>9. ASSUME NEW n \in Analyst, NEW i \in DOMAIN cases, NEW b \in BOOLEAN,
               UpdateStatus(n, i, b)
        PROVE  KeptAbove'
    <2> DEFINE row == [cases[i] EXCEPT !.open = b]
    <2>1. cases[i] \in Row /\ n \in Worker
      BY <1>0 DEF TypeOK, Worker
    <2>2. row \in Row /\ row.opener = cases[i].opener /\ row.rank = cases[i].rank
      BY <2>1, RowChanges DEF Row
    <2>3. Goto(n, "idle", "write") /\ Select(n, i, row)
      BY <1>9 DEF UpdateStatus, Change
    <2> HIDE DEF row
    <2>4. row.rank >= Severity[row.opener]
      BY <2>2 DEF KeptAbove
    <2> QED
      BY <2>1, <2>2, <2>3, <2>4, AboveSelect
  <1>10. ASSUME NEW n \in Analyst, NEW i \in DOMAIN cases, NEW rank \in EditRank,
                UpdateFields(n, i, rank)
         PROVE  KeptAbove'
    BY <1>10 DEF UpdateFields
  <1>11. ASSUME NEW w \in Worker, Insert(w) PROVE KeptAbove'
    <2> DEFINE t == target[w]
               row == IF copy[w].version >= cases[t].version THEN copy[w] ELSE cases[t]
    <2>1. /\ pc[w] = "write" /\ copy[w] \in Row /\ t \in DOMAIN cases
          /\ pc' = [pc EXCEPT ![w] = pc'[w]] /\ pc'[w] \in {"act", "idle"}
      BY <1>0, <1>11 DEF Insert, Goto, Located, TypeOK
    <2>2. /\ UNCHANGED <<target, found>> /\ copy' = [copy EXCEPT ![w] = None]
          /\ cases' = [cases EXCEPT ![t] = row] \/ cases' = cases
      BY <1>11 DEF Insert
    <2>3. row.opener = cases[t].opener /\ row.rank >= Severity[row.opener]
      BY <2>1 DEF KeptAbove
    <2>4. cases \in Seq(Row)
      BY <1>0 DEF TypeOK
    <2> HIDE DEF row, t
    <2>5. /\ DOMAIN cases' = DOMAIN cases
          /\ \A i \in DOMAIN cases : /\ cases'[i].opener = cases[i].opener
                                     /\ cases'[i] \in {cases[i], row}
      BY <2>1, <2>2, <2>3, <2>4
    <2>6. \A i \in DOMAIN cases' : cases'[i].rank >= Severity[cases'[i].opener]
      BY <2>3, <2>5 DEF KeptAbove
    <2>7. \A v \in Worker : pc'[v] \in {"comment", "escalate", "write"} =>
             pc[v] = pc'[v] /\ v # w /\ target[v] \in DOMAIN cases
      BY <1>0, <2>1 DEF Located, TypeOK
    <2> QED
      BY <1>0, <2>2, <2>5, <2>6, <2>7 DEF KeptAbove, Worker, TypeOK
  <1>12. ASSUME NEW g \in Engine, Crash(g) PROVE KeptAbove'
    BY <1>0, <1>12, AboveUntouched DEF Crash, work, TypeOK
  <1>13. CASE UNCHANGED vars
    BY <1>13, AboveUntouched DEF vars, work
  <1>14. Alert \subseteq Worker /\ Analyst \subseteq Worker
    BY DEF Worker
  <1> QED
    BY <1>1, <1>2, <1>3, <1>4, <1>5, <1>6, <1>7, <1>8, <1>9, <1>10, <1>11, <1>12, <1>13,
       <1>14
    DEF Next, AlertStep, AnalystStep

LEMMA EditedStays == Typed /\ [Next]_vars => (edited => edited')
  <1> SUFFICES ASSUME Typed, [Next]_vars, edited PROVE edited'
    OBVIOUS
  <1> USE DEF history
  <1>1. ASSUME NEW a \in Alert, AlertStep(a) PROVE edited' = edited
    BY <1>1 DEF AlertStep, Ignore, Find, Comment, Create, Finish, Escalate, Insert, Claim,
                ClaimInMemory, Request
  <1>2. ASSUME NEW n \in Analyst, AnalystStep(n) PROVE edited'
    BY <1>2 DEF AnalystStep, UpdateStatus, UpdateFields, Insert
  <1>3. ASSUME NEW g \in Engine, Crash(g) PROVE edited'
    BY <1>3 DEF Crash
  <1> QED
    BY <1>1, <1>2, <1>3 DEF Next, Tick, vars

(* However many alerts join a case and however their escalations and the    *)
(* analysts' status changes overlap, its severity never falls below that of *)
(* the alert that opened it, unless an analyst edits it: each of them       *)
(* inserts a copy of a row that was not below it either.                    *)
THEOREM CasesStayAboveTheirOpening == Spec => []NotBelowOpening
<1>1. Init => AboveInv
  BY TypedInit, AboveInit DEF AboveInv
<1>2. AboveInv /\ [Next]_vars => AboveInv'
  BY TypedStep, AboveStep, EditedStays DEF AboveInv
<1>3. AboveInv => NotBelowOpening
  BY DEF AboveInv, KeptAbove, NotBelowOpening
<1> QED
  BY <1>1, <1>2, <1>3, PTL DEF Spec

-----------------------------------------------------------------------------
(* One alert of an incident acts per window.  While nothing fails, Valkey   *)
(* holds the claim of every alert that acted for a whole window.            *)

Covered(a) ==
  acted[a] # None => acted[a] <= now /\ claims[Incident[a]] >= acted[a] + ClaimTTL

ClaimsCover ==
  /\ \A a \in Alert : Covered(a)
  /\ \A a, b \in Alert : a # b /\ Incident[a] = Incident[b] => Apart(a, b)

ClaimInv == Typed /\ (Healthy => ClaimsCover)

LEMMA HealthStays == Typed /\ [Next]_vars => (Healthy' => Healthy)
  <1> SUFFICES ASSUME Typed, [Next]_vars, Healthy' PROVE Healthy
    OBVIOUS
  <1>0. faultsLeft \in 0..MaxFaults /\ MaxFaults \in Nat
    BY SoarAssumption DEF Typed, TypeOK
  <1>1. faultsLeft' = faultsLeft \/ (faultsLeft > 0 /\ faultsLeft' = faultsLeft - 1)
    <2> USE DEF Fault, NoFault, budget
    <2>1. ASSUME NEW a \in Alert, AlertStep(a)
          PROVE  faultsLeft' = faultsLeft \/ Fault
      BY <2>1 DEF AlertStep, Ignore, Find, Comment, Create, Finish, Escalate, Select, Insert,
                  Claim, ClaimInMemory, Request
    <2>2. ASSUME NEW n \in Analyst, AnalystStep(n)
          PROVE  faultsLeft' = faultsLeft \/ Fault
      BY <2>2 DEF AnalystStep, UpdateStatus, UpdateFields, Select, Insert
    <2> QED
      BY <2>1, <2>2 DEF Next, Tick, Crash, vars
  <1> QED
    BY <1>0, <1>1 DEF Healthy

(* No alert acts and nothing claims.                                        *)
LEMMA CoverUntouched ==
  ASSUME Typed, ClaimsCover, UNCHANGED <<acted, claims>>, now' \in Nat, now' >= now
  PROVE  ClaimsCover'
  <1>1. \A a \in Alert : acted[a] \in Nat \cup {None}
    BY DEF Typed, TypeOK
  <1>2. now \in Nat
    BY SoarAssumption DEF Typed, TypeOK
  <1>3. \A a \in Alert : Covered(a)'
    BY <1>1, <1>2, SoarAssumption DEF ClaimsCover, Covered
  <1>4. \A a, b \in Alert : Apart(a, b)' <=> Apart(a, b)
    BY DEF Apart
  <1> QED
    BY <1>3, <1>4 DEF ClaimsCover

LEMMA CoverRun ==
  ASSUME Typed, ClaimsCover, NEW a \in Alert, NEW g \in Engine,
         Free(claims, a), claims' = Held(claims, a), Run(a, g), now' = now
  PROVE  ClaimsCover'
  <1>0. now \in Nat /\ ClaimTTL \in Nat /\ now + ClaimTTL \in Nat
    BY SoarAssumption DEF Typed, TypeOK
  <1>1. /\ acted \in [Alert -> Nat \cup {None}] /\ claims \in [Incidents -> Nat]
        /\ \A b \in Alert : Incident[b] \in Incidents
    BY DEF Typed, TypeOK, Incidents
  <1>2. /\ acted' = [acted EXCEPT ![a] = now]
        /\ claims' = [claims EXCEPT ![Incident[a]] = now + ClaimTTL]
        /\ claims[Incident[a]] <= now
    BY DEF Run, Held, Free
  <1>3. ASSUME NEW b \in Alert PROVE Covered(b)'
    <2>1. CASE b = a
      BY <1>0, <1>1, <1>2, <2>1 DEF Covered
    <2>2. CASE b # a
      <3>1. Covered(b) /\ acted'[b] = acted[b]
        BY <1>1, <1>2, <2>2 DEF ClaimsCover
      <3>2. CASE Incident[b] = Incident[a]
        BY <1>0, <1>1, <1>2, <3>1, <3>2 DEF Covered
      <3>3. CASE Incident[b] # Incident[a]
        BY <1>0, <1>1, <1>2, <3>1, <3>3 DEF Covered
      <3> QED
        BY <3>2, <3>3
    <2> QED
      BY <2>1, <2>2
  <1>4. ASSUME NEW b \in Alert, NEW other \in Alert, b # other, Incident[b] = Incident[other]
        PROVE  Apart(b, other)'
    <2>1. Apart(b, other) /\ Covered(b) /\ Covered(other)
      BY <1>4 DEF ClaimsCover
    <2>2. CASE b # a /\ other # a
      BY <1>1, <1>2, <2>1, <2>2 DEF Apart
    <2>3. CASE b = a
      <3>1. acted[other] # None => acted[other] + ClaimTTL <= now
        BY <1>0, <1>1, <1>2, <1>4, <2>1, <2>3 DEF Covered
      <3> QED
        BY <1>0, <1>1, <1>2, <1>4, <2>3, <3>1 DEF Apart
    <2>4. CASE other = a
      <3>1. acted[b] # None => acted[b] + ClaimTTL <= now
        BY <1>0, <1>1, <1>2, <1>4, <2>1, <2>4 DEF Covered
      <3> QED
        BY <1>0, <1>1, <1>2, <1>4, <2>4, <3>1 DEF Apart
    <2> QED
      BY <2>2, <2>3, <2>4
  <1> QED
    BY <1>3, <1>4 DEF ClaimsCover

LEMMA CoverStep == Typed /\ ClaimsCover /\ Healthy /\ Healthy' /\ [Next]_vars => ClaimsCover'
  <1> SUFFICES ASSUME Typed, ClaimsCover, Healthy, Healthy', [Next]_vars PROVE ClaimsCover'
    OBVIOUS
  <1>0. now \in Nat /\ faultsLeft \in Nat /\ ~Fault
    BY SoarAssumption DEF Typed, TypeOK, Healthy, Fault
  <1>1. CASE Tick
    BY <1>0, <1>1, CoverUntouched DEF Tick, claim
  <1>2. ASSUME NEW a \in Alert, NEW g \in Engine, Claim(a, g) PROVE ClaimsCover'
    <2>1. CASE Free(claims, a) /\ claims' = Held(claims, a) /\ Run(a, g)
      BY <1>2, <2>1, CoverRun DEF Claim
    <2>2. CASE UNCHANGED claims /\ Suppress(a)
      BY <1>0, <1>2, <2>2, CoverUntouched DEF Claim, Suppress
    <2> QED
      BY <1>2, <2>1, <2>2 DEF Claim
  <1>3. ASSUME NEW a \in Alert, NEW g \in Engine, Request(a, g) PROVE ClaimsCover'
    BY <1>0, <1>3, CoverUntouched DEF Request
  <1>4. ASSUME NEW a \in Alert,
               \/ Ignore(a) \/ Find(a) \/ Comment(a) \/ Create(a) \/ Finish(a) \/ Escalate(a)
        PROVE  ClaimsCover'
    BY <1>0, <1>4, CoverUntouched
    DEF Ignore, Find, Comment, Create, Finish, Escalate, Select, claim
  <1>5. ASSUME NEW w \in Worker, Insert(w) PROVE ClaimsCover'
    BY <1>0, <1>5, CoverUntouched DEF Insert, claim
  <1>6. ASSUME NEW n \in Analyst, NEW i \in DOMAIN cases, NEW x,
               UpdateStatus(n, i, x) \/ UpdateFields(n, i, x)
        PROVE  ClaimsCover'
    BY <1>0, <1>6, CoverUntouched DEF UpdateStatus, UpdateFields, Select, claim
  <1>7. ASSUME NEW g \in Engine, Crash(g) PROVE ClaimsCover'
    BY <1>0, <1>7 DEF Crash
  <1>8. ASSUME NEW a \in Alert, NEW g \in Engine, ClaimInMemory(a, g) PROVE ClaimsCover'
    BY <1>0, <1>8 DEF ClaimInMemory
  <1>9. CASE UNCHANGED vars
    BY <1>0, <1>9, CoverUntouched DEF vars, claim
  <1>10. Alert \subseteq Worker /\ Analyst \subseteq Worker
    BY DEF Worker
  <1> QED
    BY <1>1, <1>2, <1>3, <1>4, <1>5, <1>6, <1>7, <1>8, <1>9, <1>10
    DEF Next, AlertStep, AnalystStep

(* However many engines see the alerts of one incident, two of them act at  *)
(* least SOAR_DEDUPE_WINDOW_SECS apart while Valkey answers: whoever acts   *)
(* takes the claim from one that has held it for the whole window.          *)
THEOREM OneAlertActsPerWindow == Spec => []OneActsPerWindow
<1>1. Init => ClaimInv
  BY TypedInit DEF ClaimInv, ClaimsCover, Covered, Apart, Init
<1>2. ClaimInv /\ [Next]_vars => ClaimInv'
  BY TypedStep, CoverStep, HealthStays DEF ClaimInv
<1>3. ClaimInv => OneActsPerWindow
  BY DEF ClaimInv, ClaimsCover, OneActsPerWindow
<1> QED
  BY <1>1, <1>2, <1>3, PTL DEF Spec

-----------------------------------------------------------------------------
(* A suppressed alert is handled.  While nothing fails, a claim is held by  *)
(* an alert that acted, and one that acted and files is recorded or on its  *)
(* way.                                                                     *)

Claimed(k) == \E b \in Alert : Incident[b] = k /\ acted[b] # None

HandledInv ==
  /\ \A a \in Alert :
       acted[a] # None =>
         /\ a \notin Manual /\ Playbooks[a] # << >>
         /\ Files(a) => Recorded(a)
  /\ \A k \in Incidents : claims[k] > 0 => Claimed(k)
  /\ \A a \in Alert : pc[a] = "suppressed" => Claimed(Incident[a])

FiledInv == Typed /\ (Healthy => HandledInv)

(* What an alert has been recorded for stays; one that leaves a state in    *)
(* which it was on its way has been recorded.                               *)
LEMMA HandledUntouched ==
  ASSUME Typed, HandledInv, UNCHANGED <<acted, claims>>,
         \A a \in Alert : pc'[a] = "suppressed" => pc[a] = "suppressed",
         \A a \in Alert : acted[a] # None /\ Recorded(a) => Recorded(a)'
  PROVE  HandledInv'
  <1>1. \A k : Claimed(k) => Claimed(k)'
    BY DEF Claimed
  <1>2. \A a \in Alert : Files(a)' <=> Files(a)
    BY DEF Files, Filings
  <1> QED
    BY <1>1, <1>2 DEF HandledInv

LEMMA HandledRun ==
  ASSUME Typed, HandledInv, NEW a \in Alert, NEW g \in Engine, Begin(a),
         claims' = Held(claims, a), Run(a, g), filed' = filed
  PROVE  HandledInv'
  <1>1. /\ acted \in [Alert -> Nat \cup {None}] /\ claims \in [Incidents -> Nat]
        /\ todo \in [Alert -> SUBSET Nat] /\ pc \in [Worker -> Pc] /\ now \in Nat
        /\ now # None /\ Alert \subseteq Worker
        /\ \A b \in Alert : Incident[b] \in Incidents
    BY SoarAssumption DEF Typed, TypeOK, Worker, Incidents
  <1>2. /\ acted' = [acted EXCEPT ![a] = now] /\ todo' = [todo EXCEPT ![a] = Filings(a)]
        /\ pc' = [pc EXCEPT ![a] = "act"]
        /\ claims' = [claims EXCEPT ![Incident[a]] = now + ClaimTTL]
    BY DEF Run, Goto, Held
  <1>3. /\ acted'[a] # None /\ a \notin Manual /\ Playbooks[a] # << >>
        /\ \A b \in Alert : b # a => /\ acted'[b] = acted[b] /\ pc'[b] = pc[b]
                                     /\ todo'[b] = todo[b]
    BY <1>1, <1>2 DEF Begin, Triggered
  <1>4. \A k : Claimed(k) => Claimed(k)'
    BY <1>3 DEF Claimed
  <1>5. Claimed(Incident[a])'
    BY <1>3 DEF Claimed
  <1>6. \A b \in Alert : b # a => (Recorded(b)' <=> Recorded(b))
    BY <1>3 DEF Recorded
  <1>7. Files(a)' => Recorded(a)'
    <2>1. Files(a)' => Filings(a) # {}
      BY <1>3 DEF Files, Filings
    <2>2. pc'[a] = "act" /\ todo'[a] = Filings(a)
      BY <1>1, <1>2
    <2> QED
      BY <2>1, <2>2 DEF Recorded
  <1>8. \A b \in Alert : Files(b)' <=> Files(b)
    BY DEF Files, Filings
  <1>9. ASSUME NEW b \in Alert, acted'[b] # None
        PROVE  b \notin Manual /\ Playbooks[b] # << >> /\ (Files(b)' => Recorded(b)')
    BY <1>3, <1>6, <1>7, <1>8, <1>9 DEF HandledInv
  <1>10. ASSUME NEW k \in Incidents, claims'[k] > 0 PROVE Claimed(k)'
    BY <1>1, <1>2, <1>4, <1>5, <1>10 DEF HandledInv
  <1>11. ASSUME NEW b \in Alert, pc'[b] = "suppressed" PROVE Claimed(Incident[b])'
    BY <1>1, <1>2, <1>3, <1>4, <1>11 DEF HandledInv
  <1> QED
    BY <1>9, <1>10, <1>11 DEF HandledInv

LEMMA HandledSuppress ==
  ASSUME Typed, HandledInv, NEW a \in Alert, ~Free(claims, a), Suppress(a),
         UNCHANGED <<claims, filed>>
  PROVE  HandledInv'
  <1>1. /\ claims \in [Incidents -> Nat] /\ pc \in [Worker -> Pc] /\ now \in Nat
        /\ Alert \subseteq Worker /\ Incident[a] \in Incidents
    BY SoarAssumption DEF Typed, TypeOK, Worker, Incidents
  <1>2. claims[Incident[a]] > 0
    BY <1>1 DEF Free
  <1>3. /\ pc[a] = "new" /\ pc' = [pc EXCEPT ![a] = "suppressed"]
        /\ UNCHANGED <<acted, todo>>
    BY DEF Suppress, Goto
  <1>4. \A k : Claimed(k)' <=> Claimed(k)
    BY <1>3 DEF Claimed
  <1>5. \A b \in Alert : Recorded(b)' <=> Recorded(b)
    BY <1>1, <1>3 DEF Recorded
  <1>6. \A b \in Alert : Files(b)' <=> Files(b)
    BY DEF Files, Filings
  <1>7. \A b \in Alert : pc'[b] = "suppressed" => b = a \/ pc[b] = "suppressed"
    BY <1>1, <1>3
  <1>8. ASSUME NEW b \in Alert, pc'[b] = "suppressed" PROVE Claimed(Incident[b])'
    BY <1>1, <1>2, <1>4, <1>7, <1>8 DEF HandledInv
  <1> QED
    BY <1>3, <1>4, <1>5, <1>6, <1>8 DEF HandledInv

LEMMA HandledStep == Typed /\ HandledInv /\ Healthy /\ Healthy' /\ [Next]_vars => HandledInv'
  <1> SUFFICES ASSUME Typed, HandledInv, Healthy, Healthy', [Next]_vars PROVE HandledInv'
    OBVIOUS
  <1>0. /\ ~Fault /\ pc \in [Worker -> Pc] /\ todo \in [Alert -> SUBSET Nat]
        /\ Alert \subseteq Worker /\ Analyst \subseteq Worker
    BY SoarAssumption DEF Typed, TypeOK, Healthy, Fault, Worker
  <1>1. CASE Tick
    BY <1>1, HandledUntouched DEF Tick, claim, work, history, Recorded
  <1>2. ASSUME NEW a \in Alert, NEW g \in Engine, Claim(a, g) PROVE HandledInv'
    <2>1. CASE Free(claims, a) /\ claims' = Held(claims, a) /\ Run(a, g)
      BY <1>2, <2>1, HandledRun DEF Claim, history
    <2>2. CASE ~Free(claims, a) /\ UNCHANGED claims /\ Suppress(a)
      BY <1>2, <2>2, HandledSuppress DEF Claim, history
    <2> QED
      BY <1>2, <2>1, <2>2 DEF Claim
  <1>3. ASSUME NEW a \in Alert, NEW g \in Engine, Request(a, g) PROVE HandledInv'
    <2>1. /\ pc[a] = "new" /\ pc' = [pc EXCEPT ![a] = pc'[a]] /\ pc'[a] \in {"act", "create"}
          /\ UNCHANGED <<acted, claims, filed>> /\ a \in Manual
          /\ \A b \in Alert : b # a => todo'[b] = todo[b]
      BY <1>0, <1>3 DEF Request, Goto, history
    <2>2. acted[a] = None
      BY <2>1 DEF HandledInv
    <2>3. \A b \in Alert : b # a /\ Recorded(b) => Recorded(b)'
      BY <1>0, <2>1 DEF Recorded
    <2>4. \A b \in Alert : pc'[b] = "suppressed" => pc[b] = "suppressed"
      BY <1>0, <2>1
    <2> QED
      BY <2>1, <2>2, <2>3, <2>4, HandledUntouched
  <1>4. ASSUME NEW a \in Alert, Find(a) PROVE HandledInv'
    <2>1. /\ UNCHANGED <<acted, claims, filed>>
          /\ \A b \in Alert : b # a => todo'[b] = todo[b]
      BY <1>0, <1>4 DEF Find, claim, history
    <2>2. /\ pc[a] = "act"
          /\ \/ a \in Manual /\ pc' = pc
             \/ pc' = [pc EXCEPT ![a] = "comment"]
             \/ pc' = [pc EXCEPT ![a] = "create"]
      BY <1>4 DEF Find
    <2>3. a \in Manual => acted[a] = None
      BY DEF HandledInv
    <2>4. \A b \in Alert : b # a /\ Recorded(b) => Recorded(b)'
      BY <1>0, <2>1, <2>2 DEF Recorded
    <2>5. a \notin Manual => Recorded(a)'
      BY <1>0, <2>2 DEF Recorded
    <2>6. \A b \in Alert : pc'[b] = "suppressed" => pc[b] = "suppressed"
      BY <1>0, <2>2
    <2> QED
      BY <2>1, <2>3, <2>4, <2>5, <2>6, HandledUntouched
  <1>5. ASSUME NEW a \in Alert, Comment(a) \/ Create(a) PROVE HandledInv'
    <2>1. /\ UNCHANGED <<acted, claims, todo>> /\ filed' = filed \cup {a}
          /\ pc' = [pc EXCEPT ![a] = pc'[a]] /\ pc'[a] \in {"act", "escalate"}
      BY <1>0, <1>5 DEF Comment, Create, Goto, claim, work
    <2>2. \A b \in Alert : Recorded(b) => Recorded(b)'
      BY <1>0, <2>1 DEF Recorded
    <2>3. \A b \in Alert : pc'[b] = "suppressed" => pc[b] = "suppressed"
      BY <1>0, <2>1
    <2> QED
      BY <2>1, <2>2, <2>3, HandledUntouched
  <1>6. ASSUME NEW w \in Worker, NEW from, NEW to, Goto(w, from, to),
               UNCHANGED <<acted, claims, todo, filed>>,
               from \in {"new", "act", "escalate", "write", "idle"},
               from = "act" => todo[w] = {}, to # "suppressed"
        PROVE  HandledInv'
    <2>1. \A b \in Alert : Recorded(b) => Recorded(b)'
      BY <1>0, <1>6 DEF Recorded, Goto
    <2>2. \A b \in Alert : pc'[b] = "suppressed" => pc[b] = "suppressed"
      BY <1>0, <1>6 DEF Goto
    <2> QED
      BY <1>6, <2>1, <2>2, HandledUntouched
  <1>7. ASSUME NEW a \in Alert, Ignore(a) PROVE HandledInv'
    BY <1>0, <1>6, <1>7 DEF Ignore, claim, work, history
  <1>8. ASSUME NEW a \in Alert, Finish(a) PROVE HandledInv'
    BY <1>0, <1>6, <1>8 DEF Finish, work, history
  <1>9. ASSUME NEW a \in Alert, Escalate(a) PROVE HandledInv'
    BY <1>0, <1>6, <1>9 DEF Escalate, Select, claim
  <1>10. ASSUME NEW n \in Analyst, NEW i \in DOMAIN cases, NEW x,
                UpdateStatus(n, i, x) \/ UpdateFields(n, i, x)
         PROVE  HandledInv'
    BY <1>0, <1>6, <1>10 DEF UpdateStatus, UpdateFields, Change, Select, claim
  <1>11. ASSUME NEW w \in Worker, Insert(w) PROVE HandledInv'
    BY <1>0, <1>6, <1>11 DEF Insert, claim, history
  <1>12. ASSUME NEW g \in Engine, Crash(g) PROVE HandledInv'
    BY <1>0, <1>12 DEF Crash
  <1>13. ASSUME NEW a \in Alert, NEW g \in Engine, ClaimInMemory(a, g) PROVE HandledInv'
    BY <1>0, <1>13 DEF ClaimInMemory
  <1>14. CASE UNCHANGED vars
    BY <1>14, HandledUntouched DEF vars, claim, work, history, Recorded
  <1> QED
    BY <1>0, <1>1, <1>2, <1>3, <1>4, <1>5, <1>7, <1>8, <1>9, <1>10, <1>11, <1>12, <1>13,
       <1>14
    DEF Next, AlertStep, AnalystStep

(* An alert that is dropped because its incident was claimed is not lost    *)
(* while nothing fails: whoever holds the claim acts, and an alert that     *)
(* acts and whose playbooks file is recorded in a case or about to be.      *)
THEOREM SuppressedAlertsAreHandled == Spec => []SuppressedIsHandled
<1>1. Init => FiledInv
  <2> SUFFICES ASSUME Init PROVE HandledInv
    BY TypedInit DEF FiledInv
  <2>1. \A k \in Incidents : claims[k] = 0
    BY DEF Init, Unclaimed
  <2>2. \A a \in Alert : pc[a] = "new" /\ acted[a] = None
    BY DEF Init, Worker
  <2> QED
    BY <2>1, <2>2 DEF HandledInv
<1>2. FiledInv /\ [Next]_vars => FiledInv'
  BY TypedStep, HandledStep, HealthStays DEF FiledInv
<1>3. FiledInv => SuppressedIsHandled
  <2> SUFFICES ASSUME FiledInv, Healthy, NEW a \in Alert, pc[a] = "suppressed",
                      \A b \in Alert : Incident[b] = Incident[a] => Files(b)
               PROVE  \E b \in Alert : Incident[b] = Incident[a] /\ Recorded(b)
    BY DEF SuppressedIsHandled
  <2>1. PICK b \in Alert : Incident[b] = Incident[a] /\ acted[b] # None
    BY DEF FiledInv, HandledInv, Claimed
  <2> QED
    BY <2>1 DEF FiledInv, HandledInv
<1> QED
  BY <1>1, <1>2, <1>3, PTL DEF Spec

-----------------------------------------------------------------------------
(* Containment.                                                            *)

BlockRows ==
  [host : Hosts, by : {"playbook", "analyst"}, asked : BOOLEAN, rule : BOOLEAN,
   rst : BOOLEAN, status : {"active", "revoked"}]
IsolationRows == [device : Devices, method : Methods, saved : C!Vlans, active : BOOLEAN]

ContainmentTypes ==
  /\ enabled \subseteq {"firewall"} \union Methods
  /\ table \subseteq Hosts /\ missed \subseteq Hosts /\ mixed \subseteq Devices
  /\ blocks \in Seq(BlockRows) /\ isolations \in Seq(IsolationRows)
  /\ vlan \in [Devices -> C!Vlans] /\ access \in [Devices -> BOOLEAN]
  /\ registry \subseteq Devices /\ drops \in [Devices -> Nat]
  /\ \A d \in registry : drops[d] > 0
  /\ job \in [Jobs -> ContainmentTasks \union {NoTask}]
  /\ requests \in 0..MaxRequests /\ faults \in 0..CallFaults

(* A task that lifts an isolation has its row, and has marked it before it *)
(* undoes anything (restore_isolation).                                    *)
RestoresFit ==
  \A k \in Jobs : job[k] \in RestoreTasks =>
    /\ job[k].row \in DOMAIN isolations
    /\ isolations[job[k].row].device = job[k].device
    /\ job[k].pc = "undo" => ~ isolations[job[k].row].active

(* Somebody answers for the firewall's entry of a host: a task that pushed *)
(* it and has not recorded it, one that is about to take it back, or an    *)
(* active row whose revocation takes it back.                              *)
TaskAnswers(k, h) ==
  \/ job[k] \in BlockTasks /\ job[k].pc = "record" /\ job[k].host = h /\ job[k].asked /\ job[k].rule
  \/ job[k] \in RevokeTasks /\ job[k].host = h /\ job[k].asked
RowAnswers(i, h) ==
  i \in DOMAIN blocks /\ blocks[i].host = h /\ blocks[i].asked /\ blocks[i].status = "active"
Answered ==
  \A h \in table :
    h \in missed \/ (\E k \in Jobs : TaskAnswers(k, h)) \/ (\E i \in DOMAIN blocks : RowAnswers(i, h))

Isolates(k, d) == job[k] \in IsolateTasks /\ job[k].device = d
Restores(k, d) == job[k] \in RestoreTasks /\ job[k].device = d
RowOf(i, d) == i \in DOMAIN isolations /\ isolations[i].device = d
ActiveOf(i, d) == RowOf(i, d) /\ isolations[i].active

(* The VLAN of a device is known as long as no Aruba switch isolated it.   *)
Known(d) == \A i \in DOMAIN isolations : isolations[i].device = d => isolations[i].method # "aruba"
Before(d) ==
  /\ Known(d) => vlan[d] = "office"
  /\ access[d] /\ drops[d] = 0 /\ d \notin registry
Saved(d, r) == Known(d) /\ r.method \in C!Readable => r.saved = "office"
(* The device as the enforcement of an isolation leaves it.                *)
Enforces(d, r) ==
  /\ Saved(d, r)
  /\ Known(d) /\ r.method \notin C!Switches => vlan[d] = "office"
  /\ access[d] \/ r.method \in C!Gates
  /\ IF r.method = "arp" THEN drops[d] = 1 /\ d \in registry ELSE drops[d] = 0 /\ d \notin registry

(* Of a device whose isolations never overlapped and whose calls succeeded.*)
OneAtATime(d) ==
  /\ \A i1, i2 \in DOMAIN isolations : ActiveOf(i1, d) /\ ActiveOf(i2, d) => i1 = i2
  /\ \A k \in Jobs : Isolates(k, d) =>
       /\ \A i \in DOMAIN isolations : ~ ActiveOf(i, d)
       /\ \A k2 \in Jobs : ~ Restores(k2, d) /\ (Isolates(k2, d) => k2 = k)
  /\ \A k \in Jobs : Restores(k, d) =>
       /\ \A i \in DOMAIN isolations : ActiveOf(i, d) => job[k].row = i
       /\ \A k2 \in Jobs : Restores(k2, d) => job[k2].row = job[k].row
(* As it was, as long as nothing is enforced.                              *)
Untouched(d) ==
  \/ \E k \in Jobs : (Isolates(k, d) /\ job[k].pc = "store") \/ (Restores(k, d) /\ job[k].pc = "undo")
  \/ \E i \in DOMAIN isolations : ActiveOf(i, d)
  \/ Before(d)
Traced(d) ==
  /\ \A k \in Jobs : Isolates(k, d) =>
       /\ job[k].pc = "enforce" => Saved(d, job[k])
       /\ job[k].pc = "store" => Enforces(d, job[k])
  /\ \A i \in DOMAIN isolations : ActiveOf(i, d) => Enforces(d, isolations[i])
  /\ \A k \in Jobs : Restores(k, d) =>
       /\ Saved(d, isolations[job[k].row])
       /\ job[k].pc = "undo" => Before(d) \/ Enforces(d, isolations[job[k].row])
Alone(d) == OneAtATime(d) /\ Untouched(d) /\ Traced(d)
IsolatedAlone == \A d \in Devices \ mixed : Alone(d)

ContainmentInv == ContainmentTypes /\ RestoresFit /\ Answered /\ IsolatedAlone

LEMMA TaskFacts ==
  /\ \A t \in BlockTasks : t \notin RevokeTasks /\ t \notin IsolateTasks /\ t \notin RestoreTasks
  /\ \A t \in RevokeTasks : t \notin BlockTasks /\ t \notin IsolateTasks /\ t \notin RestoreTasks
  /\ \A t \in IsolateTasks : t \notin BlockTasks /\ t \notin RevokeTasks /\ t \notin RestoreTasks
  /\ \A t \in RestoreTasks : t \notin BlockTasks /\ t \notin RevokeTasks /\ t \notin IsolateTasks
  /\ \A t \in BlockTasks \union RevokeTasks : "host" \in DOMAIN t
  /\ \A t \in IsolateTasks \union RestoreTasks : "device" \in DOMAIN t
  BY DEF BlockTasks, RevokeTasks, IsolateTasks, RestoreTasks

LEMMA ContainmentInit == C!Init => ContainmentInv
  <1> SUFFICES ASSUME C!Init PROVE ContainmentInv
    OBVIOUS
  <1> USE DEF C!Init
  <1>1. \A k \in Jobs : job[k] \notin ContainmentTasks
    BY ContainmentAssumption
  <1>2. ContainmentTypes
    BY ContainmentAssumption DEF ContainmentTypes, C!Vlans
  <1>3. RestoresFit /\ Answered
    BY <1>1 DEF RestoresFit, Answered, ContainmentTasks
  <1>4. ASSUME NEW d \in Devices PROVE Alone(d)
    <2>1. Before(d)
      BY DEF Before
    <2> QED
      BY <1>1, <2>1 DEF Alone, OneAtATime, Untouched, Traced, Isolates, Restores, ActiveOf, RowOf,
         ContainmentTasks
  <1> QED
    BY <1>2, <1>3, <1>4 DEF ContainmentInv, IsolatedAlone

(* The tasks of a device that a step does not concern, its rows and its    *)
(* state are as they were, and so is what is known of it.                  *)
LEMMA DeviceIsLeft ==
  ASSUME RestoresFit, NEW d \in Devices, Alone(d),
         vlan'[d] = vlan[d], access'[d] = access[d], drops'[d] = drops[d],
         d \in registry' <=> d \in registry,
         \A k \in Jobs : (Isolates(k, d) \/ Restores(k, d) \/ Isolates(k, d)' \/ Restores(k, d)')
                         => job'[k] = job[k],
         \A i : RowOf(i, d) <=> RowOf(i, d)',
         \A i \in DOMAIN isolations : RowOf(i, d) => isolations'[i] = isolations[i]
  PROVE  Alone(d)'
  <1>1. \A k \in Jobs : /\ Isolates(k, d)' <=> Isolates(k, d)
                        /\ Restores(k, d)' <=> Restores(k, d)
    BY DEF Isolates, Restores
  <1>2. \A i : ActiveOf(i, d)' <=> ActiveOf(i, d)
    BY DEF ActiveOf, RowOf
  <1>3. \A i \in DOMAIN isolations : ActiveOf(i, d) => isolations'[i] = isolations[i] /\ i \in DOMAIN isolations'
    BY DEF ActiveOf, RowOf
  <1>4. \A k \in Jobs : Restores(k, d) => isolations'[job[k].row] = isolations[job[k].row]
    BY DEF RestoresFit, Restores, RowOf
  <1>5. Known(d)' <=> Known(d)
    BY DEF Known, RowOf
  <1>6. Before(d)' <=> Before(d)
    BY <1>5 DEF Before
  <1>7. \A k \in Jobs : Isolates(k, d) => job'[k] = job[k] /\ (Saved(d, job[k])' <=> Saved(d, job[k]))
                                         /\ (Enforces(d, job[k])' <=> Enforces(d, job[k]))
    BY <1>5 DEF Saved, Enforces
  <1>8. \A i \in DOMAIN isolations : RowOf(i, d) =>
           /\ Saved(d, isolations[i])' <=> Saved(d, isolations[i])
           /\ Enforces(d, isolations[i])' <=> Enforces(d, isolations[i])
    BY <1>5 DEF Saved, Enforces
  <1>9. \A k \in Jobs : Restores(k, d) => job'[k] = job[k] /\ RowOf(job[k].row, d)
    BY DEF RestoresFit, Restores, RowOf
  <1>10. OneAtATime(d)'
    <2>1. \A i : ActiveOf(i, d) => i \in DOMAIN isolations
      BY DEF ActiveOf, RowOf
    <2>2. OneAtATime(d)
      BY DEF Alone
    <2>3. \A i1, i2 \in DOMAIN isolations' : ActiveOf(i1, d)' /\ ActiveOf(i2, d)' => i1 = i2
      BY <1>2, <2>1, <2>2 DEF OneAtATime
    <2>4. \A k \in Jobs : Isolates(k, d)' =>
            /\ \A i \in DOMAIN isolations' : ~ ActiveOf(i, d)'
            /\ \A k2 \in Jobs : ~ Restores(k2, d)' /\ (Isolates(k2, d)' => k2 = k)
      BY <1>1, <1>2, <2>1, <2>2 DEF OneAtATime
    <2>5. \A k \in Jobs : Restores(k, d)' =>
            /\ \A i \in DOMAIN isolations' : ActiveOf(i, d)' => job'[k].row = i
            /\ \A k2 \in Jobs : Restores(k2, d)' => job'[k2].row = job'[k].row
      BY <1>1, <1>2, <1>9, <2>1, <2>2 DEF OneAtATime
    <2> QED
      BY <2>3, <2>4, <2>5 DEF OneAtATime
  <1>11. Untouched(d)'
    BY <1>1, <1>2, <1>3, <1>6, <1>7, <1>9 DEF Alone, Untouched
  <1>12. \A k \in Jobs : Isolates(k, d)' =>
       /\ job'[k].pc = "enforce" => Saved(d, job[k])'
       /\ job'[k].pc = "store" => Enforces(d, job[k])'
    BY <1>1, <1>7 DEF Alone, Traced
  <1>13. \A i \in DOMAIN isolations' : ActiveOf(i, d)' => Enforces(d, isolations[i])'
    <2>1. \A i \in DOMAIN isolations : ActiveOf(i, d) => Enforces(d, isolations[i])
      BY DEF Alone, Traced
    <2>2. \A i : ActiveOf(i, d) => RowOf(i, d) /\ i \in DOMAIN isolations
      BY DEF ActiveOf, RowOf
    <2> QED
      BY <1>2, <1>8, <2>1, <2>2
  <1>14. \A k \in Jobs : Restores(k, d)' =>
       /\ Saved(d, isolations[job[k].row])'
       /\ job'[k].pc = "undo" => Before(d)' \/ Enforces(d, isolations[job[k].row])'
    <2> SUFFICES ASSUME NEW k \in Jobs, Restores(k, d)
                 PROVE  /\ Saved(d, isolations[job[k].row])'
                        /\ job'[k].pc = "undo" => Before(d)' \/ Enforces(d, isolations[job[k].row])'
      BY <1>1
    <2>1. PICK i \in DOMAIN isolations : i = job[k].row /\ RowOf(i, d)
      BY <1>9 DEF RowOf
    <2>2. job'[k] = job[k] /\ isolations'[i] = isolations[i]
      BY <1>9, <2>1
    <2>3. /\ Saved(d, isolations[i])
          /\ job[k].pc = "undo" => Before(d) \/ Enforces(d, isolations[i])
      BY <2>1 DEF Alone, Traced
    <2>4. /\ Saved(d, isolations[i])'
          /\ job'[k].pc = "undo" => Before(d)' \/ Enforces(d, isolations[i])'
      BY <1>6, <1>8, <2>1, <2>2, <2>3
    <2> QED
      BY <2>1, <2>2, <2>4
  <1> QED
    BY <1>10, <1>11, <1>12, <1>13, <1>14 DEF Alone, Traced

LEMMA TaskChanges ==
  ASSUME ContainmentTypes, NEW k \in Jobs, NEW t \in ContainmentTasks \union {NoTask},
         job' = [job EXCEPT ![k] = t]
  PROVE  /\ job' \in [Jobs -> ContainmentTasks \union {NoTask}]
         /\ job'[k] = t /\ \A x \in Jobs \ {k} : job'[x] = job[x]
  BY DEF ContainmentTypes

(* A task that has to do with the firewall leaves the devices alone, one   *)
(* that has to do with a device leaves the firewall alone.                 *)
LEMMA NetworkIsLeft ==
  ASSUME ContainmentInv, NEW k \in Jobs, \A x \in Jobs \ {k} : job'[x] = job[x],
         job[k] \notin IsolateTasks \union RestoreTasks,
         job'[k] \notin IsolateTasks \union RestoreTasks,
         UNCHANGED <<vlan, access, registry, drops, isolations, mixed>>
  PROVE  RestoresFit' /\ IsolatedAlone'
  <1>1. RestoresFit'
    BY DEF ContainmentInv, RestoresFit
  <1>2. ASSUME NEW d \in Devices \ mixed PROVE Alone(d)'
    <2>1. Alone(d) /\ RestoresFit
      BY DEF ContainmentInv, IsolatedAlone
    <2>2. \A x \in Jobs : (Isolates(x, d) \/ Restores(x, d) \/ Isolates(x, d)' \/ Restores(x, d)')
                          => job'[x] = job[x]
      BY DEF Isolates, Restores
    <2>3. \A i : RowOf(i, d) <=> RowOf(i, d)'
      BY DEF RowOf
    <2> QED
      BY <2>1, <2>2, <2>3, DeviceIsLeft
  <1> QED
    BY <1>1, <1>2 DEF IsolatedAlone

LEMMA FirewallIsLeft ==
  ASSUME ContainmentInv, NEW k \in Jobs, \A x \in Jobs \ {k} : job'[x] = job[x],
         job[k] \notin BlockTasks \union RevokeTasks,
         UNCHANGED <<table, blocks, missed>>
  PROVE  Answered'
  <1>1. \A h : \A x \in Jobs : TaskAnswers(x, h) => TaskAnswers(x, h)'
    BY DEF TaskAnswers
  <1>2. \A h, i : RowAnswers(i, h) => RowAnswers(i, h)'
    BY DEF RowAnswers
  <1> QED
    BY <1>1, <1>2 DEF ContainmentInv, Answered

LEMMA BlockKeeps ==
  ASSUME ContainmentInv, NEW k \in Jobs, NEW h \in Hosts, NEW by \in {"playbook", "analyst"},
         NEW enforcement \in {"rst", "firewall", "both"}, NEW rst \in BOOLEAN,
         C!Block(k, h, by, enforcement, rst)
  PROVE  ContainmentInv'
  <1> DEFINE t == [pc |-> IF enforcement = "rst" THEN "record" ELSE "push", host |-> h,
                   by |-> by, rst |-> rst, asked |-> FALSE, rule |-> FALSE]
  <1>1. t \in BlockTasks /\ t \in ContainmentTasks
    BY DEF BlockTasks, ContainmentTasks
  <1>2. job[k] = NoTask /\ job' = [job EXCEPT ![k] = t] /\ requests' = requests + 1 /\ requests < MaxRequests
    BY DEF C!Block, C!Begin
  <1>3. UNCHANGED <<enabled, table, blocks, missed, vlan, access, registry, drops, isolations, mixed, faults>>
    BY DEF C!Block, C!firewall, C!network
  <1> HIDE DEF t
  <1>4. /\ job' \in [Jobs -> ContainmentTasks \union {NoTask}]
        /\ job'[k] = t /\ \A x \in Jobs \ {k} : job'[x] = job[x]
    BY <1>1, <1>2, TaskChanges DEF ContainmentInv
  <1>5. job[k] \notin BlockTasks \union RevokeTasks \union IsolateTasks \union RestoreTasks
    BY <1>2, ContainmentAssumption DEF ContainmentTasks
  <1>6. job'[k] \notin IsolateTasks \union RestoreTasks
    BY <1>1, <1>4, TaskFacts
  <1>7. RestoresFit' /\ IsolatedAlone'
    BY <1>3, <1>4, <1>5, <1>6, NetworkIsLeft
  <1>8. Answered'
    BY <1>3, <1>4, <1>5, FirewallIsLeft
  <1>9. ContainmentTypes'
    BY <1>2, <1>3, <1>4, ContainmentAssumption DEF ContainmentInv, ContainmentTypes
  <1> QED
    BY <1>7, <1>8, <1>9 DEF ContainmentInv

(* What a block or a revocation holds while it is under way.               *)
LEMMA AtStep ==
  ASSUME ContainmentTypes, NEW k \in Jobs, NEW p, C!At(k, p)
  PROVE  /\ p \in {"push", "record"} => job[k] \in BlockTasks
         /\ p = "revoke" => job[k] \in RevokeTasks
         /\ p \in {"read", "enforce", "store"} => job[k] \in IsolateTasks
         /\ p \in {"mark", "undo"} => job[k] \in RestoreTasks
         /\ job[k].pc = p
  <1>1. job[k] \in ContainmentTasks /\ job[k].pc = p
    BY DEF C!At, ContainmentTypes
  <1> QED
    BY <1>1 DEF ContainmentTasks, BlockTasks, RevokeTasks, IsolateTasks, RestoreTasks

LEMMA PushKeeps == ASSUME ContainmentInv, NEW k \in Jobs, C!PushBlock(k) PROVE ContainmentInv'
  <1>1. PICK t \in BlockTasks : t = job[k] /\ t.pc = "push"
    BY AtStep DEF ContainmentInv, C!PushBlock
  <1> DEFINE u == [t EXCEPT !.pc = "record"]
             v == [t EXCEPT !.pc = "record", !.asked = TRUE]
             w == [t EXCEPT !.pc = "record", !.asked = TRUE, !.rule = TRUE]
  <1>2. /\ u \in BlockTasks /\ v \in BlockTasks /\ w \in BlockTasks
        /\ t.host \in Hosts /\ w.pc = "record" /\ w.host = t.host /\ w.asked /\ w.rule
    BY <1>1 DEF BlockTasks
  <1>3. UNCHANGED <<enabled, blocks, vlan, access, registry, drops, isolations, mixed, requests>>
    BY DEF C!PushBlock, C!network
  <1>4. PICK n \in {u, v, w} :
          /\ job' = [job EXCEPT ![k] = n]
          /\ \/ UNCHANGED <<table, missed, faults>>
             \/ n = w /\ table' = table \union {t.host} /\ UNCHANGED <<missed, faults>>
             \/ /\ faults < CallFaults /\ faults' = faults + 1
                /\ table' \in {table, table \union {t.host}} /\ missed' = missed \union {t.host}
    BY <1>1 DEF C!PushBlock, C!Goto, C!Fault
  <1> HIDE DEF u, v, w
  <1>5. n \in BlockTasks /\ n \in ContainmentTasks
    BY <1>2, <1>4 DEF ContainmentTasks
  <1>6. /\ job' \in [Jobs -> ContainmentTasks \union {NoTask}]
        /\ job'[k] = n /\ \A x \in Jobs \ {k} : job'[x] = job[x]
    BY <1>4, <1>5, TaskChanges DEF ContainmentInv
  <1>7. RestoresFit' /\ IsolatedAlone'
    BY <1>1, <1>3, <1>5, <1>6, TaskFacts, NetworkIsLeft
  <1>8. \A h : \A x \in Jobs : TaskAnswers(x, h) => TaskAnswers(x, h)'
    BY <1>1, <1>6, TaskFacts DEF TaskAnswers
  <1>9. \A h, i : RowAnswers(i, h) => RowAnswers(i, h)'
    BY <1>3 DEF RowAnswers
  <1>10. n = w => TaskAnswers(k, t.host)'
    BY <1>2, <1>6 DEF TaskAnswers
  <1>11. Answered'
    BY <1>3, <1>4, <1>8, <1>9, <1>10 DEF ContainmentInv, Answered
  <1>12. ContainmentTypes'
    BY <1>2, <1>3, <1>4, <1>6, ContainmentAssumption DEF ContainmentInv, ContainmentTypes
  <1> QED
    BY <1>7, <1>11, <1>12 DEF ContainmentInv

LEMMA RecordKeeps == ASSUME ContainmentInv, NEW k \in Jobs, C!RecordBlock(k) PROVE ContainmentInv'
  <1>1. PICK t \in BlockTasks : t = job[k] /\ t.pc = "record"
    BY AtStep DEF ContainmentInv, C!RecordBlock
  <1> DEFINE r == [host |-> t.host, by |-> t.by, asked |-> t.asked, rule |-> t.rule,
                   rst |-> t.rst, status |-> "active"]
  <1>2. r \in BlockRows /\ t.host \in Hosts /\ t.asked \in BOOLEAN /\ t.rule \in BOOLEAN
    BY <1>1 DEF BlockTasks, BlockRows
  <1>3. UNCHANGED <<enabled, table, vlan, access, registry, drops, isolations, mixed, requests>>
    BY DEF C!RecordBlock, C!network
  <1>4. /\ job' = [job EXCEPT ![k] = NoTask]
        /\ \/ blocks' = Append(blocks, r) /\ UNCHANGED <<missed, faults>>
           \/ ~ (t.asked /\ t.rule) /\ UNCHANGED <<blocks, missed, faults>>
           \/ /\ faults < CallFaults /\ faults' = faults + 1
              /\ missed' = missed \union {t.host} /\ UNCHANGED blocks
    BY <1>1 DEF C!RecordBlock, C!End, C!Fault, C!BlockHappened
  <1>5. r.host = t.host /\ r.asked = t.asked /\ r.status = "active"
    OBVIOUS
  <1> HIDE DEF r
  <1>6. /\ job' \in [Jobs -> ContainmentTasks \union {NoTask}]
        /\ job'[k] = NoTask /\ \A x \in Jobs \ {k} : job'[x] = job[x]
    BY <1>4, TaskChanges DEF ContainmentInv
  <1>7. RestoresFit' /\ IsolatedAlone'
    BY <1>1, <1>3, <1>6, TaskFacts, ContainmentAssumption, NetworkIsLeft DEF ContainmentTasks
  <1>8. \A h : \A x \in Jobs \ {k} : TaskAnswers(x, h) => TaskAnswers(x, h)'
    BY <1>6 DEF TaskAnswers
  <1>9. \A h : TaskAnswers(k, h) => h = t.host /\ t.asked /\ t.rule
    BY <1>1, TaskFacts DEF TaskAnswers
  <1>10. blocks \in Seq(BlockRows)
    BY DEF ContainmentInv, ContainmentTypes
  <1>11. \A h, i : RowAnswers(i, h) => RowAnswers(i, h)'
    BY <1>2, <1>4, <1>10 DEF RowAnswers
  <1>12. blocks' = Append(blocks, r) /\ t.asked => \E i \in DOMAIN blocks' : RowAnswers(i, t.host)'
    <2> SUFFICES ASSUME blocks' = Append(blocks, r), t.asked
                 PROVE  \E i \in DOMAIN blocks' : RowAnswers(i, t.host)'
      OBVIOUS
    <2>1. Len(blocks) + 1 \in DOMAIN blocks' /\ blocks'[Len(blocks) + 1] = r
      BY <1>2, <1>10
    <2> QED
      BY <2>1, <1>5 DEF RowAnswers
  <1>13. Answered'
    BY <1>3, <1>4, <1>8, <1>9, <1>11, <1>12 DEF ContainmentInv, Answered
  <1>14. ContainmentTypes'
    <2>1. blocks' \in Seq(BlockRows)
      BY <1>2, <1>4, <1>10
    <2> QED
      BY <2>1, <1>2, <1>3, <1>4, <1>6, ContainmentAssumption DEF ContainmentInv, ContainmentTypes
  <1> QED
    BY <1>7, <1>13, <1>14 DEF ContainmentInv

(* A revocation whose row is not among those listed undoes nothing, and    *)
(* its host is missed.                                                     *)
LEMMA RevokeKeeps ==
  ASSUME ContainmentInv, NEW k \in Jobs, NEW i \in 1 .. MaxRequests, C!RevokeBlock(k, i)
  PROVE  ContainmentInv'
  <1>1. i \in DOMAIN blocks /\ blocks \in Seq(BlockRows) /\ blocks[i] \in BlockRows
    BY DEF C!RevokeBlock, ContainmentInv, ContainmentTypes
  <1>2. PICK r \in BlockRows : r = blocks[i]
    BY <1>1
  <1> DEFINE t == [pc |-> "revoke", host |-> r.host, asked |-> r.asked]
  <1>3. t \in RevokeTasks /\ t \in ContainmentTasks /\ r.host \in Hosts
    BY DEF BlockRows, RevokeTasks, ContainmentTasks
  <1>4. /\ job[k] = NoTask /\ requests < MaxRequests /\ requests' = requests + 1
        /\ blocks' = [blocks EXCEPT ![i].status = "revoked"]
        /\ UNCHANGED <<enabled, table, vlan, access, registry, drops, isolations, mixed, faults>>
        /\ \/ job' = [job EXCEPT ![k] = t] /\ UNCHANGED missed
           \/ missed' = missed \union {r.host} /\ UNCHANGED job
    BY <1>2 DEF C!RevokeBlock, C!Begin, C!network
  <1>5. t.host = r.host /\ t.asked = r.asked
    OBVIOUS
  <1> HIDE DEF t
  <1>6. /\ job' \in [Jobs -> ContainmentTasks \union {NoTask}]
        /\ \A x \in Jobs \ {k} : job'[x] = job[x]
        /\ job'[k] = t \/ (job'[k] = NoTask /\ missed' = missed \union {r.host})
    <2>1. CASE job' = [job EXCEPT ![k] = t]
      <3>1. /\ job' \in [Jobs -> ContainmentTasks \union {NoTask}]
            /\ job'[k] = t /\ \A x \in Jobs \ {k} : job'[x] = job[x]
        BY <2>1, <1>3, TaskChanges DEF ContainmentInv
      <3> QED
        BY <3>1
    <2>2. CASE missed' = missed \union {r.host} /\ UNCHANGED job
      BY <2>2, <1>4 DEF ContainmentInv, ContainmentTypes
    <2> QED
      BY <2>1, <2>2, <1>4
  <1>7. job[k] \notin BlockTasks \union RevokeTasks \union IsolateTasks \union RestoreTasks
    BY <1>4, ContainmentAssumption DEF ContainmentTasks
  <1>8. job'[k] \notin IsolateTasks \union RestoreTasks
    BY <1>3, <1>6, TaskFacts, ContainmentAssumption DEF ContainmentTasks
  <1>9. RestoresFit' /\ IsolatedAlone'
    BY <1>4, <1>6, <1>7, <1>8, NetworkIsLeft
  <1>10. \A h : \A x \in Jobs : TaskAnswers(x, h) => TaskAnswers(x, h)'
    BY <1>6, <1>7 DEF TaskAnswers
  <1>11. DOMAIN blocks' = DOMAIN blocks /\ \A i2 \in DOMAIN blocks \ {i} : blocks'[i2] = blocks[i2]
    BY <1>1, <1>4
  <1>12. \A h, i2 : RowAnswers(i2, h) => RowAnswers(i2, h)' \/ i2 = i
    BY <1>11 DEF RowAnswers
  <1>13. \A h : RowAnswers(i, h) => h = r.host /\ r.asked
    BY <1>2 DEF RowAnswers
  <1>14. r.asked => TaskAnswers(k, r.host)' \/ r.host \in missed'
    BY <1>3, <1>5, <1>6 DEF TaskAnswers
  <1>15. missed \subseteq missed'
    BY <1>4
  <1>16. Answered'
    <2> SUFFICES ASSUME NEW h \in table, h \notin missed'
                 PROVE  \/ \E x \in Jobs : TaskAnswers(x, h)'
                        \/ \E i2 \in DOMAIN blocks' : RowAnswers(i2, h)'
      BY <1>4 DEF Answered
    <2>1. (\E x \in Jobs : TaskAnswers(x, h)) \/ (\E i2 \in DOMAIN blocks : RowAnswers(i2, h))
      BY <1>15 DEF ContainmentInv, Answered
    <2> QED
      BY <2>1, <1>10, <1>11, <1>12, <1>13, <1>14
  <1>17. blocks' \in Seq(BlockRows)
    <2>1. [r EXCEPT !.status = "revoked"] \in BlockRows
      BY DEF BlockRows
    <2>2. blocks' = [blocks EXCEPT ![i] = [r EXCEPT !.status = "revoked"]]
      BY <1>2, <1>4
    <2> QED
      BY <2>1, <2>2, <1>1
  <1>18. ContainmentTypes'
    BY <1>3, <1>4, <1>6, <1>17, ContainmentAssumption DEF ContainmentInv, ContainmentTypes
  <1> QED
    BY <1>9, <1>16, <1>18 DEF ContainmentInv

(* The entry is taken back, or its host is missed.                         *)
LEMMA UndoBlockKeeps == ASSUME ContainmentInv, NEW k \in Jobs, C!UndoBlock(k) PROVE ContainmentInv'
  <1>1. PICK t \in RevokeTasks : t = job[k] /\ t.pc = "revoke"
    BY AtStep DEF ContainmentInv, C!UndoBlock
  <1>2. t.host \in Hosts
    BY DEF RevokeTasks
  <1>3. /\ job' = [job EXCEPT ![k] = NoTask]
        /\ UNCHANGED <<enabled, blocks, vlan, access, registry, drops, isolations, mixed, requests>>
        /\ missed' \in {missed, missed \union {t.host}}
        /\ table' \in {table, table \ {t.host}}
        /\ t.asked => t.host \in missed' \/ t.host \notin table'
        /\ UNCHANGED faults \/ (faults < CallFaults /\ faults' = faults + 1)
    BY <1>1 DEF C!UndoBlock, C!End, C!Fault, C!RevokeRule, C!network
  <1>4. /\ job' \in [Jobs -> ContainmentTasks \union {NoTask}]
        /\ job'[k] = NoTask /\ \A x \in Jobs \ {k} : job'[x] = job[x]
    BY <1>3, TaskChanges DEF ContainmentInv
  <1>5. RestoresFit' /\ IsolatedAlone'
    BY <1>1, <1>3, <1>4, TaskFacts, ContainmentAssumption, NetworkIsLeft DEF ContainmentTasks
  <1>6. \A h : \A x \in Jobs \ {k} : TaskAnswers(x, h) => TaskAnswers(x, h)'
    BY <1>4 DEF TaskAnswers
  <1>7. \A h : TaskAnswers(k, h) => h = t.host /\ t.asked
    BY <1>1, TaskFacts DEF TaskAnswers
  <1>8. \A h, i : RowAnswers(i, h) => RowAnswers(i, h)'
    BY <1>3 DEF RowAnswers
  <1>9. Answered'
    <2> SUFFICES ASSUME NEW h \in table', h \notin missed'
                 PROVE  \/ \E x \in Jobs : TaskAnswers(x, h)'
                        \/ \E i2 \in DOMAIN blocks' : RowAnswers(i2, h)'
      BY DEF Answered
    <2>1. h \in table /\ h \notin missed
      BY <1>3
    <2>2. (\E x \in Jobs : TaskAnswers(x, h)) \/ (\E i2 \in DOMAIN blocks : RowAnswers(i2, h))
      BY <2>1 DEF ContainmentInv, Answered
    <2> QED
      BY <2>2, <1>3, <1>6, <1>7, <1>8
  <1>10. ContainmentTypes'
    BY <1>2, <1>3, <1>4, ContainmentAssumption DEF ContainmentInv, ContainmentTypes
  <1> QED
    BY <1>5, <1>9, <1>10 DEF ContainmentInv

(* A step of a task on device d leaves what is known of the other devices. *)
LEMMA OthersAreLeft ==
  ASSUME ContainmentInv, NEW k \in Jobs, \A x \in Jobs \ {k} : job'[x] = job[x],
         NEW d \in Devices, NEW b \in Devices \ mixed', b # d, mixed \subseteq mixed',
         vlan'[b] = vlan[b], access'[b] = access[b], drops'[b] = drops[b],
         b \in registry' <=> b \in registry,
         job[k] \in IsolateTasks \union RestoreTasks => job[k].device = d,
         job'[k] \in IsolateTasks \union RestoreTasks => job'[k].device = d,
         \A i : RowOf(i, b) <=> RowOf(i, b)',
         \A i \in DOMAIN isolations : RowOf(i, b) => isolations'[i] = isolations[i]
  PROVE  Alone(b)'
  <1>1. Alone(b) /\ RestoresFit
    BY DEF ContainmentInv, IsolatedAlone
  <1>2. \A x \in Jobs : (Isolates(x, b) \/ Restores(x, b) \/ Isolates(x, b)' \/ Restores(x, b)')
                        => job'[x] = job[x]
    BY DEF Isolates, Restores
  <1> QED
    BY <1>1, <1>2, DeviceIsLeft

LEMMA IsolateKeeps ==
  ASSUME ContainmentInv, NEW k \in Jobs, NEW d \in Devices, NEW way \in Methods, C!Isolate(k, d, way)
  PROVE  ContainmentInv'
  <1> DEFINE t == [pc |-> IF way \in C!Switches THEN "read" ELSE "enforce", device |-> d,
                   method |-> way, saved |-> "one"]
  <1>1. t \in IsolateTasks /\ t \in ContainmentTasks
    BY DEF IsolateTasks, ContainmentTasks, C!Vlans
  <1>2. /\ job[k] = NoTask /\ requests < MaxRequests /\ requests' = requests + 1
        /\ job' = [job EXCEPT ![k] = t]
        /\ UNCHANGED <<enabled, table, blocks, missed, vlan, access, registry, drops, isolations, faults>>
        /\ mixed' \in {mixed, mixed \union {d}}
        /\ d \notin mixed' => C!ActiveRows(d) \union C!InHand(d) = {}
    BY DEF C!Isolate, C!Begin, C!ReadsVlan, C!firewall, C!Mixed
  <1>3. t.device = d /\ t.pc # "store" /\ (t.pc = "enforce" => t.method \notin C!Switches)
    OBVIOUS
  <1> HIDE DEF t
  <1>4. /\ job' \in [Jobs -> ContainmentTasks \union {NoTask}]
        /\ job'[k] = t /\ \A x \in Jobs \ {k} : job'[x] = job[x]
    BY <1>1, <1>2, TaskChanges DEF ContainmentInv
  <1>5. job[k] \notin BlockTasks \union RevokeTasks \union IsolateTasks \union RestoreTasks
    BY <1>2, ContainmentAssumption DEF ContainmentTasks
  <1>6. \A i, b : RowOf(i, b) <=> RowOf(i, b)'
    BY <1>2 DEF RowOf
  <1>7. ASSUME NEW b \in Devices \ mixed', b # d PROVE Alone(b)'
    BY <1>2, <1>3, <1>4, <1>5, <1>6, <1>7, OthersAreLeft
  <1>8. ASSUME d \notin mixed' PROVE Alone(d)'
    <2>1. \A x \in Jobs : ~ Isolates(x, d) /\ ~ Restores(x, d)
      <3> SUFFICES ASSUME NEW x \in Jobs, job[x] \in IsolateTasks \union RestoreTasks, job[x].device = d
                   PROVE  FALSE
        BY DEF Isolates, Restores
      <3>1. job[x] # NoTask /\ "device" \in DOMAIN job[x]
        BY TaskFacts, ContainmentAssumption DEF ContainmentTasks
      <3>2. x \in C!InHand(d)
        BY <3>1 DEF C!InHand
      <3> QED
        BY <3>2, <1>2, <1>8
    <2>2. \A i \in DOMAIN isolations : ~ ActiveOf(i, d)
      BY <1>2, <1>8 DEF ActiveOf, RowOf, C!ActiveRows
    <2>3. Alone(d)
      BY <1>2, <1>8 DEF ContainmentInv, IsolatedAlone
    <2>4. Before(d)
      BY <2>1, <2>2, <2>3 DEF Alone, Untouched
    <2>5. Before(d)'
      BY <2>4, <1>2 DEF Before, Known
    <2>6. \A x \in Jobs : ~ Restores(x, d)' /\ (Isolates(x, d)' => x = k)
      BY <2>1, <1>1, <1>4, TaskFacts DEF Isolates, Restores
    <2>7. \A i \in DOMAIN isolations' : ~ ActiveOf(i, d)'
      BY <2>2, <1>2 DEF ActiveOf, RowOf
    <2>8. job'[k].pc # "store"
      BY <1>3, <1>4
    <2>9. job'[k].pc = "enforce" => Saved(d, job[k])'
      BY <1>3, <1>4 DEF Saved, C!Switches
    <2> QED
      BY <2>5, <2>6, <2>7, <2>8, <2>9 DEF Alone, OneAtATime, Untouched, Traced
  <1>9. RestoresFit'
    BY <1>1, <1>2, <1>4, TaskFacts DEF ContainmentInv, RestoresFit
  <1>10. Answered'
    BY <1>2, <1>4, <1>5, FirewallIsLeft
  <1>11. ContainmentTypes'
    BY <1>2, <1>4, ContainmentAssumption DEF ContainmentInv, ContainmentTypes
  <1> QED
    BY <1>7, <1>8, <1>9, <1>10, <1>11 DEF ContainmentInv, IsolatedAlone

(* Of an isolation in hand, nothing else is under way for its device.      *)
LEMMA IsolatingAlone ==
  ASSUME ContainmentInv, NEW k \in Jobs, NEW t \in IsolateTasks, t = job[k],
         t.device \notin mixed
  PROVE  /\ t.device \in Devices \ mixed /\ Alone(t.device)
         /\ \A i \in DOMAIN isolations : ~ ActiveOf(i, t.device)
         /\ \A x \in Jobs : ~ Restores(x, t.device) /\ (Isolates(x, t.device) => x = k)
         /\ t.pc # "store" => Before(t.device)
  <1>1. t.device \in Devices \ mixed /\ Alone(t.device)
    BY DEF IsolateTasks, ContainmentInv, IsolatedAlone
  <1>2. Isolates(k, t.device)
    BY DEF Isolates
  <1>3. /\ \A i \in DOMAIN isolations : ~ ActiveOf(i, t.device)
        /\ \A x \in Jobs : ~ Restores(x, t.device) /\ (Isolates(x, t.device) => x = k)
    BY <1>1, <1>2 DEF Alone, OneAtATime
  <1>4. t.pc # "store" => Before(t.device)
    BY <1>1, <1>3 DEF Alone, Untouched
  <1> QED
    BY <1>1, <1>3, <1>4

LEMMA ReadKeeps == ASSUME ContainmentInv, NEW k \in Jobs, C!ReadVlan(k) PROVE ContainmentInv'
  <1>1. PICK t \in IsolateTasks : t = job[k] /\ t.pc = "read"
    BY AtStep DEF ContainmentInv, C!ReadVlan
  <1>2. PICK d \in Devices : d = t.device
    BY DEF IsolateTasks
  <1>3. PICK s2 \in C!Vlans :
          /\ job' = [job EXCEPT ![k] = [t EXCEPT !.pc = "enforce", !.saved = s2]]
          /\ d \notin mixed' /\ t.method \in C!Readable => s2 = vlan[d]
    <2>1. [t EXCEPT !.pc = "enforce"] = [t EXCEPT !.pc = "enforce", !.saved = t.saved]
      BY DEF IsolateTasks
    <2>2. vlan[d] \in C!Vlans /\ t.saved \in C!Vlans /\ "one" \in C!Vlans
      BY DEF C!Vlans, IsolateTasks, ContainmentInv, ContainmentTypes
    <2>3. CASE job' = [job EXCEPT ![k] = [t EXCEPT !.pc = "enforce",
                         !.saved = IF t.method \in C!Readable THEN vlan[d] ELSE "one"]]
      <3>1. CASE t.method \in C!Readable
        BY <2>2, <2>3, <3>1
      <3>2. CASE t.method \notin C!Readable
        BY <2>2, <2>3, <3>2
      <3> QED
        BY <3>1, <3>2
    <2>4. CASE job' = [job EXCEPT ![k] = [t EXCEPT !.pc = "enforce"]] /\ d \in mixed'
      BY <2>1, <2>2, <2>4
    <2> QED
      BY <2>3, <2>4, <1>1, <1>2 DEF C!ReadVlan, C!Goto, C!Mixed
  <1>4. /\ UNCHANGED <<enabled, table, blocks, missed, vlan, access, registry, drops, isolations, requests>>
        /\ mixed' \in {mixed, mixed \union {d}}
        /\ UNCHANGED faults \/ (faults < CallFaults /\ faults' = faults + 1)
    BY <1>1, <1>2 DEF C!ReadVlan, C!Fault, C!Mixed, C!firewall
  <1> DEFINE u == [t EXCEPT !.pc = "enforce", !.saved = s2]
  <1>5. /\ u \in IsolateTasks /\ u \in ContainmentTasks
        /\ u.pc = "enforce" /\ u.device = d /\ u.method = t.method /\ u.saved = s2
    BY <1>2 DEF IsolateTasks, ContainmentTasks
  <1> HIDE DEF u
  <1>6. /\ job' \in [Jobs -> ContainmentTasks \union {NoTask}]
        /\ job'[k] = u /\ \A x \in Jobs \ {k} : job'[x] = job[x]
    BY <1>3, <1>5, TaskChanges DEF ContainmentInv, u
  <1>7. \A i, b : RowOf(i, b) <=> RowOf(i, b)'
    BY <1>4 DEF RowOf
  <1>8. ASSUME NEW b \in Devices \ mixed', b # d PROVE Alone(b)'
    BY <1>1, <1>2, <1>4, <1>5, <1>6, <1>7, <1>8, OthersAreLeft
  <1>9. ASSUME d \notin mixed' PROVE Alone(d)'
    <2>1. d \notin mixed
      BY <1>4, <1>9
    <2>2. /\ \A i \in DOMAIN isolations : ~ ActiveOf(i, d)
          /\ \A x \in Jobs : ~ Restores(x, d) /\ (Isolates(x, d) => x = k)
          /\ Before(d)
      BY <1>1, <1>2, <2>1, IsolatingAlone
    <2>3. Before(d)'
      BY <2>2, <1>4 DEF Before, Known
    <2>4. \A x \in Jobs : ~ Restores(x, d)' /\ (Isolates(x, d)' => x = k)
      BY <2>2, <1>5, <1>6, TaskFacts DEF Isolates, Restores
    <2>5. \A i \in DOMAIN isolations' : ~ ActiveOf(i, d)'
      BY <2>2, <1>4 DEF ActiveOf, RowOf
    <2>6. Saved(d, u)'
      BY <1>3, <1>4, <1>5, <1>9, <2>2 DEF Saved, Before, Known
    <2>7. job'[k].pc = "enforce" /\ Saved(d, job[k])'
      <3>1. u' = u
        BY DEF u
      <3> QED
        BY <3>1, <1>5, <1>6, <2>6
    <2> QED
      BY <2>3, <2>4, <2>5, <2>7 DEF Alone, OneAtATime, Untouched, Traced
  <1>10. RestoresFit'
    BY <1>4, <1>5, <1>6, TaskFacts DEF ContainmentInv, RestoresFit
  <1>11. Answered'
    BY <1>1, <1>4, <1>6, TaskFacts, FirewallIsLeft
  <1>12. ContainmentTypes'
    BY <1>4, <1>6, ContainmentAssumption DEF ContainmentInv, ContainmentTypes
  <1> QED
    BY <1>8, <1>9, <1>10, <1>11, <1>12 DEF ContainmentInv, IsolatedAlone

LEMMA EnforceKeeps == ASSUME ContainmentInv, NEW k \in Jobs, C!Enforce(k) PROVE ContainmentInv'
  <1>1. PICK t \in IsolateTasks : t = job[k] /\ t.pc = "enforce"
    BY AtStep DEF ContainmentInv, C!Enforce
  <1>2. PICK d \in Devices : d = t.device
    BY DEF IsolateTasks
  <1> DEFINE u == [t EXCEPT !.pc = "store"]
  <1>3. /\ job' = [job EXCEPT ![k] = u]
        /\ UNCHANGED <<enabled, table, blocks, missed, isolations, requests>>
        /\ \/ C!Enforced(d, t.method) /\ UNCHANGED <<mixed, faults>>
           \/ /\ UNCHANGED <<vlan, access, registry, drops>> /\ mixed' = mixed \union {d}
              /\ faults < CallFaults /\ faults' = faults + 1
    BY <1>1, <1>2 DEF C!Enforce, C!Goto, C!Fault, C!Mixed, C!firewall, C!Unchanged
  <1>4. /\ u \in IsolateTasks /\ u \in ContainmentTasks
        /\ u.pc = "store" /\ u.device = d /\ u.method = t.method /\ u.saved = t.saved
    BY <1>2 DEF IsolateTasks, ContainmentTasks
  <1> HIDE DEF u
  <1>5. /\ job' \in [Jobs -> ContainmentTasks \union {NoTask}]
        /\ job'[k] = u /\ \A x \in Jobs \ {k} : job'[x] = job[x]
    BY <1>3, <1>4, TaskChanges DEF ContainmentInv
  <1>6. /\ vlan' \in [Devices -> C!Vlans] /\ access' \in [Devices -> BOOLEAN]
        /\ registry' \subseteq Devices /\ drops' \in [Devices -> Nat]
        /\ \A b \in registry' : drops'[b] > 0
        /\ \A b \in Devices \ {d} : /\ vlan'[b] = vlan[b] /\ access'[b] = access[b]
                                    /\ drops'[b] = drops[b] /\ (b \in registry' <=> b \in registry)
    <2>1. CASE UNCHANGED <<vlan, access, registry, drops>>
      BY <2>1 DEF ContainmentInv, ContainmentTypes
    <2>2. CASE C!Enforced(d, t.method)
      <3>1. /\ vlan' \in [Devices -> C!Vlans] /\ access' \in [Devices -> BOOLEAN]
            /\ \A b \in Devices \ {d} : vlan'[b] = vlan[b] /\ access'[b] = access[b]
        BY <2>2 DEF C!Enforced, C!Vlans, ContainmentInv, ContainmentTypes
      <3>2. CASE UNCHANGED <<registry, drops>>
        BY <3>1, <3>2 DEF ContainmentInv, ContainmentTypes
      <3>3. CASE C!AgentIsolate(d)
        <4>1. CASE d \in registry
          BY <3>1, <3>3, <4>1 DEF C!AgentIsolate, ContainmentInv, ContainmentTypes
        <4>2. CASE d \notin registry
          <5>1. drops[d] + 1 \in Nat /\ drops[d] + 1 > 0
            BY DEF ContainmentInv, ContainmentTypes
          <5>2. drops' = [drops EXCEPT ![d] = drops[d] + 1] /\ registry' = registry \union {d}
            BY <3>3, <4>2 DEF C!AgentIsolate
          <5> QED
            BY <3>1, <5>1, <5>2 DEF ContainmentInv, ContainmentTypes
        <4> QED
          BY <4>1, <4>2
      <3> QED
        BY <2>2, <3>2, <3>3 DEF C!Enforced
    <2> QED
      BY <2>1, <2>2, <1>3
  <1>7. \A i, b : RowOf(i, b) <=> RowOf(i, b)'
    BY <1>3 DEF RowOf
  <1>8. ASSUME NEW b \in Devices \ mixed', b # d PROVE Alone(b)'
    BY <1>1, <1>2, <1>3, <1>4, <1>5, <1>6, <1>7, <1>8, OthersAreLeft
  <1>9. ASSUME d \notin mixed' PROVE Alone(d)'
    <2>1. d \notin mixed /\ C!Enforced(d, t.method)
      BY <1>3, <1>9
    <2>2. /\ \A i \in DOMAIN isolations : ~ ActiveOf(i, d)
          /\ \A x \in Jobs : ~ Restores(x, d) /\ (Isolates(x, d) => x = k)
          /\ Before(d) /\ Alone(d)
      BY <1>1, <1>2, <2>1, IsolatingAlone
    <2>3. Saved(d, t)
      BY <1>1, <1>2, <2>2 DEF Alone, Traced, Isolates
    <2>4. \A x \in Jobs : ~ Restores(x, d)' /\ (Isolates(x, d)' => x = k)
      BY <2>2, <1>4, <1>5, TaskFacts DEF Isolates, Restores
    <2>5. \A i \in DOMAIN isolations' : ~ ActiveOf(i, d)'
      BY <2>2, <1>3 DEF ActiveOf, RowOf
    <2>6. Known(d)' <=> Known(d)
      BY <1>3 DEF Known
    <2>7. Saved(d, job[k])'
      BY <2>3, <2>6, <1>4, <1>5 DEF Saved
    <2>8. /\ t.method \notin C!Switches => vlan'[d] = vlan[d]
          /\ access'[d] = access[d] \/ t.method \in C!Gates
          /\ IF t.method = "arp" THEN drops'[d] = 1 /\ d \in registry'
             ELSE drops'[d] = 0 /\ d \notin registry'
      BY <2>1, <2>2 DEF C!Enforced, C!AgentIsolate, Before, ContainmentInv, ContainmentTypes
    <2>9. Enforces(d, job[k])'
      BY <2>2, <2>6, <2>7, <2>8, <1>4, <1>5 DEF Enforces, Before
    <2>10. Isolates(k, d)' /\ job'[k].pc = "store"
      BY <1>4, <1>5 DEF Isolates
    <2> QED
      BY <2>4, <2>5, <2>9, <2>10 DEF Alone, OneAtATime, Untouched, Traced
  <1>10. RestoresFit'
    BY <1>3, <1>4, <1>5, TaskFacts DEF ContainmentInv, RestoresFit
  <1>11. Answered'
    BY <1>1, <1>3, <1>5, TaskFacts, FirewallIsLeft
  <1>12. ContainmentTypes'
    BY <1>2, <1>3, <1>5, <1>6, ContainmentAssumption DEF ContainmentInv, ContainmentTypes
  <1> QED
    BY <1>8, <1>9, <1>10, <1>11, <1>12 DEF ContainmentInv, IsolatedAlone

LEMMA StoreKeeps == ASSUME ContainmentInv, NEW k \in Jobs, C!StoreIsolation(k) PROVE ContainmentInv'
  <1>1. PICK t \in IsolateTasks : t = job[k] /\ t.pc = "store"
    BY AtStep DEF ContainmentInv, C!StoreIsolation
  <1>2. PICK d \in Devices : d = t.device
    BY DEF IsolateTasks
  <1> DEFINE r == [device |-> d, method |-> t.method, saved |-> t.saved, active |-> TRUE]
  <1>3. /\ job' = [job EXCEPT ![k] = NoTask]
        /\ UNCHANGED <<enabled, table, blocks, missed, vlan, access, registry, drops, requests>>
        /\ \/ isolations' = Append(isolations, r) /\ UNCHANGED <<mixed, faults>>
           \/ /\ UNCHANGED isolations /\ mixed' = mixed \union {d}
              /\ faults < CallFaults /\ faults' = faults + 1
    BY <1>1, <1>2 DEF C!StoreIsolation, C!End, C!Fault, C!Mixed, C!firewall, C!Unchanged
  <1>4. /\ r \in IsolationRows /\ r.device = d /\ r.method = t.method /\ r.saved = t.saved /\ r.active
    BY DEF IsolationRows, IsolateTasks
  <1>5. PICK n \in Nat : isolations \in Seq(IsolationRows) /\ n = Len(isolations) + 1
    BY DEF ContainmentInv, ContainmentTypes
  <1> HIDE DEF r
  <1>6. /\ isolations' \in Seq(IsolationRows)
        /\ \A i \in DOMAIN isolations : i \in DOMAIN isolations' /\ isolations'[i] = isolations[i]
        /\ isolations' # isolations =>
             /\ DOMAIN isolations' = DOMAIN isolations \union {n}
             /\ n \notin DOMAIN isolations /\ isolations'[n] = r
    <2>1. CASE isolations' = Append(isolations, r)
      BY <2>1, <1>4, <1>5
    <2>2. CASE isolations' = isolations
      BY <2>2, <1>5
    <2> QED
      BY <2>1, <2>2, <1>3
  <1>7. /\ job' \in [Jobs -> ContainmentTasks \union {NoTask}]
        /\ job'[k] = NoTask /\ \A x \in Jobs \ {k} : job'[x] = job[x]
    BY <1>3, TaskChanges DEF ContainmentInv
  <1>8. ASSUME NEW b \in Devices \ mixed', b # d PROVE Alone(b)'
    <2>1. \A i : RowOf(i, b) <=> RowOf(i, b)'
      BY <1>4, <1>6, <1>8 DEF RowOf
    <2>2. job'[k] \notin IsolateTasks \union RestoreTasks /\ mixed \subseteq mixed'
      BY <1>3, <1>7, ContainmentAssumption DEF ContainmentTasks
    <2>3. \A i \in DOMAIN isolations : RowOf(i, b) => isolations'[i] = isolations[i]
      BY <1>6
    <2> QED
      BY <1>1, <1>2, <1>3, <1>7, <1>8, <2>1, <2>2, <2>3, OthersAreLeft
  <1>9. ASSUME d \notin mixed' PROVE Alone(d)'
    <2>1. d \notin mixed /\ isolations' = Append(isolations, r)
      BY <1>3, <1>9
    <2>2. /\ \A i \in DOMAIN isolations : ~ ActiveOf(i, d)
          /\ \A x \in Jobs : ~ Restores(x, d) /\ (Isolates(x, d) => x = k)
          /\ Alone(d)
      BY <1>1, <1>2, <2>1, IsolatingAlone
    <2>3. DOMAIN isolations' = DOMAIN isolations \union {n} /\ n \notin DOMAIN isolations /\ isolations'[n] = r
      BY <2>1, <1>4, <1>5
    <2>4. Enforces(d, t)
      BY <1>1, <1>2, <2>2 DEF Alone, Traced, Isolates
    <2>5. \A x \in Jobs : ~ Restores(x, d)' /\ ~ Isolates(x, d)'
      BY <2>2, <1>7, ContainmentAssumption DEF Isolates, Restores, ContainmentTasks
    <2>6. \A i \in DOMAIN isolations' : ActiveOf(i, d)' => i = n
      BY <2>2, <2>3, <1>6 DEF ActiveOf, RowOf
    <2>7. ActiveOf(n, d)' /\ n \in DOMAIN isolations'
      BY <2>3, <1>4 DEF ActiveOf, RowOf
    <2>8. Known(d)' => Known(d) /\ t.method # "aruba"
      BY <2>3, <1>4, <1>6 DEF Known
    <2>9. Saved(d, isolations[n])'
      BY <2>3, <2>4, <2>8, <1>4 DEF Saved, Enforces
    <2>10. Enforces(d, isolations[n])'
      BY <2>3, <2>4, <2>8, <2>9, <1>3, <1>4 DEF Enforces
    <2>11. \A i \in DOMAIN isolations' : ActiveOf(i, d)' => Enforces(d, isolations[i])'
      BY <2>6, <2>10
    <2> QED
      BY <2>5, <2>6, <2>7, <2>11 DEF Alone, OneAtATime, Untouched, Traced
  <1>10. RestoresFit'
    BY <1>6, <1>7, ContainmentAssumption DEF ContainmentInv, RestoresFit, ContainmentTasks
  <1>11. Answered'
    BY <1>1, <1>3, <1>7, TaskFacts, FirewallIsLeft
  <1>12. ContainmentTypes'
    BY <1>2, <1>3, <1>6, <1>7, ContainmentAssumption DEF ContainmentInv, ContainmentTypes
  <1> QED
    BY <1>8, <1>9, <1>10, <1>11, <1>12 DEF ContainmentInv, IsolatedAlone

LEMMA FindKeeps ==
  ASSUME ContainmentInv, NEW k \in Jobs, NEW i \in 1 .. MaxRequests, C!FindIsolation(k, i)
  PROVE  ContainmentInv'
  <1>1. i \in DOMAIN isolations /\ isolations[i] \in IsolationRows /\ isolations[i].active
    BY DEF C!FindIsolation, ContainmentInv, ContainmentTypes
  <1>2. PICK d \in Devices : d = isolations[i].device
    BY <1>1 DEF IsolationRows
  <1> DEFINE t == [pc |-> "mark", row |-> i, device |-> d]
  <1>3. t \in RestoreTasks /\ t \in ContainmentTasks
    BY DEF RestoreTasks, ContainmentTasks
  <1>4. /\ job[k] = NoTask /\ requests < MaxRequests /\ requests' = requests + 1
        /\ job' = [job EXCEPT ![k] = t]
        /\ UNCHANGED <<enabled, table, blocks, missed, vlan, access, registry, drops, isolations,
                       mixed, faults>>
    BY <1>2 DEF C!FindIsolation, C!Begin, C!firewall, C!network
  <1>5. t.pc = "mark" /\ t.row = i /\ t.device = d
    OBVIOUS
  <1> HIDE DEF t
  <1>6. /\ job' \in [Jobs -> ContainmentTasks \union {NoTask}]
        /\ job'[k] = t /\ \A x \in Jobs \ {k} : job'[x] = job[x]
    BY <1>3, <1>4, TaskChanges DEF ContainmentInv
  <1>7. job[k] \notin BlockTasks \union RevokeTasks \union IsolateTasks \union RestoreTasks
    BY <1>4, ContainmentAssumption DEF ContainmentTasks
  <1>8. \A i2, b : RowOf(i2, b) <=> RowOf(i2, b)'
    BY <1>4 DEF RowOf
  <1>9. ASSUME NEW b \in Devices \ mixed', b # d PROVE Alone(b)'
    BY <1>4, <1>5, <1>6, <1>7, <1>8, <1>9, OthersAreLeft
  <1>10. ASSUME d \notin mixed' PROVE Alone(d)'
    <2>1. Alone(d)
      BY <1>4, <1>10 DEF ContainmentInv, IsolatedAlone
    <2>2. ActiveOf(i, d)
      BY <1>1, <1>2 DEF ActiveOf, RowOf
    <2>3. \A x \in Jobs : ~ Isolates(x, d)
      BY <1>1, <2>1, <2>2 DEF Alone, OneAtATime
    <2>4. \A x \in Jobs : Restores(x, d) => job[x].row = i
      BY <1>1, <2>1, <2>2 DEF Alone, OneAtATime
    <2>5. Enforces(d, isolations[i])
      BY <1>1, <2>1, <2>2 DEF Alone, Traced
    <2>6. \A x \in Jobs : ~ Isolates(x, d)' /\ (Restores(x, d)' => job'[x].row = i)
      BY <2>3, <2>4, <1>3, <1>5, <1>6, TaskFacts DEF Isolates, Restores
    <2>7. \A i2 : ActiveOf(i2, d)' <=> ActiveOf(i2, d)
      BY <1>4 DEF ActiveOf, RowOf
    <2>8. \A r : (Saved(d, r) => Saved(d, r)') /\ (Enforces(d, r) => Enforces(d, r)')
      BY <1>4 DEF Saved, Enforces, Known
    <2>9. \A i2 \in DOMAIN isolations' : ActiveOf(i2, d)' => i2 = i /\ Enforces(d, isolations[i2])'
      BY <1>1, <1>4, <2>1, <2>2, <2>5, <2>7, <2>8 DEF Alone, OneAtATime
    <2>10. Enforces(d, isolations[i])' /\ Saved(d, isolations[i])'
      BY <1>4, <2>5, <2>8 DEF Enforces
    <2>11. \A x \in Jobs : Restores(x, d)' => /\ Saved(d, isolations[job[x].row])'
                                              /\ Enforces(d, isolations[job[x].row])'
      BY <2>6, <2>10
    <2>12. ActiveOf(i, d)' /\ i \in DOMAIN isolations'
      BY <1>1, <1>4, <2>2, <2>7
    <2> QED
      BY <2>6, <2>9, <2>11, <2>12 DEF Alone, OneAtATime, Untouched, Traced
  <1>11. RestoresFit'
    BY <1>1, <1>2, <1>4, <1>5, <1>6 DEF ContainmentInv, RestoresFit
  <1>12. Answered'
    BY <1>4, <1>6, <1>7, FirewallIsLeft
  <1>13. ContainmentTypes'
    BY <1>4, <1>6, ContainmentAssumption DEF ContainmentInv, ContainmentTypes
  <1> QED
    BY <1>9, <1>10, <1>11, <1>12, <1>13 DEF ContainmentInv, IsolatedAlone

(* Of an isolation being lifted, its row is the only one of its device that *)
(* can be active, and nothing isolates the device meanwhile.               *)
LEMMA LiftingAlone ==
  ASSUME ContainmentInv, NEW k \in Jobs, NEW t \in RestoreTasks, t = job[k],
         t.device \notin mixed
  PROVE  /\ t.device \in Devices \ mixed /\ Alone(t.device) /\ Restores(k, t.device)
         /\ \A x \in Jobs : ~ Isolates(x, t.device)
         /\ \A x \in Jobs : Restores(x, t.device) => job[x].row = t.row
         /\ \A i \in DOMAIN isolations : ActiveOf(i, t.device) => i = t.row
         /\ Saved(t.device, isolations[t.row])
         /\ Before(t.device) \/ Enforces(t.device, isolations[t.row])
  <1>1. t.device \in Devices \ mixed /\ Alone(t.device)
    BY DEF RestoreTasks, ContainmentInv, IsolatedAlone
  <1>2. Restores(k, t.device)
    BY DEF Restores
  <1>3. /\ \A x \in Jobs : ~ Isolates(x, t.device)
        /\ \A x \in Jobs : Restores(x, t.device) => job[x].row = t.row
        /\ \A i \in DOMAIN isolations : ActiveOf(i, t.device) => i = t.row
    BY <1>1, <1>2 DEF Alone, OneAtATime
  <1>4. Saved(t.device, isolations[t.row])
    BY <1>1, <1>2 DEF Alone, Traced
  <1>5. ASSUME \E x \in Jobs : Restores(x, t.device) /\ job[x].pc = "undo"
        PROVE  Before(t.device) \/ Enforces(t.device, isolations[t.row])
    BY <1>1, <1>3, <1>5 DEF Alone, Traced
  <1>6. ASSUME \E i \in DOMAIN isolations : ActiveOf(i, t.device)
        PROVE  Before(t.device) \/ Enforces(t.device, isolations[t.row])
    BY <1>1, <1>3, <1>6 DEF Alone, Traced
  <1>7. Before(t.device) \/ Enforces(t.device, isolations[t.row])
    BY <1>1, <1>3, <1>5, <1>6 DEF Alone, Untouched
  <1> QED
    BY <1>1, <1>2, <1>3, <1>4, <1>7

LEMMA MarkKeeps == ASSUME ContainmentInv, NEW k \in Jobs, C!MarkRestored(k) PROVE ContainmentInv'
  <1>1. PICK t \in RestoreTasks : t = job[k] /\ t.pc = "mark"
    BY AtStep DEF ContainmentInv, C!MarkRestored
  <1>2. PICK d \in Devices : d = t.device
    BY DEF RestoreTasks
  <1>3. PICK i \in DOMAIN isolations : i = t.row /\ isolations[i].device = d
    BY <1>1, <1>2 DEF ContainmentInv, RestoresFit
  <1>4. PICK r \in IsolationRows : r = isolations[i] /\ r.device = d
    BY <1>3 DEF ContainmentInv, ContainmentTypes
  <1> DEFINE u == [t EXCEPT !.pc = "undo"]
             q == [r EXCEPT !.active = FALSE]
  <1>5. /\ UNCHANGED <<enabled, table, blocks, missed, vlan, access, registry, drops, mixed, requests>>
        /\ \/ /\ isolations' = [isolations EXCEPT ![i] = q]
              /\ job' = [job EXCEPT ![k] = u] /\ UNCHANGED faults
           \/ /\ faults < CallFaults /\ faults' = faults + 1
              /\ job' = [job EXCEPT ![k] = NoTask] /\ UNCHANGED isolations
    BY <1>1, <1>3, <1>4 DEF C!MarkRestored, C!Goto, C!End, C!Fault, C!firewall, C!Unchanged
  <1>6. /\ u \in RestoreTasks /\ u \in ContainmentTasks
        /\ u.pc = "undo" /\ u.device = d /\ u.row = i
    BY <1>2, <1>3 DEF RestoreTasks, ContainmentTasks
  <1>7. /\ q \in IsolationRows /\ q.device = d /\ q.method = r.method /\ q.saved = r.saved
        /\ ~ q.active
    BY <1>4 DEF IsolationRows
  <1> HIDE DEF u, q
  <1>8. isolations \in Seq(IsolationRows)
    BY DEF ContainmentInv, ContainmentTypes
  <1>9. /\ isolations' \in Seq(IsolationRows) /\ DOMAIN isolations' = DOMAIN isolations
        /\ \A x \in DOMAIN isolations \ {i} : isolations'[x] = isolations[x]
        /\ isolations'[i] \in {r, q}
    <2>1. CASE isolations' = [isolations EXCEPT ![i] = q]
      BY <2>1, <1>7, <1>8
    <2>2. CASE isolations' = isolations
      BY <2>2, <1>4, <1>8
    <2> QED
      BY <2>1, <2>2, <1>5
  <1>10. /\ job' \in [Jobs -> ContainmentTasks \union {NoTask}]
         /\ job'[k] \in {u, NoTask} /\ \A x \in Jobs \ {k} : job'[x] = job[x]
    <2>1. CASE job' = [job EXCEPT ![k] = u]
      BY <2>1, <1>6, TaskChanges DEF ContainmentInv
    <2>2. CASE job' = [job EXCEPT ![k] = NoTask]
      BY <2>2, TaskChanges DEF ContainmentInv
    <2> QED
      BY <2>1, <2>2, <1>5
  <1>11. /\ job'[k] = u => isolations'[i] = q
         /\ job'[k] = NoTask => isolations' = isolations
    <2>1. u # NoTask
      BY <1>6, ContainmentAssumption
    <2>2. CASE isolations' = [isolations EXCEPT ![i] = q] /\ job' = [job EXCEPT ![k] = u]
      BY <2>1, <2>2, <1>8 DEF ContainmentInv, ContainmentTypes
    <2>3. CASE isolations' = isolations /\ job' = [job EXCEPT ![k] = NoTask]
      BY <2>1, <2>3 DEF ContainmentInv, ContainmentTypes
    <2> QED
      BY <2>2, <2>3, <1>5
  <1>12. ASSUME NEW b \in Devices \ mixed', b # d PROVE Alone(b)'
    <2>1. \A x : RowOf(x, b) <=> RowOf(x, b)'
      BY <1>4, <1>7, <1>9, <1>12 DEF RowOf
    <2>2. job'[k] \in IsolateTasks \union RestoreTasks => job'[k].device = d
      BY <1>6, <1>10, ContainmentAssumption DEF ContainmentTasks
    <2>3. \A x \in DOMAIN isolations : RowOf(x, b) => isolations'[x] = isolations[x]
      BY <1>3, <1>9, <1>12 DEF RowOf
    <2> QED
      BY <1>1, <1>2, <1>5, <1>10, <1>12, <2>1, <2>2, <2>3, OthersAreLeft
  <1>13. ASSUME d \notin mixed' PROVE Alone(d)'
    <2>1. /\ Alone(d) /\ Restores(k, d)
          /\ \A x \in Jobs : ~ Isolates(x, d)
          /\ \A x \in Jobs : Restores(x, d) => job[x].row = i
          /\ \A x \in DOMAIN isolations : ActiveOf(x, d) => x = i
          /\ Saved(d, r) /\ (Before(d) \/ Enforces(d, r))
      BY <1>1, <1>2, <1>3, <1>4, <1>5, <1>13, LiftingAlone
    <2>2. Known(d)' <=> Known(d)
      <3>1. \A x \in DOMAIN isolations :
              /\ isolations'[x].device = isolations[x].device
              /\ isolations'[x].method = isolations[x].method
        BY <1>4, <1>7, <1>9
      <3> QED
        BY <3>1, <1>9 DEF Known
    <2>3. Before(d)' <=> Before(d)
      BY <2>2, <1>5 DEF Before
    <2>4. Saved(d, isolations[i])' /\ (Before(d)' \/ Enforces(d, isolations[i])')
      <3>1. isolations'[i].method = r.method /\ isolations'[i].saved = r.saved
        BY <1>7, <1>9
      <3> QED
        BY <3>1, <2>1, <2>2, <2>3, <1>5 DEF Saved, Enforces
    <2>5. \A x \in Jobs : ~ Isolates(x, d)' /\ (Restores(x, d)' => job'[x].row = i)
      BY <2>1, <1>6, <1>10, TaskFacts, ContainmentAssumption DEF Isolates, Restores, ContainmentTasks
    <2>6. \A x \in DOMAIN isolations' : ActiveOf(x, d)' => x = i /\ ActiveOf(i, d)
      BY <2>1, <1>3, <1>4, <1>7, <1>9 DEF ActiveOf, RowOf
    <2>7. \A x \in DOMAIN isolations' : ActiveOf(x, d)' => Enforces(d, isolations[x])'
      <3> SUFFICES ASSUME ActiveOf(i, d)' PROVE Enforces(d, isolations[i])'
        BY <2>6
      <3>1. isolations'[i] = r /\ ActiveOf(i, d)
        BY <1>7, <1>9, <2>6, <1>3 DEF ActiveOf
      <3>2. Enforces(d, r)
        BY <3>1, <2>1, <1>4 DEF Alone, Traced
      <3> QED
        BY <3>1, <3>2, <2>2, <1>5 DEF Enforces, Saved
    <2>8. Untouched(d)'
      <3>1. CASE job'[k] = u
        BY <3>1, <1>6 DEF Untouched, Restores
      <3>2. CASE job'[k] = NoTask
        <4>1. isolations' = isolations
          BY <3>2, <1>11
        <4>2. \A x : ActiveOf(x, d) => ActiveOf(x, d)'
          BY <4>1 DEF ActiveOf, RowOf
        <4>3. \A x \in Jobs : Restores(x, d) /\ job[x].pc = "undo" => Restores(x, d)' /\ job'[x].pc = "undo"
          BY <1>1, <1>10 DEF Restores
        <4> QED
          BY <4>1, <4>2, <4>3, <2>1, <2>3 DEF Alone, Untouched
      <3> QED
        BY <3>1, <3>2, <1>10
    <2>9. OneAtATime(d)'
      BY <2>5, <2>6 DEF OneAtATime
    <2>10. Traced(d)'
      BY <2>4, <2>5, <2>7 DEF Traced
    <2> QED
      BY <2>8, <2>9, <2>10 DEF Alone
  <1>14. RestoresFit'
    <2> SUFFICES ASSUME NEW x \in Jobs, job'[x] \in RestoreTasks
                 PROVE  /\ job'[x].row \in DOMAIN isolations'
                        /\ isolations'[job'[x].row].device = job'[x].device
                        /\ job'[x].pc = "undo" => ~ isolations'[job'[x].row].active
      BY DEF RestoresFit
    <2>1. CASE x = k
      BY <2>1, <1>3, <1>6, <1>7, <1>9, <1>10, <1>11, ContainmentAssumption DEF ContainmentTasks
    <2>2. CASE x # k
      <3>1. /\ job'[x] = job[x] /\ job[x].row \in DOMAIN isolations
            /\ isolations[job[x].row].device = job[x].device
            /\ job[x].pc = "undo" => ~ isolations[job[x].row].active
        BY <2>2, <1>10 DEF ContainmentInv, RestoresFit
      <3>2. CASE job[x].row = i
        BY <3>1, <3>2, <1>4, <1>7, <1>9
      <3>3. CASE job[x].row # i
        BY <3>1, <3>3, <1>9
      <3> QED
        BY <3>2, <3>3
    <2> QED
      BY <2>1, <2>2
  <1>15. Answered'
    BY <1>1, <1>5, <1>10, TaskFacts, FirewallIsLeft
  <1>16. ContainmentTypes'
    BY <1>5, <1>9, <1>10, ContainmentAssumption DEF ContainmentInv, ContainmentTypes
  <1> QED
    BY <1>12, <1>13, <1>14, <1>15, <1>16 DEF ContainmentInv, IsolatedAlone

(* What an isolation enforced is undone, and a second lifting of the same  *)
(* row finds the device as it was.                                         *)
LEMMA UndoKeeps == ASSUME ContainmentInv, NEW k \in Jobs, C!UndoIsolation(k) PROVE ContainmentInv'
  <1>1. PICK t \in RestoreTasks : t = job[k] /\ t.pc = "undo"
    BY AtStep DEF ContainmentInv, C!UndoIsolation
  <1>2. PICK d \in Devices : d = t.device
    BY DEF RestoreTasks
  <1>3. PICK i \in DOMAIN isolations : i = t.row /\ isolations[i].device = d /\ ~ isolations[i].active
    BY <1>1, <1>2 DEF ContainmentInv, RestoresFit
  <1>4. PICK r \in IsolationRows : r = isolations[i] /\ r.device = d
    BY <1>3 DEF ContainmentInv, ContainmentTypes
  <1>5. /\ job' = [job EXCEPT ![k] = NoTask]
        /\ UNCHANGED <<enabled, table, blocks, missed, isolations, requests>>
        /\ \/ C!Restored(d, r) /\ UNCHANGED <<mixed, faults>>
           \/ /\ mixed' = mixed \union {d} /\ UNCHANGED <<vlan, access, registry, drops>>
              /\ UNCHANGED faults \/ (faults < CallFaults /\ faults' = faults + 1)
    BY <1>1, <1>3, <1>4 DEF C!UndoIsolation, C!End, C!Fault, C!Mixed, C!firewall, C!Unchanged
  <1>6. /\ job' \in [Jobs -> ContainmentTasks \union {NoTask}]
        /\ job'[k] = NoTask /\ \A x \in Jobs \ {k} : job'[x] = job[x]
    BY <1>5, TaskChanges DEF ContainmentInv
  <1>7. \A b \in Devices \ {d} : /\ vlan'[b] = vlan[b] /\ access'[b] = access[b]
                                 /\ drops'[b] = drops[b] /\ (b \in registry' <=> b \in registry)
    BY <1>5 DEF C!Restored, C!AgentRestore, ContainmentInv, ContainmentTypes
  <1>8. \A x, b : RowOf(x, b) <=> RowOf(x, b)'
    BY <1>5 DEF RowOf
  <1>9. ASSUME NEW b \in Devices \ mixed', b # d PROVE Alone(b)'
    <2>1. job'[k] \notin IsolateTasks \union RestoreTasks
      BY <1>6, ContainmentAssumption DEF ContainmentTasks
    <2>2. mixed \subseteq mixed'
      BY <1>5
    <2> QED
      BY <1>1, <1>2, <1>5, <1>6, <1>7, <1>8, <1>9, <2>1, <2>2, OthersAreLeft
  <1>10. d \notin mixed =>
           /\ Before(d) \/ Enforces(d, r)
           /\ Saved(d, r)
           /\ \A x \in Jobs : ~ Isolates(x, d)
           /\ \A x \in Jobs : Restores(x, d) => job[x].row = i
           /\ \A x \in DOMAIN isolations : ~ ActiveOf(x, d)
    <2> SUFFICES ASSUME d \notin mixed
                 PROVE  /\ Before(d) \/ Enforces(d, r)
                        /\ Saved(d, r)
                        /\ \A x \in Jobs : ~ Isolates(x, d)
                        /\ \A x \in Jobs : Restores(x, d) => job[x].row = i
                        /\ \A x \in DOMAIN isolations : ~ ActiveOf(x, d)
      OBVIOUS
    <2>1. /\ \A x \in Jobs : ~ Isolates(x, d)
          /\ \A x \in Jobs : Restores(x, d) => job[x].row = i
          /\ \A x \in DOMAIN isolations : ActiveOf(x, d) => x = i
          /\ Saved(d, r) /\ (Before(d) \/ Enforces(d, r))
      BY <1>1, <1>2, <1>3, <1>4, LiftingAlone
    <2> QED
      BY <2>1, <1>3 DEF ActiveOf
  <1>11. /\ vlan' \in [Devices -> C!Vlans] /\ access' \in [Devices -> BOOLEAN]
         /\ registry' \subseteq Devices /\ drops' \in [Devices -> Nat]
         /\ \A b \in registry' : drops'[b] > 0
    <2>1. CASE UNCHANGED <<vlan, access, registry, drops>>
      BY <2>1 DEF ContainmentInv, ContainmentTypes
    <2>2. CASE C!Restored(d, r)
      <3>1. vlan' \in [Devices -> C!Vlans] /\ access' \in [Devices -> BOOLEAN]
        BY <2>2, <1>4 DEF C!Restored, IsolationRows, ContainmentInv, ContainmentTypes
      <3>2. CASE UNCHANGED <<registry, drops>>
        BY <3>1, <3>2 DEF ContainmentInv, ContainmentTypes
      <3>3. CASE C!AgentRestore(d)
        <4>1. CASE d \in registry
          <5>1. drops[d] - 1 \in Nat
            BY <4>1 DEF ContainmentInv, ContainmentTypes
          <5>2. drops' = [drops EXCEPT ![d] = drops[d] - 1] /\ registry' = registry \ {d}
            BY <3>3, <4>1 DEF C!AgentRestore
          <5> QED
            BY <3>1, <5>1, <5>2 DEF ContainmentInv, ContainmentTypes
        <4>2. CASE d \notin registry
          BY <3>1, <3>3, <4>2 DEF C!AgentRestore, ContainmentInv, ContainmentTypes
        <4> QED
          BY <4>1, <4>2
      <3> QED
        BY <2>2, <3>2, <3>3 DEF C!Restored
    <2> QED
      BY <2>1, <2>2, <1>5
  <1>12. ASSUME d \notin mixed' PROVE Alone(d)'
    <2>1. d \notin mixed /\ C!Restored(d, r)
      BY <1>5, <1>12
    <2>2. Known(d)' <=> Known(d)
      BY <1>5 DEF Known
    <2>3. Known(d) => r.method # "aruba"
      BY <1>3, <1>4 DEF Known
    <2>4. vlan[d] \in C!Vlans /\ access[d] \in BOOLEAN /\ drops[d] \in Nat
      BY DEF ContainmentInv, ContainmentTypes
    <2>5. /\ vlan'[d] = IF r.method \in C!Switches THEN r.saved ELSE vlan[d]
          /\ access'[d] = IF r.method \in C!Gates THEN TRUE ELSE access[d]
          /\ IF r.method = "arp" THEN d \notin registry' /\ drops'[d] = IF d \in registry THEN drops[d] - 1 ELSE drops[d]
             ELSE (d \in registry' <=> d \in registry) /\ drops'[d] = drops[d]
      BY <2>1, <1>11 DEF C!Restored, C!AgentRestore, ContainmentInv, ContainmentTypes
    <2>6. Before(d)'
      <3>1. Known(d) => vlan'[d] = "office"
        BY <2>1, <2>3, <2>5, <1>10 DEF Before, Enforces, Saved, C!Switches
      <3>2. access'[d] /\ drops'[d] = 0 /\ d \notin registry'
        BY <2>1, <2>4, <2>5, <1>10 DEF Before, Enforces
      <3> QED
        BY <3>1, <3>2, <2>2 DEF Before
    <2>7. \A x \in Jobs : ~ Isolates(x, d)' /\ (Restores(x, d)' => job'[x].row = i /\ Restores(x, d) /\ job'[x] = job[x])
      BY <2>1, <1>6, <1>10, ContainmentAssumption DEF Isolates, Restores, ContainmentTasks
    <2>8. \A x \in DOMAIN isolations' : ~ ActiveOf(x, d)'
      <3>1. \A x : ActiveOf(x, d)' <=> ActiveOf(x, d)
        BY <1>5 DEF ActiveOf, RowOf
      <3> QED
        BY <3>1, <2>1, <1>5, <1>10
    <2>9. Saved(d, isolations[i])'
      BY <2>1, <2>2, <1>4, <1>5, <1>10 DEF Saved
    <2> QED
      BY <2>6, <2>7, <2>8, <2>9 DEF Alone, OneAtATime, Untouched, Traced
  <1>13. RestoresFit'
    BY <1>5, <1>6, ContainmentAssumption DEF ContainmentInv, RestoresFit, ContainmentTasks
  <1>14. Answered'
    BY <1>1, <1>5, <1>6, TaskFacts, FirewallIsLeft
  <1>15. ContainmentTypes'
    <2>1. mixed' \in SUBSET Devices /\ faults' \in 0..CallFaults
      <3>1. mixed' \in {mixed, mixed \union {d}}
        BY <1>5
      <3>2. faults' = faults \/ (faults < CallFaults /\ faults' = faults + 1)
        BY <1>5
      <3> QED
        BY <3>1, <3>2, ContainmentAssumption DEF ContainmentInv, ContainmentTypes
    <2>2. UNCHANGED <<enabled, table, blocks, missed, isolations, requests>>
      BY <1>5
    <2> QED
      BY <1>6, <1>11, <2>1, <2>2 DEF ContainmentInv, ContainmentTypes
  <1> QED
    BY <1>9, <1>12, <1>13, <1>14, <1>15 DEF ContainmentInv, IsolatedAlone

(* The devices whose isolations the agent forgot are mixed.                *)
LEMMA RestartKeeps == ASSUME ContainmentInv, C!AgentRestarts PROVE ContainmentInv'
  <1>1. /\ UNCHANGED <<enabled, table, blocks, missed, vlan, access, drops, isolations, job, requests>>
        /\ registry' = {} /\ mixed' = mixed \union registry
        /\ faults < CallFaults /\ faults' = faults + 1
    BY DEF C!AgentRestarts, C!Fault, C!firewall
  <1>2. ASSUME NEW d \in Devices \ mixed' PROVE Alone(d)'
    <2>1. Alone(d) /\ RestoresFit /\ d \notin registry /\ d \notin registry'
      BY <1>1, <1>2 DEF ContainmentInv, IsolatedAlone
    <2>2. \A x : RowOf(x, d) <=> RowOf(x, d)'
      BY <1>1 DEF RowOf
    <2> QED
      BY <1>1, <2>1, <2>2, DeviceIsLeft
  <1>3. RestoresFit' /\ Answered'
    BY <1>1 DEF ContainmentInv, RestoresFit, Answered, TaskAnswers, RowAnswers
  <1>4. ContainmentTypes'
    BY <1>1, ContainmentAssumption DEF ContainmentInv, ContainmentTypes
  <1> QED
    BY <1>2, <1>3, <1>4 DEF ContainmentInv, IsolatedAlone

LEMMA ToggleKeeps ==
  ASSUME ContainmentInv, NEW z \in {"firewall"} \union Methods, C!Toggle(z) PROVE ContainmentInv'
  <1>1. /\ UNCHANGED <<table, blocks, missed, vlan, access, registry, drops, isolations, mixed, job, requests>>
        /\ enabled' \subseteq enabled \union {z} /\ faults < CallFaults /\ faults' = faults + 1
    BY DEF C!Toggle, C!Fault, C!firewall, C!network
  <1>2. ASSUME NEW d \in Devices \ mixed' PROVE Alone(d)'
    <2>1. Alone(d) /\ RestoresFit
      BY <1>1, <1>2 DEF ContainmentInv, IsolatedAlone
    <2>2. \A x : RowOf(x, d) <=> RowOf(x, d)'
      BY <1>1 DEF RowOf
    <2> QED
      BY <1>1, <2>1, <2>2, DeviceIsLeft
  <1>3. RestoresFit' /\ Answered'
    BY <1>1 DEF ContainmentInv, RestoresFit, Answered, TaskAnswers, RowAnswers
  <1>4. ContainmentTypes'
    BY <1>1, ContainmentAssumption DEF ContainmentInv, ContainmentTypes
  <1> QED
    BY <1>2, <1>3, <1>4 DEF ContainmentInv, IsolatedAlone

LEMMA ContainmentStep == ContainmentInv /\ [C!Next]_(C!vars) => ContainmentInv'
  <1> SUFFICES ASSUME ContainmentInv, [C!Next]_(C!vars) PROVE ContainmentInv'
    OBVIOUS
  <1>1. CASE UNCHANGED C!vars
    <2>1. UNCHANGED <<enabled, table, blocks, vlan, access, registry, drops, isolations, job, requests,
                      faults, missed, mixed>>
      BY <1>1 DEF C!vars
    <2>2. ASSUME NEW d \in Devices \ mixed' PROVE Alone(d)'
      <3>1. Alone(d) /\ RestoresFit
        BY <2>1, <2>2 DEF ContainmentInv, IsolatedAlone
      <3>2. \A x : RowOf(x, d) <=> RowOf(x, d)'
        BY <2>1 DEF RowOf
      <3> QED
        BY <2>1, <3>1, <3>2, DeviceIsLeft
    <2>3. RestoresFit' /\ Answered' /\ ContainmentTypes'
      BY <2>1 DEF ContainmentInv, RestoresFit, Answered, TaskAnswers, RowAnswers, ContainmentTypes
    <2> QED
      BY <2>2, <2>3 DEF ContainmentInv, IsolatedAlone
  <1>2. ASSUME NEW k \in Jobs, NEW h \in Hosts, NEW by \in {"playbook", "analyst"}, NEW rst \in BOOLEAN,
               NEW enforcement \in {"rst", "firewall", "both"}, C!Block(k, h, by, enforcement, rst)
        PROVE  ContainmentInv'
    BY <1>2, BlockKeeps
  <1>3. ASSUME NEW k \in Jobs, C!PushBlock(k) \/ C!RecordBlock(k) \/ C!UndoBlock(k)
        PROVE  ContainmentInv'
    BY <1>3, PushKeeps, RecordKeeps, UndoBlockKeeps
  <1>4. ASSUME NEW k \in Jobs, NEW i \in 1 .. MaxRequests, C!RevokeBlock(k, i) \/ C!FindIsolation(k, i)
        PROVE  ContainmentInv'
    BY <1>4, RevokeKeeps, FindKeeps
  <1>5. ASSUME NEW k \in Jobs, NEW d \in Devices, NEW way \in Methods, C!Isolate(k, d, way)
        PROVE  ContainmentInv'
    BY <1>5, IsolateKeeps
  <1>6. ASSUME NEW k \in Jobs, \/ C!ReadVlan(k) \/ C!Enforce(k) \/ C!StoreIsolation(k)
                               \/ C!MarkRestored(k) \/ C!UndoIsolation(k)
        PROVE  ContainmentInv'
    BY <1>6, ReadKeeps, EnforceKeeps, StoreKeeps, MarkKeeps, UndoKeeps
  <1>7. CASE C!AgentRestarts
    BY <1>7, RestartKeeps
  <1>8. ASSUME NEW z \in {"firewall"} \union Methods, C!Toggle(z) PROVE ContainmentInv'
    BY <1>8, ToggleKeeps
  <1> QED
    BY <1>1, <1>2, <1>3, <1>4, <1>5, <1>6, <1>7, <1>8 DEF C!Next

LEMMA ContainmentInvEnds == ContainmentInv => ContainmentEnds
  <1> SUFFICES ASSUME ContainmentInv PROVE ContainmentEnds
    OBVIOUS
  <1>1. C!RevokedIsFree
    <2> SUFFICES ASSUME NEW h \in table, h \notin missed
                 PROVE  \/ C!Handled(h)
                        \/ \E i \in DOMAIN blocks : blocks[i].host = h /\ blocks[i].status = "active"
      BY DEF C!RevokedIsFree
    <2>1. (\E x \in Jobs : TaskAnswers(x, h)) \/ (\E i \in DOMAIN blocks : RowAnswers(i, h))
      BY DEF ContainmentInv, Answered
    <2>2. ASSUME NEW x \in Jobs, TaskAnswers(x, h) PROVE C!Handled(h)
      <3>1. job[x] \in BlockTasks \union RevokeTasks /\ job[x].host = h
        BY <2>2 DEF TaskAnswers
      <3>2. job[x] # NoTask /\ "host" \in DOMAIN job[x]
        BY <3>1, TaskFacts, ContainmentAssumption DEF ContainmentTasks
      <3> QED
        BY <3>1, <3>2 DEF C!Handled
    <2> QED
      BY <2>1, <2>2 DEF RowAnswers
  <1>2. C!LoneIsolationIsUndone
    <2> SUFFICES ASSUME NEW d \in Devices, C!LeftAlone(d), "aruba" \notin C!UsedMethods(d)
                 PROVE  C!AsBefore(d)
      BY DEF C!LoneIsolationIsUndone
    <2>1. Alone(d)
      BY DEF C!LeftAlone, ContainmentInv, IsolatedAlone
    <2>2. \A x \in Jobs : ~ Isolates(x, d) /\ ~ Restores(x, d)
      <3> SUFFICES ASSUME NEW x \in Jobs, job[x] \in IsolateTasks \union RestoreTasks, job[x].device = d
                   PROVE  FALSE
        BY DEF Isolates, Restores
      <3>1. job[x] # NoTask /\ "device" \in DOMAIN job[x]
        BY TaskFacts, ContainmentAssumption DEF ContainmentTasks
      <3> QED
        BY <3>1 DEF C!LeftAlone, C!InHand
    <2>3. \A i \in DOMAIN isolations : ~ ActiveOf(i, d)
      BY DEF C!LeftAlone, C!ActiveRows, ActiveOf, RowOf
    <2>4. Known(d)
      BY DEF C!UsedMethods, Known
    <2>5. Before(d)
      BY <2>1, <2>2, <2>3 DEF Alone, Untouched
    <2> QED
      BY <2>4, <2>5 DEF Before, C!AsBefore
  <1> QED
    BY <1>1, <1>2 DEF ContainmentEnds, C!ContainmentEnds

(* Whatever fails, restarts or overlaps, the firewall blocks no host whose *)
(* blocks are all revoked, unless a call for it failed or was left out;    *)
(* and a device isolated once at a time by calls that succeed is as it was *)
(* once its isolations are lifted (block_ip, revoke_active_block,          *)
(* isolate_device_handler, restore_isolation).                             *)
THEOREM ContainmentAlwaysEnds == C!Spec => []ContainmentEnds
  <1>1. C!Spec => []ContainmentInv
    BY ContainmentInit, ContainmentStep, PTL DEF C!Spec
  <1> QED
    BY <1>1, ContainmentInvEnds, PTL

-----------------------------------------------------------------------------
(* The two side by side.  A behaviour of MCSpec shows each component one   *)
(* of its own behaviours.                                                  *)

LEMMA EachOfResponse == MCSpec => Spec /\ C!Spec
  <1>1. MCInit => Init /\ C!Init
    BY DEF MCInit
  <1>2. [MCNext]_<<side, vars, containment>> => [Next]_vars
    BY DEF MCNext
  <1>3. [MCNext]_<<side, vars, containment>> => [C!Next]_C!vars
    BY DEF MCNext, containment, C!vars
  <1> QED
    BY <1>1, <1>2, <1>3, PTL DEF MCSpec, Spec, C!Spec

(* For any alerts, engines, tasks, hosts and devices, the variables of     *)
(* both components keep their types.                                       *)
THEOREM ResponseTypesCorrect == MCSpec => []TypesOK
  <1>1. ContainmentInv => C!TypeOK
    <2> SUFFICES ASSUME ContainmentTypes PROVE C!TypeOK
      BY DEF ContainmentInv
    <2>1. \A i \in DOMAIN blocks : blocks[i].host \in Hosts /\ blocks[i].status \in {"active", "revoked"}
      <3>1. \A i \in DOMAIN blocks : blocks[i] \in BlockRows
        BY DEF ContainmentTypes
      <3> QED
        BY <3>1 DEF BlockRows
    <2>2. \A i \in DOMAIN isolations : isolations[i].device \in Devices /\ isolations[i].saved \in C!Vlans
      <3>1. \A i \in DOMAIN isolations : isolations[i] \in IsolationRows
        BY DEF ContainmentTypes
      <3> QED
        BY <3>1 DEF IsolationRows
    <2> QED
      BY <2>1, <2>2 DEF ContainmentTypes, C!TypeOK
  <1>2. C!Spec => []ContainmentInv
    BY ContainmentInit, ContainmentStep, PTL DEF C!Spec
  <1>3. TypeOK /\ C!TypeOK => TypesOK
    BY DEF TypesOK
  <1> QED
    BY <1>1, <1>2, <1>3, SoarTypeCorrect, EachOfResponse, PTL
=============================================================================
