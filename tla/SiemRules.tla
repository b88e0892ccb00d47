------------------------------ MODULE SiemRules ------------------------------
(***************************************************************************)
(* The rules of siem-engine that keep state between logs (RuleEngine), fed *)
(* through the publisher: failed logins of a user, hosts reached by a      *)
(* source, connections of a pair, each with a window in memory, and the    *)
(* sweep of old windows.  One user, one source and one pair.               *)
(***************************************************************************)
EXTENDS Integers, Sequences, FiniteSets, SequencesExt

CONSTANTS
  Hosts,
  NoWindow,
  BruteForceMin, BruteForceWindow,      \* BRUTE_FORCE_THRESHOLD, _WINDOW_SECS
  PrivEscWindow,                        \* PRIV_ESC_WINDOW_SECS
  LateralMin, LateralWindow,            \* LATERAL_THRESHOLD, _WINDOW_SECS
  BeaconMin, BeaconWindow,              \* C2_BEACON_MIN_COUNT, _WINDOW_SECS
  BeaconTolerance, BeaconMaxMean,
  MaxTime,       \* bound on the clock
  MaxEvents,     \* bound on the logs
  MaxToggles     \* bound on the rules switched and on the restarts

VARIABLES
  now,
  failures,      \* brute_force
  lastFailure,   \* priv_esc
  reached,       \* lateral
  contacts,      \* c2_beacon
  disabled,      \* rules that are off
  logs,          \* history: the logs received
  fired,         \* history: the rules that fired, and after how many logs
  toggles

vars == <<now, failures, lastFailure, reached, contacts, disabled, logs, fired, toggles>>

windows == <<failures, lastFailure, reached, contacts>>
Rules == {"SIEM-001", "SIEM-002", "SIEM-003", "SIEM-010"}
None == "none"

Empty ==
  /\ failures = NoWindow /\ lastFailure = NoWindow /\ reached = NoWindow /\ contacts = <<>>

Init ==
  /\ now = 1 /\ Empty
  /\ disabled = {}
  /\ logs = <<>> /\ fired = {} /\ toggles = 0

-----------------------------------------------------------------------------
(* What is logged, and what to_siem_event makes of it: the result of a     *)
(* login does not reach the rules.                                         *)

Logged ==
  {[type |-> "authentication", result |-> "failure", host |-> None],
   [type |-> "process_activity", result |-> None, host |-> None],
   [type |-> "network_activity", result |-> None, host |-> None]}
  \union {[type |-> "other", result |-> None, host |-> h] : h \in Hosts}

ToSiemEvent(l) == [l EXCEPT !.result = None]

-----------------------------------------------------------------------------
(* The rules: for an event e, the new window and whether the rule fires.   *)

On(rule) == rule \notin disabled
IsFailure(e) == e.type = "authentication" /\ e.result = "failure"
Past(w, length) == now - w.from > length
Entry(w, fresh) == IF w = NoWindow THEN fresh ELSE w

(* rule_brute_force.                                                       *)
BruteForce(e) ==
  LET w == Entry(failures, [n |-> 0, from |-> now])
  IN IF ~ On("SIEM-001") \/ ~ IsFailure(e) THEN [window |-> failures, fires |-> FALSE]
     ELSE IF Past(w, BruteForceWindow)
          THEN [window |-> [n |-> 1, from |-> now], fires |-> FALSE]
     ELSE IF w.n + 1 >= BruteForceMin
          THEN [window |-> [n |-> 0, from |-> now], fires |-> TRUE]
     ELSE [window |-> [w EXCEPT !.n = @ + 1], fires |-> FALSE]

(* rule_priv_escalation.                                                   *)
PrivEscalation(e) ==
  IF ~ On("SIEM-002") THEN [window |-> lastFailure, fires |-> FALSE]
  ELSE IF IsFailure(e) THEN [window |-> [at |-> now], fires |-> FALSE]
  ELSE [window |-> lastFailure,
        fires |-> e.type = "process_activity" /\ lastFailure # NoWindow
                  /\ now - lastFailure.at <= PrivEscWindow]

(* rule_lateral_movement: cleared when it fires, but not begun again.      *)
Reach_Kept(hosts) == hosts                                    \* mutant
Reach(hosts) == IF Cardinality(hosts) >= LateralMin THEN {} ELSE hosts

LateralMovement(e) ==
  LET w == Entry(reached, [hosts |-> {}, from |-> now])
      v == IF Past(w, LateralWindow) THEN [hosts |-> {}, from |-> now] ELSE w
      hosts == v.hosts \union {e.host}
  IN IF ~ On("SIEM-003") \/ e.host = None THEN [window |-> reached, fires |-> FALSE]
     ELSE [window |-> [v EXCEPT !.hosts = Reach(hosts)],
           fires |-> Cardinality(hosts) >= LateralMin]

(* rule_c2_beacon: the intervals are about equal.  A standard deviation,   *)
(* truncated, is at most T when the variance is below (T+1)^2.             *)
IsRegular(times) ==
  LET n == Len(times) - 1
      gap == [i \in 1..n |-> times[i + 1] - times[i]]
      mean == FoldLeft(LAMBDA a, g : a + g, 0, gap) \div n
      variance == FoldLeft(LAMBDA a, g : a + (g - mean) * (g - mean), 0, gap) \div n
  IN /\ variance < (BeaconTolerance + 1) * (BeaconTolerance + 1)
     /\ mean > 0 /\ mean < BeaconMaxMean

(* times.retain: they are in order, so what leaves is the beginning.       *)
Old(times) == {i \in DOMAIN times : now - times[i] > BeaconWindow}
Recent(times) == SubSeq(times, Cardinality(Old(times)) + 1, Len(times))

Beacon(e) ==
  LET times == Append(Recent(contacts), now)
      fires == Len(times) >= BeaconMin /\ IsRegular(times)
  IN IF ~ On("SIEM-010") \/ e.type # "network_activity"
     THEN [window |-> contacts, fires |-> FALSE]
     ELSE [window |-> IF fires THEN <<>> ELSE times, fires |-> fires]

-----------------------------------------------------------------------------
(* evaluate.                                                               *)
Evaluate(l) ==
  LET e == ToSiemEvent(l)
      n == Len(logs) + 1
      fires == {r \in Rules : CASE r = "SIEM-001" -> BruteForce(e).fires
                                [] r = "SIEM-002" -> PrivEscalation(e).fires
                                [] r = "SIEM-003" -> LateralMovement(e).fires
                                [] r = "SIEM-010" -> Beacon(e).fires}
  IN /\ Len(logs) < MaxEvents
     /\ logs' = Append(logs, [log |-> l, at |-> now])
     /\ failures' = BruteForce(e).window
     /\ lastFailure' = PrivEscalation(e).window
     /\ reached' = LateralMovement(e).window
     /\ contacts' = Beacon(e).window
     /\ fired' = fired \union {[rule |-> r, after |-> n, at |-> now] : r \in fires}
     /\ UNCHANGED <<now, disabled, toggles>>

(* sweep_expired.                                                          *)
Kept(w, length) == IF w # NoWindow /\ now - w.from > 2 * length THEN NoWindow ELSE w

Sweep ==
  /\ failures' = Kept(failures, BruteForceWindow)
  /\ reached' = Kept(reached, LateralWindow)
  /\ lastFailure' = IF lastFailure # NoWindow /\ now - lastFailure.at > 2 * PrivEscWindow
                    THEN NoWindow ELSE lastFailure
  /\ contacts' = Recent(contacts)
  /\ UNCHANGED <<now, disabled, logs, fired, toggles>>

(* load_rule_overrides, every five minutes.                                *)
Switch(rule) ==
  /\ toggles < MaxToggles /\ toggles' = toggles + 1
  /\ disabled' = IF rule \in disabled THEN disabled \ {rule} ELSE disabled \union {rule}
  /\ UNCHANGED <<now, windows, logs, fired>>

(* The engine starts again, with nothing in memory.                        *)
Restart ==
  /\ toggles < MaxToggles /\ toggles' = toggles + 1
  /\ failures' = NoWindow /\ lastFailure' = NoWindow /\ reached' = NoWindow /\ contacts' = <<>>
  /\ UNCHANGED <<now, disabled, logs, fired>>

Tick ==
  /\ now < MaxTime /\ now' = now + 1
  /\ UNCHANGED <<windows, disabled, logs, fired, toggles>>

Next ==
  \/ \E l \in Logged : Evaluate(l)
  \/ Sweep \/ Restart \/ Tick
  \/ \E rule \in Rules : Switch(rule)

Spec == Init /\ [][Next]_vars

-----------------------------------------------------------------------------
(* Types of the state.                                                     *)
TypeOK ==
  /\ now \in 1..MaxTime /\ disabled \subseteq Rules /\ toggles \in 0..MaxToggles
  /\ reached # NoWindow => reached.hosts \subseteq Hosts /\ reached.from \in 1..now
  /\ \A i \in DOMAIN contacts : contacts[i] \in 1..now
  /\ {f.rule : f \in fired} \subseteq Rules

(* The logs that can have made rule r fire with the log f.after: within    *)
(* the window, and not those of the firing before.                         *)
Before(f) == {0} \union {g.after : g \in {g \in fired : g.rule = f.rule /\ g.after < f.after}}
Own(f, length) ==
  {i \in DOMAIN logs : /\ i <= f.after /\ \A b \in Before(f) : i > b
                       /\ f.at - logs[i].at <= length}

(* "Same source IP accessed >= 3 unique hosts within 10 minutes" and       *)
(* "Consistent short-interval connections" (rule_catalog): an alert stands *)
(* on enough logs of its window, none of which an earlier alert of the     *)
(* rule stood on, through sweeps, switched rules and restarts.             *)
FiresOnItsOwnLogs ==
  \A f \in fired :
    /\ f.rule = "SIEM-003" =>
         Cardinality({logs[i].log.host : i \in Own(f, LateralWindow)} \ {None}) >= LateralMin
    /\ f.rule = "SIEM-010" =>
         Cardinality({i \in Own(f, BeaconWindow) : logs[i].log.type = "network_activity"})
           >= BeaconMin

-----------------------------------------------------------------------------
(* Statements that this code does not keep: TLC finds a counterexample to  *)
(* each (README).                                                          *)

(* ">= 10 failed logins for the same account within 5 minutes" fires       *)
(* SIEM-001 (rule_catalog), or so many failures have fired it before.      *)
Failed(i) == logs[i].log.result = "failure"
BruteForceIsSeen ==
  Cardinality({i \in DOMAIN logs : Failed(i) /\ now - logs[i].at <= BruteForceWindow})
      >= BruteForceMin
    => \E f \in fired : f.rule = "SIEM-001"
=============================================================================
