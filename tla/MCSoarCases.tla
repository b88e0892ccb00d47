----------------------------- MODULE MCSoarCases -----------------------------
(* Alerts for checking SoarCases with TLC.  The tags are those of the code: *)
(* "dns-beaconing" and "port-scan" are canonical, in this order, and        *)
(* "protocol:http" is generic.                                              *)
EXTENDS SoarCases

CONSTANTS s, e, c, m, g1, g2, n1

Engines == {g1, g2}
OneEngine == {g1}
Analysts == {n1}
NoAnalyst == {}

TagNames == {"port-scan", "dns-beaconing", "protocol:http", "sid-1", "sid-2"}
CanonicalTags == <<"dns-beaconing", "port-scan">>
GenericTags == {"protocol:http"}

(* s, e and c are one incident, a port scan; e matches no playbook.  c is   *)
(* critical and matches threat intelligence.  m is an analyst's request     *)
(* for a case, which s and c may join.                                      *)
FourAlerts == {s, e, c, m}
Requests == {m}
FourTags == [a \in FourAlerts |->
    CASE a = c -> <<"protocol:http", "port-scan", "sid-1">>
      [] a = m -> <<"dns-beaconing", "port-scan">>
      [] OTHER -> <<"port-scan">>]
FourSeverities == [a \in FourAlerts |->
    CASE a = c -> Critical [] a = m -> 1 [] OTHER -> 2]
FourIntel == [a \in FourAlerts |-> a = c]
FourPlaybooks == [a \in FourAlerts |->
    CASE a = c -> <<"collect_evidence">>
      [] a = s -> <<"other", "create_case", "create_case">>
      [] OTHER -> << >>]
Lowest == {0}

NoRequests == {}

(* Two critical signatures on one flow.                                     *)
TwoAlerts == {s, c}
TwoTags == [a \in TwoAlerts |-> IF a = c THEN <<"sid-1">> ELSE <<"sid-2">>]
TwoSeverities == [a \in TwoAlerts |-> Critical]
TwoIntel == [a \in TwoAlerts |-> FALSE]
TwoPlaybooks == [a \in TwoAlerts |-> <<"create_case">>]
=============================================================================
