------------------------------- MODULE MCSiem -------------------------------
(* Values for checking Siem alone with TLC: one host, one rule that every  *)
(* log matches.                                                            *)
EXTENDS Siem

OneEntity == [l \in Logs |-> "host"]
OneRule == [l \in Logs |-> Rules]
=============================================================================
