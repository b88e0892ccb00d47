------------------------------- MODULE Sigma -------------------------------
(***************************************************************************)
(* The condition of a Sigma rule: how its words become an expression, what *)
(* ndr-engine makes of that expression for an event and what siem-engine's *)
(* ClickHouse query makes of it.  A state is a text and the selections it  *)
(* may name; a step adds a word.  One definition is recursive as the       *)
(* parser and the compiler are.                                            *)
(***************************************************************************)
EXTENDS Integers, FiniteSets, SequencesExt

CONSTANTS
  Names,      \* selections that texts name
  Patterns,   \* words such as "sel*"
  Starting,   \* of a pattern: the names it stands for
  Forms,      \* forms of a selection that are tried
  MaxWords    \* bound on the words of a text

VARIABLES text, form

vars == <<text, form>>

Keywords == {"not", "and", "or", "(", ")", "any", "all", "of", "them"}
Words == Names \union Patterns \union Keywords

(* A selection: one test of a field, a negated test, the value '*' (any    *)
(* value), a CIDR range, no field condition at all (a list or flag that is *)
(* not text), no alternative at all, or a name the rule does not define.   *)
AllForms == {"test", "negated", "any value", "range", "no condition", "no alternative", "missing"}
Facts == {"holds", "fails", "absent"}  \* of the field of an event

Init ==
  /\ text = <<>>
  /\ form \in [Names -> Forms]

AddWord(w) ==
  /\ Len(text) < MaxWords
  /\ text' = Append(text, w)
  /\ UNCHANGED form

Next == \E w \in Words : AddWord(w)

Spec == Init /\ [][Next]_vars

-----------------------------------------------------------------------------
(* parse_condition_expr: the expression that begins at word p, and the     *)
(* place after it.  What is left of the text is ignored.                   *)

Named(w) == [op |-> "named", name |-> w]
True == [op |-> "true"]
At(t, p, w) == p <= Len(t) /\ t[p] = w
Quantified(t, p) == p + 2 <= Len(t) /\ t[p] \in {"any", "all"} /\ t[p + 1] = "of"

Quantifier(t, p) ==
  LET w == t[p + 2]
  IN IF w = "them" THEN [op |-> t[p], names |-> Names]
     ELSE IF w \in Patterns THEN [op |-> t[p], names |-> Starting[w]]
     ELSE Named(w)

And_Flat(t, p) == At(t, p, "and") \/ At(t, p, "or")   \* mutant
And(t, p) == At(t, p, "and")
Or(t, p) == At(t, p, "or")

RECURSIVE ParseOr(_, _), MoreOr(_, _, _), ParseAnd(_, _), MoreAnd(_, _, _), ParseNot(_, _)
ParseOr(t, p) == LET l == ParseAnd(t, p) IN MoreOr(t, l[2], l[1])
MoreOr(t, p, left) ==
  IF Or(t, p)
  THEN LET r == ParseAnd(t, p + 1) IN MoreOr(t, r[2], [op |-> "or", parts |-> <<left, r[1]>>])
  ELSE <<left, p>>
ParseAnd(t, p) == LET l == ParseNot(t, p) IN MoreAnd(t, l[2], l[1])
MoreAnd(t, p, left) ==
  IF And(t, p)
  THEN LET r == ParseNot(t, p + 1) IN MoreAnd(t, r[2], [op |-> "and", parts |-> <<left, r[1]>>])
  ELSE <<left, p>>
ParseNot(t, p) ==
  IF At(t, p, "not")
  THEN LET r == ParseNot(t, p + 1) IN <<[op |-> "not", of |-> r[1]], r[2]>>
  ELSE IF Quantified(t, p) THEN <<Quantifier(t, p), p + 3>>
  ELSE IF p > Len(t) THEN <<True, p>>
  ELSE IF t[p] = "("
  THEN LET r == ParseOr(t, p + 1) IN <<r[1], IF At(t, r[2], ")") THEN r[2] + 1 ELSE r[2]>>
  ELSE <<Named(t[p]), p + 1>>

Parse(t) == IF t = <<>> THEN True ELSE ParseOr(t, 1)[1]

-----------------------------------------------------------------------------
(* ConditionExpr::eval and SelectionGroup::matches.                        *)

Defined(f) == {n \in Names : f[n] # "missing"}

Matches(f, fact, n) ==
  CASE f[n] \in {"test", "range"} -> fact[n] = "holds"
    [] f[n] = "negated" -> fact[n] # "holds"
    [] f[n] = "no condition" -> TRUE
    [] OTHER -> FALSE       \* '*' is compared as text

RECURSIVE Eval(_, _, _)
Eval(e, f, fact) ==
  CASE e.op = "named" -> e.name \in Defined(f) /\ Matches(f, fact, e.name)
    [] e.op = "not" -> ~ Eval(e.of, f, fact)
    [] e.op = "and" -> \A i \in DOMAIN e.parts : Eval(e.parts[i], f, fact)
    [] e.op = "or" -> \E i \in DOMAIN e.parts : Eval(e.parts[i], f, fact)
    [] e.op = "any" -> \E n \in e.names \intersect Defined(f) : Matches(f, fact, n)
    [] e.op = "all" -> /\ e.names \intersect Defined(f) # {}
                       /\ \A n \in e.names \intersect Defined(f) : Matches(f, fact, n)
    [] e.op = "true" -> TRUE

-----------------------------------------------------------------------------
(* compile_expr and compile_group: a query is "0", "1", a group, or made   *)
(* of queries.  What compiles to "0" is left out of AND and OR.            *)

Zero == [op |-> "0"]
Group(f, n) == IF f[n] = "no alternative" THEN Zero ELSE [op |-> "group", name |-> n]
Groups(f, names) == SetToSeq({Group(f, n) : n \in names \intersect Defined(f)})
Joined(op, parts) == IF parts = <<>> THEN Zero ELSE [op |-> op, parts |-> parts]
Negated(q) == IF q = Zero THEN [op |-> "1"] ELSE [op |-> "not", of |-> q]

RECURSIVE Compile(_, _)
Compile(e, f) ==
  CASE e.op = "named" -> IF e.name \in Defined(f) THEN Group(f, e.name) ELSE Zero
    [] e.op = "not" -> Negated(Compile(e.of, f))
    [] e.op \in {"and", "or"} ->
         Joined(e.op, SelectSeq([i \in DOMAIN e.parts |-> Compile(e.parts[i], f)],
                                LAMBDA q : q # Zero))
    [] e.op = "any" -> Joined("or", Groups(f, e.names))
    [] e.op = "all" -> Joined("and", Groups(f, e.names))
    [] e.op = "true" -> [op |-> "1"]

(* compile_field_condition, run by ClickHouse: a text that is never NULL,  *)
(* a range compared as the text of its network address.                    *)
Selects(f, fact, n) ==
  CASE f[n] = "test" -> fact[n] = "holds"
    [] f[n] = "negated" -> fact[n] # "holds"
    [] f[n] = "any value" -> TRUE
    [] OTHER -> FALSE

RECURSIVE Valid(_, _), Rows(_, _, _)
Valid(q, f) ==   \* "()" is no expression
  CASE q.op = "group" -> f[q.name] # "no condition"
    [] q.op = "not" -> Valid(q.of, f)
    [] q.op \in {"and", "or"} -> \A i \in DOMAIN q.parts : Valid(q.parts[i], f)
    [] OTHER -> TRUE
Rows(q, f, fact) ==
  CASE q.op = "group" -> Selects(f, fact, q.name)
    [] q.op = "not" -> ~ Rows(q.of, f, fact)
    [] q.op = "and" -> \A i \in DOMAIN q.parts : Rows(q.parts[i], f, fact)
    [] q.op = "or" -> \E i \in DOMAIN q.parts : Rows(q.parts[i], f, fact)
    [] OTHER -> q.op = "1"

(* A failed query selects nothing.                                         *)
Selected(t, f, fact) ==
  LET q == Compile(Parse(t), f) IN q # Zero /\ Valid(q, f) /\ Rows(q, f, fact)

-----------------------------------------------------------------------------
(* What a text means, by its shape: the reference of ReadAsWritten.      *)

Depth(t, i) == Cardinality({k \in 1..i : t[k] = "("}) - Cardinality({k \in 1..i : t[k] = ")"})
Top(t, w) == {i \in DOMAIN t : t[i] = w /\ Depth(t, i) = 0}
Before(t, i) == SubSeq(t, 1, i - 1)
After(t, i) == SubSeq(t, i + 1, Len(t))
FirstOf(S) == CHOOSE i \in S : \A k \in S : i <= k
Enclosed(t) == /\ Len(t) > 2 /\ t[1] = "(" /\ t[Len(t)] = ")"
               /\ \A i \in 1..(Len(t) - 1) : Depth(t, i) > 0
AQuantifier(t) == /\ Len(t) = 3 /\ t[1] \in {"any", "all"} /\ t[2] = "of"
                  /\ t[3] \in Patterns \union {"them"}

RECURSIVE WellFormed(_), Means(_, _)
WellFormed(t) ==
  IF Top(t, "or") # {}
  THEN LET i == FirstOf(Top(t, "or")) IN WellFormed(Before(t, i)) /\ WellFormed(After(t, i))
  ELSE IF Top(t, "and") # {}
  THEN LET i == FirstOf(Top(t, "and")) IN WellFormed(Before(t, i)) /\ WellFormed(After(t, i))
  ELSE IF t # <<>> /\ t[1] = "not" THEN WellFormed(Tail(t))
  ELSE IF Enclosed(t) THEN WellFormed(SubSeq(t, 2, Len(t) - 1))
  ELSE AQuantifier(t) \/ (Len(t) = 1 /\ t[1] \in Names)

Means(t, true) ==   \* given the selections that are true
  IF Top(t, "or") # {}
  THEN LET i == FirstOf(Top(t, "or")) IN Means(Before(t, i), true) \/ Means(After(t, i), true)
  ELSE IF Top(t, "and") # {}
  THEN LET i == FirstOf(Top(t, "and")) IN Means(Before(t, i), true) /\ Means(After(t, i), true)
  ELSE IF t[1] = "not" THEN ~ Means(Tail(t), true)
  ELSE IF Enclosed(t) THEN Means(SubSeq(t, 2, Len(t) - 1), true)
  ELSE IF Len(t) = 1 THEN t[1] \in true
  ELSE LET S == IF t[3] = "them" THEN Names ELSE Starting[t[3]]
       IN IF t[1] = "all" THEN S # {} /\ S \subseteq true ELSE S \intersect true # {}

-----------------------------------------------------------------------------
(* Types of the state.                                                     *)
TypeOK == text \in Seq(Words) /\ Len(text) <= MaxWords /\ form \in [Names -> AllForms]

Plain == \A n \in Names : form[n] \in {"test", "negated"}

(* A well formed condition is read as it is written, by both engines: OR   *)
(* binds weaker than AND, AND weaker than NOT, and parentheses and         *)
(* quantifiers hold together what they enclose.  Where every selection is  *)
(* defined and a test of one field, ndr-engine's evaluation and            *)
(* siem-engine's query are true of just the events of which the text is.   *)
ReadAsWritten ==
  WellFormed(text) /\ Plain =>
    \A fact \in [Names -> Facts] :
      LET means == Means(text, {n \in Names : Matches(form, fact, n)})
      IN Eval(Parse(text), form, fact) = means /\ Selected(text, form, fact) = means

-----------------------------------------------------------------------------
(* A statement that this code does not keep: TLC finds a counterexample    *)
(* (README).                                                               *)

(* "Compile a parsed SigmaRule into a ClickHouse SQL WHERE clause": the    *)
(* clause selects what the rule matches.  An operand of AND that can never *)
(* hold is left out, so that the others decide.                            *)
ClauseIsTheRule ==
  WellFormed(text) =>
    \A fact \in [Names -> Facts] : Selected(text, form, fact) = Eval(Parse(text), form, fact)
=============================================================================
