----------------------------- MODULE Conditions -----------------------------
(***************************************************************************)
(* When a condition on the user's data holds: evaluate-condition.js.       *)
(*                                                                         *)
(* The data is a function from scopes to functions from identifiers to     *)
(* values; an identifier that a scope lacks is Undefined there.  A text is *)
(* a sequence of characters, a pattern (of match and of                    *)
(* identifierMatchType) the set of what matches.                           *)
(***************************************************************************)
EXTENDS Expressions, Naturals, FiniteSets, SequencesExt

CONSTANTS Simple,  \* the conditions that are no groups: the booleans and expressions
          Nesting  \* how many groups are within each other at most

Groups(conditions) ==
  [kind : {"all", "any", "exactly"}, conditions : Seq(conditions), met : Nat, negated : BOOLEAN]

Grouped(conditions) == Simple \cup Groups(conditions)

\* The conditions with no more than n groups within each other.
Nested[n \in Nat] == IF n = 0 THEN Simple ELSE Grouped(Nested[n - 1])

Members(cond) ==
  IF cond \in {Always, Never} \/ cond.kind = "expression" THEN <<>> ELSE cond.conditions

ASSUME SimpleAssumption ==
  /\ Nesting \in Nat
  /\ {Always, Never} \subseteq Simple /\ Always # Never
  /\ \A cond \in Simple \ {Always, Never} : cond.kind = "expression" /\ cond.negated \in BOOLEAN
  /\ \A n \in 0..Nesting : {Always, Never} \cap Groups(Nested[n]) = {}

\* checkCondition
CheckCondition(operator, variable, value) ==
  IF operator = "defined" THEN variable # Undefined
  ELSE /\ variable # Undefined
       /\ CASE operator \in {"is", "equals", "same"} -> variable = value
            [] operator = "startsWith" -> IsPrefix(value, variable)
            [] operator = "endsWith" -> IsSuffix(value, variable)
            [] operator = "includes" ->
                 \E i \in 0..Len(variable) : IsPrefix(value, SubSeq(variable, i + 1, Len(variable)))
            [] operator = "match" -> variable \in value
            [] operator = "greaterThan" -> variable > value
            [] operator = "greaterThanOrEqual" -> variable >= value
            [] operator = "lessThan" -> variable < value
            [] operator = "lessThanOrEqual" -> variable <= value
            [] operator = "multipleOf" -> value # 0 /\ variable % value = 0
            [] operator = "isTrue" -> variable = TRUE

ScopeData(data, scope) == IF scope \in DOMAIN data THEN data[scope] ELSE [i \in {} |-> Undefined]

\* getData: the values that an identifier stands for.
GetData(identifier, items, values) ==
  LET value == IF identifier \in DOMAIN values THEN values[identifier] ELSE Undefined
  IN  CASE ~items -> <<value>>
        [] value = Undefined -> <<>>
        [] OTHER -> value

\* An expression about one identifier: some pair of a variable and a value passes,
\* or, with identifierMatchAll, every variable does, of which there is one at least.
\* The operator same is rewritten to compare every item with the first.
Passes(cond, data, scope) ==
  LET same == cond.operator = "same"
      here == IF cond.scope # Undefined THEN cond.scope ELSE scope
      variables == GetData(cond.identifier, cond.items \/ same, ScopeData(data, here))
      values == CASE same -> SubSeq(variables, 1, 1)
                  [] cond.valueScope # Undefined -> GetData(cond.value, FALSE, ScopeData(data, cond.valueScope))
                  [] OTHER -> <<cond.value>>
      passed == {pair \in (DOMAIN variables) \X (DOMAIN values) :
                   CheckCondition(cond.operator, variables[pair[1]], values[pair[2]])}
  IN  passed # {} /\ (cond.matchAll \/ same => Cardinality(passed) = Len(variables))

\* An expression.  The identifiers that match a pattern are looked for in the scope
\* of the page, and then evaluated in the scope of the input.
Expressed(cond, data, scope) ==
  LET here == IF cond.scope # Undefined THEN cond.scope ELSE scope
      matched == cond.matching \cap DOMAIN ScopeData(data, here)
  IN  IF cond.matching = Undefined THEN Passes(cond, data, scope)
      ELSE \E i \in matched : Passes([cond EXCEPT !.identifier = i], data, "input")

\* evaluate, where met has the places of the members of a group that evaluate to true.
Holds(cond, met, data, scope) ==
  LET atLeast == IF cond.met = 0 THEN 1 ELSE cond.met
      Holding == CASE cond.kind = "all" -> met = DOMAIN cond.conditions
                   [] cond.kind = "any" -> Cardinality(met) >= atLeast
                   [] cond.kind = "exactly" -> Cardinality(met) = atLeast
                   [] OTHER -> Expressed(cond, data, scope)
  IN  IF cond \in {Always, Never} THEN cond = Always ELSE Holding # cond.negated

Evaluate(cond, data, scope) ==
  LET holds[c \in Nested[Nesting]] ==
        Holds(c, {i \in DOMAIN Members(c) : holds[Members(c)[i]]}, data, scope)
  IN  holds[cond]

-----------------------------------------------------------------------------
(* What the documentation says of conditions (overview/logic): "a single    *)
(* expression or a group of conditions that must all evaluate to true, of   *)
(* which at least one must evaluate to true, of which only one can evaluate *)
(* to true"; "any condition (single expression or group) can be negated".   *)
(* The tests of evaluate say of conditionsMet that so many must.            *)

Says(cond, true, data, scope) ==
  LET places == DOMAIN cond.conditions
      Meaning == CASE cond.kind = "all" -> \A i \in places : i \in true
                   [] cond.kind = "any" -> IF cond.met = 0 THEN \E i \in places : i \in true
                                           ELSE Cardinality(true) >= cond.met
                   [] cond.kind = "exactly" -> IF cond.met = 0 THEN \E i \in places : true = {i}
                                               ELSE Cardinality(true) = cond.met
                   [] OTHER -> Expressed(cond, data, scope)
  IN  IF cond \in {Always, Never} THEN cond = Always
      ELSE Meaning <=> ~cond.negated

Documented(cond, data, scope) ==
  LET means[c \in Nested[Nesting]] ==
        Says(c, {i \in DOMAIN Members(c) : means[Members(c)[i]]}, data, scope)
  IN  means[cond]
=============================================================================
