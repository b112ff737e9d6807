---------------------------- MODULE Expressions ----------------------------
(***************************************************************************)
(* What conditions on the user's data are.  A condition is Always or Never *)
(* (the booleans), an expression about one identifier, or a group of       *)
(* conditions.  Conditions says what they mean.                            *)
(***************************************************************************)

CONSTANTS Undefined, \* the value of an identifier that has none
          Always, Never

\* An expression: items is for an identifier that ends in [*], and stands for the
\* items of a list; scope and valueScope are identifierType and valueType.
Expression(operator, identifier, value) ==
  [kind |-> "expression", operator |-> operator, identifier |-> identifier, value |-> value,
   items |-> FALSE, matchAll |-> FALSE, matching |-> Undefined,
   scope |-> Undefined, valueScope |-> Undefined, negated |-> FALSE]

\* The identifiers of a scope that match a pattern, with identifierMatchType.
Matching(operator, pattern, value) ==
  [Expression(operator, Undefined, value) EXCEPT !.matching = pattern]

\* A group of kind all, any or exactly; met is conditionsMet, 0 when absent.
Group(kind, conditions) ==
  [kind |-> kind, conditions |-> conditions, met |-> 0, negated |-> FALSE]

Not(cond) == [cond EXCEPT !.negated = ~@]
=============================================================================
