------------------------------- MODULE Policy -------------------------------
(***************************************************************************)
(* Argument-level scoping (src/covenant/policy.py): the rules a grant may  *)
(* put on the arguments of a tool, how one call is matched against them,   *)
(* and the declarative TaskPolicy from which the rules come.               *)
(*                                                                         *)
(* A JSON value is a dict, written as a function from keys to values, or   *)
(* one of Scalars; the Strings are the scalars that Python calls str.      *)
(* A regular expression is abstracted by the set of strings it fully       *)
(* matches, so the value of an "in", "not_in" or "regex" rule is a set, or *)
(* Malformed: not a list, or a pattern that does not compile.              *)
(***************************************************************************)
EXTENDS Integers, Sequences, SequencesExt

CONSTANTS Scalars, Strings, Missing, Malformed

ASSUME ScalarsAssumption == Strings \subseteq Scalars /\ Missing \notin Scalars

Operators == {"equals", "in", "not_in", "regex"}

IsDict(v) == v \notin Scalars \cup {Missing}

(* The value a dotted path (a sequence of keys) leads to, or Missing.      *)
ResolveField(arguments, path) ==
    FoldLeft(LAMBDA current, part :
                 IF IsDict(current) THEN IF part \in DOMAIN current
                                         THEN current[part] ELSE Missing
                                    ELSE Missing,
             arguments, path)

Satisfies(rule, actual) ==
    /\ actual # Missing
    /\ \/ rule.operator = "equals" /\ actual = rule.value
       \/ /\ rule.value # Malformed
          /\ \/ rule.operator = "in"     /\ actual \in rule.value
             \/ rule.operator = "not_in" /\ actual \notin rule.value
             \/ rule.operator = "regex"  /\ actual \in Strings \cap rule.value

(* Nobody validates what a policy file says: evaluating a rule with an     *)
(* unknown operator, or with a value its operator cannot use, on a value   *)
(* that is present is an exception.                                        *)
Raises(rule, actual) ==
    /\ actual # Missing
    /\ \/ rule.operator \notin Operators
       \/ rule.value = Malformed /\ \/ rule.operator \in {"in", "not_in"}
                                    \/ rule.operator = "regex" /\ actual \in Strings

RulesFor(tool, constraints) ==
    IF tool \in DOMAIN constraints THEN constraints[tool] ELSE << >>

RuleHolds(rule, arguments) == Satisfies(rule, ResolveField(arguments, rule.field))

(* The rules are tried in order and the first that does not hold decides.  *)
MatchArguments(tool, arguments, constraints) ==
    LET rules == RulesFor(tool, constraints) IN
    IF \A i \in DOMAIN rules : RuleHolds(rules[i], arguments)
    THEN "pass"
    ELSE LET first == rules[SelectInSeq(rules, LAMBDA r : ~RuleHolds(r, arguments))]
         IN  IF Raises(first, ResolveField(arguments, first.field))
             THEN "raise" ELSE "fail"

-----------------------------------------------------------------------------
(***************************************************************************)
(* A TaskPolicy: subject, audience, ttl_seconds, quota and a sequence of   *)
(* grants, each a tool with a (possibly empty) sequence of rules.          *)
(***************************************************************************)
PolicyTools(policy) == {g.tool : g \in Range(policy.grants)}

(* One dict entry per tool: when a tool is listed more than once with      *)
(* rules, the dict comprehension keeps the rules of its last listing.      *)
PolicyConstraints(policy) ==
    LET ruled == {i \in DOMAIN policy.grants : policy.grants[i].arguments # << >>}
        last(t) == Max({i \in ruled : policy.grants[i].tool = t})
    IN  [t \in {policy.grants[i].tool : i \in ruled} |-> policy.grants[last(t)].arguments]

UnknownTools(policy, available) == PolicyTools(policy) \ available
=============================================================================
