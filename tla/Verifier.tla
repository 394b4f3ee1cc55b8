---- MODULE Verifier ----
(***************************************************************************)
(* The verdict on one task: verifier.py as functions of the JSON values    *)
(* that evidence holds.  A value is a record with one field, named for its *)
(* kind: num (a boolean is 0 or 1, as Python compares them), str, null,    *)
(* list (a sequence) or dict (a function).                                 *)
(***************************************************************************)
EXTENDS Naturals, Sequences, FiniteSets

CONSTANTS
    Json,    \* the values evidence may hold, and all that these hold in turn
    Within,  \* <<s, t>>: the text s occurs in t, case folded
    Length,  \* the number of characters of a text
    Digits   \* the parts of a path that are digits, with their value

Missing == [missing |-> TRUE]
Is(v, kind) == kind \in DOMAIN v

\* the sentinel is an object of the module: no JSON value is equal to it
ASSUME JsonAssumption ==
    \A v \in Json :
      /\ v # Missing
      /\ Is(v, "list") => v.list \in Seq(Json)
      /\ Is(v, "dict") => \A key \in DOMAIN v.dict : v.dict[key] \in Json
ASSUME DigitsAssumption == \A part \in DOMAIN Digits : Digits[part] \in Nat

\* one part of a path; from Missing there is no way on
Child(v, part) ==
    IF Is(v, "dict") /\ part \in DOMAIN v.dict THEN v.dict[part]
    ELSE IF Is(v, "list") /\ part \in DOMAIN Digits /\ Digits[part] < Len(v.list)
         THEN v.list[Digits[part] + 1]
    ELSE Missing

\* where the first n parts of a path lead, for each n
Walk(root, path) ==
    LET at[n \in 0 .. Len(path)] == IF n = 0 THEN root ELSE Child(at[n - 1], path[n]) IN at

Resolve(root, path) == Walk(root, path)[Len(path)]

Expected(check, references) ==
    IF "ref" \in DOMAIN check
    THEN IF check.ref \in DOMAIN references THEN references[check.ref] ELSE Missing
    ELSE check.expected

Count(v) ==
    CASE Is(v, "list") -> [num |-> Len(v.list)]
      [] Is(v, "dict") -> [num |-> Cardinality(DOMAIN v.dict)]
      [] Is(v, "str") -> [num |-> Length[v.str]]
      [] OTHER -> v

\* only hashable values can be looked up in a dict
Unhashable(v) == Is(v, "list") \/ Is(v, "dict")

Includes(v, e) ==
    \/ Is(v, "str") /\ Is(e, "str") /\ <<e.str, v.str>> \in Within
    \/ Is(v, "dict") /\ Is(e, "str") /\ e.str \in DOMAIN v.dict
    \/ Is(v, "list") /\ \E i \in DOMAIN v.list : v.list[i] = e

Raises(check, evidence) ==
    /\ check.operator = "contains"
    /\ Is(Resolve(evidence.observations, check.subject), "dict")
    /\ Unhashable(Expected(check, evidence.references))

\* variant: a value that is missing is compared like any other
PassesMissing(check, evidence) ==
    LET actual == Resolve(evidence.observations, check.subject)
        before == Resolve(evidence.baseline, check.subject)
    IN CASE check.operator = "unchanged" -> actual = before
         [] OTHER -> actual = Expected(check, evidence.references)

Passes(check, evidence) ==
    LET actual == Resolve(evidence.observations, check.subject)
        expected == Expected(check, evidence.references)
        baseline == Resolve(evidence.baseline, check.subject)
    IN IF actual = Missing THEN check.operator = "not-exists"
       ELSE CASE check.operator = "equals" -> actual = expected
              [] check.operator = "contains" -> Includes(actual, expected)
              [] check.operator = "count-equals" -> Count(actual) = expected
              [] check.operator = "exists" -> TRUE
              [] check.operator = "not-exists" -> FALSE
              [] check.operator = "unchanged" -> baseline # Missing /\ actual = baseline
              [] check.operator = "less-than-or-equal" ->
                   Is(actual, "num") /\ Is(expected, "num") /\ actual.num <= expected.num

\* every check is evaluated before the verdict is taken
Verdict(checks, evidence) ==
    IF \E check \in checks : Raises(check, evidence) THEN "raised"
    ELSE IF \A check \in checks : Passes(check, evidence) THEN "passed" ELSE "failed"
====
