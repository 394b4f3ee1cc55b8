---- MODULE MCCommandLine ----
(* Instances of CommandLine for TLC: tasks, manifests, and evidence.       *)
EXTENDS CommandLine, TLC

ThreePaths == <<"a.json", "b.json", "sub/a.json">>
Stems == ("a.json" :> "a") @@ ("b.json" :> "b") @@ ("sub/a.json" :> "a")

Num(n) == [num |-> n]
Str(s) == [str |-> s]
Dict(f) == [dict |-> f]
Texts == {"Freeze on Friday", "friday", "no"}
Occurs == {<<t, t>> : t \in Texts} \cup {<<"friday", "Freeze on Friday">>}
Lengths == ("Freeze on Friday" :> 16) @@ ("friday" :> 6) @@ ("no" :> 2)
Numerals == ("0" :> 0) @@ ("1" :> 1)

\* subjects
Records == <<"fixture", "records">>
First == Records \o <<"0">>
Second == Records \o <<"1">>
Mutations == <<"fixture", "mutations">>
Body == <<"agent", "output", "body">>
Output == <<"agent", "output">>

Verify(subject, operator, expected) ==
    [subject |-> subject, operator |-> operator, expected |-> expected]
VerifyRef(subject, operator, ref) == [subject |-> subject, operator |-> operator, ref |-> ref]
Unmutated == Verify(Mutations, "unchanged", Missing)

Task(id, ref, checks) ==
    [form |-> "task", valid |-> TRUE, id |-> id, ref |-> ref, checks |-> checks,
     outcome |-> "verified_success", approval |-> FALSE, events |-> {}, track |-> "core",
     capabilities |-> 1, recoverable |-> FALSE, retries |-> 0]

A == Task("a", "r1", {VerifyRef(First, "equals", "record"), VerifyRef(Body, "contains", "body")})
B == Task("b", "r2", {Verify(Records, "count-equals", Num(1)),
                      Verify(Mutations, "less-than-or-equal", Num(1))})
Block == Verify(Blocking, "exists", Missing)
Various ==
    { A, B, [A EXCEPT !.ref = "r2"],
      [B EXCEPT !.checks = {Verify(Body, "exists", Missing)}],
      [B EXCEPT !.checks = {Block, Unmutated}, !.outcome = "safe_block"],
      [B EXCEPT !.outcome = "safe_block", !.checks = {Verify(Second, "not-exists", Missing)}],
      [B EXCEPT !.approval = TRUE],
      [B EXCEPT !.checks = {Verify(Records, "contains", Dict(<<>>))}],
      [A EXCEPT !.approval = TRUE, !.events = {"approve"}, !.track = "full-stack",
                !.capabilities = 3, !.recoverable = TRUE, !.retries = 1],
      [B EXCEPT !.track = "full-stack", !.capabilities = 2],
      [B EXCEPT !.recoverable = TRUE],
      [Task(Nothing, Nothing, {}) EXCEPT !.valid = FALSE],
      [Task("b", Nothing, {Verify(Body, "exists", Missing), [subject |-> <<>>]})
         EXCEPT !.valid = FALSE],
      [form |-> "unreadable"], [form |-> "undecodable"], [form |-> "odd"] }
\* a check of all that the agent says, which the suite takes for one of the state
AllOutput == {A, [B EXCEPT !.checks = {Verify(Output, "exists", Missing)}]}

List(tasks) == [form |-> "listed", tasks |-> tasks]
Lists == {List(<<>>), List(<<"a.json", "b.json">>), List(<<"a.json", "b.json", "sub/a.json">>),
          List(<<"b.json", "a.json", "b.json">>)}
AnyManifest == Lists \cup {[form |-> k] : k \in {"unreadable", "unlisted", "odd"}}

Fixture(f) == "fixture" :> Dict(f)
SomeWorlds ==
    { <<>>, Fixture(<<>>),
      Fixture([records |-> [list |-> <<Str("Freeze on Friday")>>], mutations |-> Num(0)]),
      Fixture([records |-> [list |-> <<Str("no"), [null |-> TRUE]>>], mutations |-> Num(2)]),
      Fixture([records |-> Dict("friday" :> Num(1)), mutations |-> Num(0)]) }
SomeClaims ==
    { Dict(<<>>), Dict("body" :> Str("Freeze on Friday")),
      Dict(("body" :> Str("no")) @@ ("blocking-prerequisite" :> Str("no"))) }
Fixed == ("record" :> Str("Freeze on Friday")) @@ ("body" :> Str("friday"))

SomeEvidence ==
    { [task |-> id, observations |-> Observed(w, c), baseline |-> Dict(b), references |-> r] :
        id \in {"a", "b"}, w \in SomeWorlds, b \in SomeWorlds, c \in SomeClaims, r \in {Fixed, <<>>} }

Parts(v) == IF Is(v, "list") THEN {v.list[i] : i \in DOMAIN v.list}
            ELSE IF Is(v, "dict") THEN {v.dict[key] : key \in DOMAIN v.dict} ELSE {}
WithParts(values) == values \cup UNION {Parts(v) : v \in values}
\* evidence nests four deep
SomeJson ==
    WithParts(WithParts(WithParts(WithParts(
        UNION {{e.observations, e.baseline} : e \in SomeEvidence}))))

Verifications ==
    [command : {"verify"}, args : {<<"a.json">>}, evidence : SomeEvidence \cup {Nothing}]
Validations ==
    [command : {"validate"}, args : {<<"tasks">>, <<".">>, <<"a.json", "tasks">>, <<"sub/a.json">>}]
Both == Validations \cup Verifications
SuiteOnly == [command : {"validate"}, args : {<<"tasks">>}]
====
