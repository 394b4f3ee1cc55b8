---- MODULE MCJsonlRunner ----
(* Instances of JsonlRunner for TLC.                                       *)
EXTENDS JsonlRunner

Note == [kind |-> "note"]
Report == [kind |-> "report"]
Bad == [kind |-> "bad"]
Poison == [kind |-> "poison"]
Ask(key) == [kind |-> "input", key |-> key]
Final(n, body) == [kind |-> "final", normal |-> n, body |-> body]

NoScript == <<>>
OneKey == {"approval"}
TwoKeys == {"approval", "clarification"}
OneApproval == <<"approval">>
Mixed == <<"approval", "clarification", "approval">>

\* every kind of line but those whose exception leaves run()
CaughtLines == {Note, Report, Bad, Ask("approval"), Final(TRUE, "ok"), Final(FALSE, "ok"),
                Final(TRUE, "bad")}
\* a line for each course a session may take: a reply and on, an error, the end
EachCourse == {Bad, Ask("approval"), Final(TRUE, "ok")}
AllLines == CaughtLines \cup {Ask("clarification"), Poison, Final(TRUE, "poison")}
====
