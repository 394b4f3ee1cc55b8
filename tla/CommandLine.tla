---- MODULE CommandLine ----
(***************************************************************************)
(* capability-bench validate and verify: what is read, in which order, and *)
(* the exit status that says whether a directory of tasks can be used or a *)
(* run has passed.  serve-fixtures is FixtureServer.                       *)
(***************************************************************************)
EXTENDS TaskSuite

CONSTANTS
    Invocations,  \* commands with their paths, and the evidence file for verify
    Worlds,       \* states a tested system may be in, for StateDecides
    Claims,       \* what an agent may say of it
    References    \* the references of a fixture

ASSUME InvocationsAssumption ==
    \A i \in Invocations :
      /\ i.args \in Seq(Paths \cup {"tasks", "."})
      /\ i.command = "verify" =>
           /\ i.args # <<>> /\ i.args[1] \in Paths
           /\ i.evidence # Nothing =>
                i.evidence.observations \in Json /\ i.evidence.baseline \in Json
\* nothing may be there, and whatever a task asks for beside the agent may be
ASSUME WorldsAssumption ==
    /\ <<>> \in Worlds
    /\ \A task \in Contents : task.form = "task" => \A subject \in Subjects(task) :
         subject[1] # "agent" =>
           \E world \in Worlds : Resolve([dict |-> world], subject) # Missing

VARIABLES
    invoked,   \* the command and its arguments
    stage,     \* "start", "files", "suites", "suite", "end"
    at,        \* the index of the file, then of the argument, it comes to
    failures,  \* files and suites that failed
    exit       \* "none", "ok" (0), "failed" (1), "raised" (a traceback)

cli == <<invoked, stage, at, failures, exit>>
vars == <<disk, suiteVars, cli>>

args == invoked.args
Directories == {"tasks", "."}  \* the suite's root, and a directory above it

TypeOK ==
    /\ files \in [Paths -> Contents \cup {Nothing}] /\ manifest \in Manifests \cup {Nothing}
    /\ suite \in {"idle", "reading", "done", "raised"} /\ next \in 1 .. Len(Files) + 1
    /\ invoked \in Invocations /\ stage \in {"start", "files", "suites", "suite", "end"}
    /\ at \in 1 .. Len(Files) + Len(args) + 1
    /\ failures \in 0 .. Len(Files) + Len(args)
    /\ exit \in {"none", "ok", "failed", "raised"} /\ (exit # "none" <=> stage = "end")

\* what verify does not name has no effect on it
Init ==
    /\ DiskInit /\ SuiteIdle /\ invoked \in Invocations
    /\ invoked.command = "verify"
         => manifest = Nothing /\ \A f \in Present : f = args[1]
    /\ stage = "start" /\ at = 1 /\ failures = 0 /\ exit = "none"

-----------------------------------------------------------------------------

Exits(status) == stage' = "end" /\ exit' = status
Goes(from, to) == stage = from /\ stage' = to

\* discover_task_files
Discovered == {f \in Present : \E i \in DOMAIN args : args[i] \in Directories \cup {f}}

\* validate_task_file has nothing to say of it
Valid(f) == f \in Tasks /\ files[f].valid
Decodes(f) == f \in Present => files[f].form # "undecodable"

NoTasks ==
    /\ invoked.command = "validate" /\ stage = "start" /\ Discovered = {} /\ Exits("failed")
    /\ UNCHANGED <<disk, suiteVars, invoked, at, failures>>

StartFiles ==
    /\ invoked.command = "validate" /\ Discovered # {} /\ Goes("start", "files")
    /\ UNCHANGED <<disk, suiteVars, invoked, at, failures, exit>>

\* variant: the last file that failed decides
ValidateFileAnew ==
    /\ stage = "files" /\ at <= Len(Files) /\ (Files[at] \in Discovered => Decodes(Files[at]))
    /\ at' = at + 1
    /\ failures' = IF Files[at] \notin Discovered THEN failures
                   ELSE IF Valid(Files[at]) THEN 0 ELSE 1
    /\ UNCHANGED <<disk, suiteVars, invoked, stage, exit>>

ValidateFile ==
    /\ stage = "files" /\ at <= Len(Files) /\ (Files[at] \in Discovered => Decodes(Files[at]))
    /\ at' = at + 1
    /\ failures' = failures + IF Files[at] \in Discovered /\ ~ Valid(Files[at]) THEN 1 ELSE 0
    /\ UNCHANGED <<disk, suiteVars, invoked, stage, exit>>

FileRaises ==
    /\ stage = "files" /\ at <= Len(Files) /\ Files[at] \in Discovered /\ ~ Decodes(Files[at])
    /\ Exits("raised")
    /\ UNCHANGED <<disk, suiteVars, invoked, at, failures>>

StartSuites ==
    /\ Goes("files", "suites") /\ at = Len(Files) + 1 /\ at' = 1
    /\ UNCHANGED <<disk, suiteVars, invoked, failures, exit>>

HasManifest(arg) == arg = "tasks" /\ manifest # Nothing

NoSuite ==
    /\ stage = "suites" /\ at <= Len(args) /\ ~ HasManifest(args[at]) /\ at' = at + 1
    /\ UNCHANGED <<disk, suiteVars, invoked, stage, failures, exit>>

CallSuite ==
    /\ Goes("suites", "suite") /\ at <= Len(args) /\ HasManifest(args[at]) /\ Call
    /\ UNCHANGED <<invoked, at, failures, exit>>

InSuite == stage = "suite" /\ SuiteStep /\ UNCHANGED cli

\* variant: the errors of a suite are counted, not the suite
ErrorsReturn ==
    /\ Goes("suite", "suites") /\ suite = "done" /\ at' = at + 1
    /\ failures' = failures + Cardinality(errors)
    /\ UNCHANGED <<disk, suiteVars, invoked, exit>>

SuiteReturns ==
    /\ Goes("suite", "suites") /\ suite = "done" /\ at' = at + 1
    /\ failures' = failures + IF errors # {} THEN 1 ELSE 0
    /\ UNCHANGED <<disk, suiteVars, invoked, exit>>

SuiteRaises ==
    /\ stage = "suite" /\ suite = "raised" /\ Exits("raised")
    /\ UNCHANGED <<disk, suiteVars, invoked, at, failures>>

Summary ==
    /\ stage = "suites" /\ at > Len(args) /\ Exits(IF failures = 0 THEN "ok" ELSE "failed")
    /\ UNCHANGED <<disk, suiteVars, invoked, at, failures>>

Validate == \/ NoTasks \/ StartFiles \/ ValidateFile \/ FileRaises \/ StartSuites \/ NoSuite
            \/ CallSuite \/ InSuite \/ SuiteReturns \/ SuiteRaises \/ Summary

\* the task and the evidence are what verify needs; load_evidence and the
\* comparison of the task's id raise what main catches
Usable(task) == invoked.evidence # Nothing /\ invoked.evidence.task = task.id

Refuse ==
    /\ invoked.command = "verify" /\ stage = "start" /\ Decodes(args[1])
    /\ Valid(args[1]) => ~ Usable(files[args[1]])
    /\ Exits("failed")
    /\ UNCHANGED <<disk, suiteVars, invoked, at, failures>>

TaskRaises ==
    /\ invoked.command = "verify" /\ stage = "start" /\ ~ Decodes(args[1]) /\ Exits("raised")
    /\ UNCHANGED <<disk, suiteVars, invoked, at, failures>>

Judge ==
    /\ invoked.command = "verify" /\ stage = "start"
    /\ Valid(args[1]) /\ Usable(files[args[1]])
    /\ LET verdict == Verdict(files[args[1]].checks, invoked.evidence)
       IN Exits(IF verdict = "passed" THEN "ok" ELSE verdict)
    /\ UNCHANGED <<disk, suiteVars, invoked, at, failures>>

Ended == stage = "end" /\ UNCHANGED vars

Next == Validate \/ Refuse \/ TaskRaises \/ Judge \/ Ended

Spec == Init /\ [][Next]_vars
-----------------------------------------------------------------------------
(* Properties.                                                             *)

\* validate exits with 0 exactly when it found tasks, all of them are valid and
\* every suite it was pointed at is consistent; a traceback never stands in for
\* a clean directory (_validate:43-74).
AllGood ==
    /\ Discovered # {} /\ \A f \in Discovered : Valid(f)
    /\ \A i \in DOMAIN args : HasManifest(args[i]) => manifest.form = "listed" /\ Consistent
ExitExact ==
    invoked.command = "validate" /\ exit # "none" => (exit = "ok" <=> AllGood)

\* No run passes on something that is not there: not in the final state, not in
\* the baseline, not among the references; only not-exists asks for absence
\* (_evaluate_check:73-98).
Compares == {"equals", "contains", "count-equals", "less-than-or-equal"}
MissingNeverCounts ==
    invoked.command = "verify" /\ exit = "ok" =>
      \A check \in files[args[1]].checks :
        /\ Resolve(invoked.evidence.observations, check.subject) = Missing
             => check.operator = "not-exists"
        /\ check.operator = "unchanged"
             => Resolve(invoked.evidence.baseline, check.subject) # Missing
        /\ check.operator \in Compares
             => Expected(check, invoked.evidence.references) # Missing

\* For every task of a suite that validate accepts there is a state of the tested
\* system in which no claim of the agent makes the verifier pass it
\* (validation.py:102-106 with verifier.py:61-112; verifiers/README.md:11).
Observed(world, claim) ==
    [dict |-> [k \in DOMAIN world \cup {"agent"} |->
                 IF k = "agent" THEN [dict |-> [output |-> claim]] ELSE world[k]]]
StateDecides ==
    exit = "ok" /\ (\E i \in DOMAIN args : HasManifest(args[i])) =>
      \A f \in Tasks : \E world, before \in Worlds : \A claim \in Claims :
        Verdict(files[f].checks,
                [observations |-> Observed(world, claim), baseline |-> [dict |-> before],
                 references |-> References]) # "passed"
====
