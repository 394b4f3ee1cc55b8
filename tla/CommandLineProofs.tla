---- MODULE CommandLineProofs ----
(***************************************************************************)
(* What the exit statuses of validate and verify stand for: for any files, *)
(* manifest, arguments and evidence.                                       *)
(***************************************************************************)
EXTENDS CommandLine, TaskSuiteProofs, VerifierProofs

\* nothing was wrong with the files, or the suites, it has been through
FilesPassed(n) == \A i \in 1 .. Len(Files) : i < n /\ Files[i] \in Discovered => Valid(Files[i])
SuitesPassed(n) ==
    \A i \in DOMAIN args :
      i < n /\ HasManifest(args[i]) => manifest.form = "listed" /\ Consistent

FilesInv ==
    stage = "files" =>
      /\ at \in 1 .. Len(Files) + 1 /\ Discovered # {}
      /\ failures = 0 <=> FilesPassed(at)

SuitesInv ==
    stage \in {"suites", "suite"} =>
      /\ at \in 1 .. Len(args) + 1 /\ Discovered # {}
      /\ failures = 0 <=> FilesPassed(Len(Files) + 1) /\ SuitesPassed(at)

CalledInv ==
    stage = "suite" => suite # "idle" /\ at \in DOMAIN args /\ HasManifest(args[at])

CliInv ==
    /\ SuiteInv /\ invoked \in Invocations /\ failures \in Nat
    /\ stage \in {"start", "files", "suites", "suite", "end"}
    /\ stage \in {"files", "suites", "suite"} => invoked.command = "validate"
    /\ stage = "start" => at = 1 /\ failures = 0
    /\ exit # "none" => stage = "end"
    /\ FilesInv /\ SuitesInv /\ CalledInv /\ ExitExact

LEMMA ArgsType == ASSUME CliInv PROVE Len(args) \in Nat /\ DOMAIN args = 1 .. Len(args)
BY InvocationsAssumption DEF CliInv, args

LEMMA InitCli == Init => CliInv
BY SuiteInitInv
   DEF Init, SuiteInit, CliInv, FilesInv, SuitesInv, CalledInv, ExitExact

\* Every step of the command is a step of validate_task_suite or none of its business.
LEMMA StepsSuite == Next => [Call \/ SuiteStep]_<<disk, suiteVars>>
BY DEF Next, Validate, NoTasks, StartFiles, ValidateFile, FileRaises, StartSuites, NoSuite,
       CallSuite, InSuite, SuiteReturns, SuiteRaises, Summary, Refuse, TaskRaises, Judge, Ended, vars

\* The files on the disk do not change, and neither does what is said of them.
LEMMA DiskKept ==
  ASSUME UNCHANGED <<disk, invoked>>
  PROVE  /\ Discovered' = Discovered /\ Consistent' = Consistent /\ AllGood' = AllGood
         /\ \A n : FilesPassed(n)' = FilesPassed(n) /\ SuitesPassed(n)' = SuitesPassed(n)
BY DEF disk, args, Discovered, Present, Consistent, Distinct, WellFormed, Tasks, Unique, Listed,
       AllGood, Valid, HasManifest, FilesPassed, SuitesPassed

\* No step changes what is on the disk, or the command.
LEMMA InputsKept == [Next]_vars => UNCHANGED <<disk, invoked>>
<1> SUFFICES ASSUME [Next]_vars PROVE UNCHANGED <<disk, invoked>>
  OBVIOUS
<1>1. Call \/ SuiteStep => UNCHANGED disk
  BY DEF Call, Unusable, NotAnObject, Begin, SuiteStep, Skip, Trip, Check, SuiteEnd
<1>2. UNCHANGED disk
  BY <1>1 DEF Next, Validate, NoTasks, StartFiles, ValidateFile, FileRaises, StartSuites, NoSuite,
     CallSuite, InSuite, SuiteReturns, SuiteRaises, Summary, Refuse, TaskRaises, Judge, Ended, vars
<1>3. UNCHANGED invoked
  BY DEF Next, Validate, NoTasks, StartFiles, ValidateFile, FileRaises, StartSuites, NoSuite,
     CallSuite, InSuite, SuiteReturns, SuiteRaises, Summary, Refuse, TaskRaises, Judge, Ended,
     vars, cli
<1> QED
  BY <1>2, <1>3

LEMMA AllPassed ==
  ASSUME CliInv
  PROVE  AllGood <=> /\ Discovered # {} /\ FilesPassed(Len(Files) + 1)
                     /\ SuitesPassed(Len(args) + 1)
<1>1. FilesPassed(Len(Files) + 1) <=> \A f \in Discovered : Valid(f)
  BY FilesLength DEF FilesPassed, Discovered, Present, Paths
<1>2. SuitesPassed(Len(args) + 1)
        <=> \A i \in DOMAIN args : HasManifest(args[i]) => manifest.form = "listed" /\ Consistent
  BY ArgsType DEF SuitesPassed
<1> QED
  BY <1>1, <1>2 DEF AllGood

\* One more file, one more argument.
LEMMA NextFile ==
  ASSUME CliInv, at \in 1 .. Len(Files)
  PROVE  FilesPassed(at + 1)
           <=> FilesPassed(at) /\ (Files[at] \in Discovered => Valid(Files[at]))
BY FilesLength DEF FilesPassed

LEMMA NextSuite ==
  ASSUME CliInv, at \in DOMAIN args
  PROVE  SuitesPassed(at + 1)
           <=> /\ SuitesPassed(at)
               /\ HasManifest(args[at]) => manifest.form = "listed" /\ Consistent
BY ArgsType DEF SuitesPassed

LEMMA StepCli == CliInv /\ [Next]_vars => CliInv'
<1> SUFFICES ASSUME CliInv, [Next]_vars PROVE CliInv'
  OBVIOUS
<1> USE FilesLength, ArgsType
<1>1. UNCHANGED <<disk, invoked>>
  BY InputsKept
<1>2. /\ args' = args /\ Discovered' = Discovered /\ AllGood' = AllGood /\ Consistent' = Consistent
      /\ \A a : HasManifest(a)' = HasManifest(a)
      /\ \A n : FilesPassed(n)' = FilesPassed(n) /\ SuitesPassed(n)' = SuitesPassed(n)
  BY <1>1, DiskKept DEF args, HasManifest, disk
<1>3. SuiteInv'
  BY StepsSuite, SuiteStepInv DEF CliInv, vars
<1>4. invoked' \in Invocations
  BY <1>1 DEF CliInv
<1> USE <1>1, <1>2, <1>3, <1>4 DEF CliInv, Goes, Exits
<1>5. CASE NoTasks
  BY <1>5, AllPassed DEF NoTasks, FilesInv, SuitesInv, CalledInv, ExitExact
<1>6. CASE StartFiles
  <2>1. FilesPassed(1) /\ at = 1 /\ failures = 0
    BY <1>6 DEF StartFiles, FilesPassed
  <2> QED
    BY <1>6, <2>1 DEF StartFiles, FilesInv, SuitesInv, CalledInv, ExitExact
<1>7. CASE ValidateFile
  BY <1>7, NextFile DEF ValidateFile, FilesInv, SuitesInv, CalledInv, ExitExact
<1>8. CASE FileRaises
  <2>1. ~ Valid(Files[at]) /\ Files[at] \in Discovered
    BY <1>8 DEF FileRaises, Decodes, Valid, Tasks
  <2> QED
    BY <1>8, <2>1 DEF FileRaises, FilesInv, SuitesInv, CalledInv, ExitExact, AllGood
<1>9. CASE StartSuites
  BY <1>9 DEF StartSuites, FilesInv, SuitesInv, CalledInv, ExitExact, SuitesPassed
<1>10. CASE NoSuite
  BY <1>10, NextSuite DEF NoSuite, FilesInv, SuitesInv, CalledInv, ExitExact
<1>11. CASE CallSuite
  BY <1>11 DEF CallSuite, Call, Unusable, NotAnObject, Begin, FilesInv, SuitesInv, CalledInv, ExitExact
<1>12. CASE InSuite
  BY <1>12 DEF InSuite, SuiteStep, Skip, Trip, Check, SuiteEnd, cli, FilesInv, SuitesInv, CalledInv,
     ExitExact
<1>13. CASE SuiteReturns
  <2>1. errors = {} <=> manifest.form = "listed" /\ Consistent
    BY <1>13 DEF SuiteReturns, SuiteInv, Reasons, SuiteExact, CalledInv, HasManifest
  <2> QED
    BY <1>13, <2>1, NextSuite DEF SuiteReturns, FilesInv, SuitesInv, CalledInv, ExitExact
<1>14. CASE SuiteRaises
  <2>1. ~ AllGood
    <3>1. CASE manifest # Nothing /\ manifest.form # "listed"
      BY <1>14, <3>1 DEF SuiteRaises, CalledInv, AllGood
    <3>2. CASE \E f \in Present : files[f].form # "task"
      BY <1>14, <3>2 DEF SuiteRaises, CalledInv, HasManifest, AllGood, Discovered, Directories, Valid, Tasks
    <3> QED
      BY <1>14, <3>1, <3>2 DEF SuiteRaises, SuiteInv, Reasons
  <2> QED
    BY <1>14, <2>1 DEF SuiteRaises, FilesInv, SuitesInv, CalledInv, ExitExact
<1>15. CASE Summary
  BY <1>15, AllPassed DEF Summary, FilesInv, SuitesInv, CalledInv, ExitExact
<1>16. CASE Refuse \/ TaskRaises \/ Judge
  BY <1>16 DEF Refuse, TaskRaises, Judge, FilesInv, SuitesInv, CalledInv, ExitExact
<1>17. CASE UNCHANGED vars
  BY <1>17 DEF vars, cli, suiteVars, FilesInv, SuitesInv, CalledInv, ExitExact
<1> QED
  BY <1>5, <1>6, <1>7, <1>8, <1>9, <1>10, <1>11, <1>12, <1>13, <1>14, <1>15, <1>16, <1>17
     DEF Next, Validate, Ended

\* For any files, manifest and arguments, validate exits with 0 exactly when there
\* are tasks, all valid, in consistent suites (_validate:43-74).
THEOREM ExitStatusExact == Spec => []ExitExact
<1>1. CliInv => ExitExact
  BY DEF CliInv
<1> QED
  BY <1>1, InitCli, StepCli, PTL DEF Spec

\* The suite check is as exact when the command calls it (cli.py:60-62).
THEOREM SuiteExactInCommand == Spec => []SuiteExact
<1>1. CliInv => SuiteExact
  BY DEF CliInv, SuiteInv
<1> QED
  BY <1>1, InitCli, StepCli, PTL DEF Spec

-----------------------------------------------------------------------------
(* The counter, and what verify has found.                                 *)

\* A file fails once at most, and so does an argument.
CountInv ==
    /\ manifest \in Manifests \cup {Nothing}
    /\ at \in 1 .. Len(Files) + Len(args) + 1 /\ failures \in 0 .. Len(Files) + Len(args)
    /\ stage = "files" => failures < at
    /\ stage \in {"suites", "suite"} => failures < Len(Files) + at
    /\ exit \in {"none", "ok", "failed", "raised"} /\ (exit # "none" <=> stage = "end")

JudgedInv ==
    /\ invoked.command = "verify" => manifest = Nothing
    /\ exit # "none" => invoked.command \in {"validate", "verify"}
    /\ invoked.command = "verify" /\ exit = "ok" =>
         /\ Valid(args[1]) /\ invoked.evidence # Nothing
         /\ Verdict(files[args[1]].checks, invoked.evidence) = "passed"

LEMMA InitCount == Init => CountInv /\ JudgedInv
BY InvocationsAssumption, FilesLength DEF Init, DiskInit, CountInv, JudgedInv, args

LEMMA StepCount == CliInv /\ CountInv /\ [Next]_vars => CountInv'
<1> SUFFICES ASSUME CliInv, CountInv, [Next]_vars PROVE CountInv'
  OBVIOUS
<1>1. UNCHANGED <<files, manifest, invoked>> /\ args' = args
  BY InputsKept DEF disk, args
<1> USE <1>1, FilesLength, ArgsType DEF CountInv, Exits, Goes
<1>2. CASE NoTasks \/ FileRaises \/ SuiteRaises \/ Summary \/ Refuse \/ TaskRaises
  BY <1>2 DEF NoTasks, FileRaises, SuiteRaises, Summary, Refuse, TaskRaises
<1>3. CASE StartFiles
  BY <1>3 DEF StartFiles, CliInv
<1>4. CASE ValidateFile
  BY <1>4 DEF ValidateFile
<1>5. CASE StartSuites
  BY <1>5 DEF StartSuites
<1>6. CASE NoSuite
  BY <1>6 DEF NoSuite
<1>7. CASE CallSuite \/ InSuite
  BY <1>7 DEF CallSuite, InSuite, cli
<1>8. CASE SuiteReturns
  BY <1>8 DEF SuiteReturns, CliInv, CalledInv
<1>9. CASE Judge
  BY <1>9, VerdictType DEF Judge
<1>10. CASE UNCHANGED vars
  BY <1>10 DEF vars, cli
<1> QED
  BY <1>2, <1>3, <1>4, <1>5, <1>6, <1>7, <1>8, <1>9, <1>10 DEF Next, Validate, Ended

LEMMA StepJudged == CliInv /\ JudgedInv /\ [Next]_vars => JudgedInv'
<1> SUFFICES ASSUME CliInv, JudgedInv, [Next]_vars PROVE JudgedInv'
  OBVIOUS
<1>1. UNCHANGED <<files, manifest, invoked>> /\ args' = args /\ (Valid(args[1])' <=> Valid(args[1]))
  BY InputsKept DEF disk, args, Valid, Tasks, Present
<1> USE <1>1 DEF JudgedInv, CliInv, Exits, Goes
<1>2. CASE Validate
  BY <1>2 DEF Validate, NoTasks, StartFiles, ValidateFile, FileRaises, StartSuites, NoSuite,
     CallSuite, InSuite, SuiteReturns, SuiteRaises, Summary, cli
<1>3. CASE Refuse \/ TaskRaises
  BY <1>3 DEF Refuse, TaskRaises
<1>4. CASE Judge
  BY <1>4, VerdictType DEF Judge, Usable
<1>5. CASE UNCHANGED vars
  BY <1>5 DEF vars, cli
<1> QED
  BY <1>2, <1>3, <1>4, <1>5 DEF Next, Ended

LEMMA Invariance == Spec => [](CliInv /\ CountInv /\ JudgedInv)
BY InitCli, StepCli, InitCount, StepCount, StepJudged, PTL DEF Spec

\* For any files and arguments a file or a suite is counted once at most, and every
\* end has an exit status (_validate:49-72, main:75-97).
THEOREM TypeCorrect == Spec => []TypeOK
<1>1. CliInv /\ CountInv => TypeOK
  BY DEF CliInv, SuiteInv, Typed, Reasons, CountInv, TypeOK
<1> QED
  BY <1>1, Invariance, PTL

\* For any evidence, of any depth: no run passes on something that is not there
\* (_evaluate_check:73-98).
THEOREM NothingMissingPasses == Spec => []MissingNeverCounts
<1>1. CliInv /\ JudgedInv => MissingNeverCounts
  <2> SUFFICES ASSUME CliInv, JudgedInv, invoked.command = "verify", exit = "ok",
                      NEW check \in files[args[1]].checks
               PROVE  /\ Resolve(invoked.evidence.observations, check.subject) = Missing
                           => check.operator = "not-exists"
                      /\ check.operator = "unchanged"
                           => Resolve(invoked.evidence.baseline, check.subject) # Missing
                      /\ check.operator \in Compares
                           => Expected(check, invoked.evidence.references) # Missing
    BY DEF MissingNeverCounts
  <2>1. Valid(args[1]) /\ Passes(check, invoked.evidence)
    BY DEF JudgedInv, Verdict
  <2>2. invoked.evidence.observations \in Json
    BY InvocationsAssumption DEF JudgedInv, CliInv
  <2>3. Len(check.subject) \in Nat
    <3>1. files[args[1]] \in Contents /\ files[args[1]].form = "task"
      BY <2>1 DEF Valid, Tasks, Present, CliInv, SuiteInv, Typed
    <3> QED
      BY <3>1, ContentsAssumption
  <2> QED
    BY <2>1, <2>2, <2>3, PassesOnWhatIsThere DEF Compares
<1> QED
  BY <1>1, Invariance, PTL

-----------------------------------------------------------------------------
(* Whose word a verdict rests on.                                          *)

\* What a task looks at of the agent is a part of its output, by name.  Without this
\* the claim below is false: a check of the whole output is of a state to the rule
\* for independent checks (validation.py:103), and the agent decides it.
ClaimsNamed ==
    \A task \in Contents : task.form = "task" =>
      \A subject \in Subjects(task) : subject[1] = "agent" => AgentOutput(subject)

\* Beside the agent, what is observed is the state of the system.
LEMMA BesideTheAgent ==
  ASSUME NEW world, NEW claim, NEW subject \in Seq(STRING), subject # <<>>, subject[1] # "agent"
  PROVE  Resolve(Observed(world, claim), subject) = Resolve([dict |-> world], subject)
<1> DEFINE part == subject[1]
           root == Observed(world, claim)
<1>1. Len(subject) \in Nat \ {0}
  OBVIOUS
<1>2. /\ Is(root, "dict") /\ ~ Is(root, "list") /\ DOMAIN root.dict = DOMAIN world \cup {"agent"}
      /\ part \in DOMAIN world => root.dict[part] = world[part]
  BY DEF Observed, Is
<1>3. Is([dict |-> world], "dict") /\ ~ Is([dict |-> world], "list")
  BY DEF Is
<1>4. Child(root, part) = Child([dict |-> world], part)
  <2> HIDE DEF root
  <2> QED
    BY <1>2, <1>3 DEF Child
<1> HIDE DEF root
<1>5. Resolve(root, subject) = Resolve([dict |-> world], subject)
  BY <1>1, <1>4, SameWay
<1> QED
  BY <1>5 DEF root

\* Where there is nothing, nothing is found.
LEMMA EmptyWorld ==
  ASSUME NEW subject \in Seq(STRING), subject # <<>>
  PROVE  Resolve([dict |-> <<>>], subject) = Missing
<1>1. Len(subject) \in Nat \ {0} /\ Child([dict |-> <<>>], subject[1]) = Missing
  BY DEF Child, Is
<1> QED
  BY <1>1, MissingAtOnce

\* A check passes on what is there or on what is not, but not on both.
LEMMA OneOrTheOther ==
  ASSUME NEW check, NEW evidence, Passes(check, evidence)
  PROVE  check.operator = "not-exists"
           <=> Resolve(evidence.observations, check.subject) = Missing
BY DEF Passes

\* Every check of something beside the agent fails in some state of the system,
\* whatever the agent says.
LEMMA SomeStateFails ==
  ASSUME NEW task \in Contents, task.form = "task", NEW check \in task.checks,
         check.subject # <<>>, check.subject[1] # "agent"
  PROVE  \E world \in Worlds : \A claim, before, references :
           ~ Passes(check, [observations |-> Observed(world, claim), baseline |-> before,
                            references |-> references])
<1>1. check.subject \in Seq(STRING) /\ check.subject # <<>>
  BY ContentsAssumption
<1>2. PICK world \in Worlds :
        check.operator = "not-exists" <=> Resolve([dict |-> world], check.subject) # Missing
  <2>1. CASE check.operator = "not-exists"
    BY <2>1, WorldsAssumption DEF Subjects
  <2>2. CASE check.operator # "not-exists"
    BY <2>2, <1>1, EmptyWorld, WorldsAssumption
  <2> QED
    BY <2>1, <2>2
<1>3. ASSUME NEW claim, NEW before, NEW references
      PROVE  ~ Passes(check, [observations |-> Observed(world, claim), baseline |-> before,
                              references |-> references])
  <2> DEFINE evidence == [observations |-> Observed(world, claim), baseline |-> before,
                          references |-> references]
  <2>1. Resolve(evidence.observations, check.subject) = Resolve([dict |-> world], check.subject)
    BY <1>1, BesideTheAgent
  <2> HIDE DEF evidence
  <2>2. ~ Passes(check, evidence)
    BY <1>2, <2>1, OneOrTheOther
  <2> QED
    BY <2>2 DEF evidence
<1> QED
  BY <1>3

\* A task that validate accepts has such a check.
LEMMA AcceptedLooksBeside ==
  ASSUME ClaimsNamed, CliInv, JudgedInv, exit = "ok", NEW i \in DOMAIN args,
         HasManifest(args[i]), NEW f \in Tasks
  PROVE  \E check \in files[f].checks : check.subject # <<>> /\ check.subject[1] # "agent"
<1>1. AllGood
  BY DEF JudgedInv, CliInv, ExitExact, HasManifest
<1>2. files[f] \in Contents /\ files[f].form = "task"
  BY DEF CliInv, SuiteInv, Typed, Tasks, Present
<1>3. f \in Discovered
  BY DEF Discovered, Tasks, HasManifest, Directories
<1>4. files[f].checks # {}
  BY <1>1, <1>2, <1>3, ContentsAssumption DEF AllGood, Valid
<1>5. WellFormed(f, files[f])
  BY <1>1 DEF AllGood, Consistent
<1> QED
  BY <1>2, <1>4, <1>5 DEF ClaimsNamed, Subjects, WellFormed

\* For any tasks, claims and evidence: where tasks name the claims they look at, no
\* task of an accepted suite leaves its verdict to the agent (validation.py:102-106
\* with verifier.py:61-112).
THEOREM VerdictsRestOnState == ASSUME ClaimsNamed PROVE Spec => []StateDecides
<1>1. CliInv /\ JudgedInv => StateDecides
  <2> SUFFICES ASSUME CliInv, JudgedInv, exit = "ok", NEW i \in DOMAIN args,
                      HasManifest(args[i]), NEW f \in Tasks
               PROVE  \E world, before \in Worlds : \A claim \in Claims :
                        Verdict(files[f].checks,
                                [observations |-> Observed(world, claim),
                                 baseline |-> [dict |-> before],
                                 references |-> References]) # "passed"
    BY DEF StateDecides
  <2>1. PICK check \in files[f].checks : check.subject # <<>> /\ check.subject[1] # "agent"
    BY AcceptedLooksBeside
  <2>2. files[f] \in Contents /\ files[f].form = "task"
    BY DEF CliInv, SuiteInv, Typed, Tasks, Present
  <2>3. PICK world \in Worlds : \A claim, before, references :
          ~ Passes(check, [observations |-> Observed(world, claim), baseline |-> before,
                           references |-> references])
    BY <2>1, <2>2, SomeStateFails
  <2>4. ASSUME NEW claim \in Claims
        PROVE  Verdict(files[f].checks,
                       [observations |-> Observed(world, claim), baseline |-> [dict |-> world],
                        references |-> References]) # "passed"
    BY <2>1, <2>3 DEF Verdict
  <2> QED
    BY <2>4
<1> QED
  BY <1>1, Invariance, PTL
====
