---- MODULE TaskSuite ----
(***************************************************************************)
(* validate_task_suite: the cross-checks of a directory of tasks, one file *)
(* after another in sorted order, against its manifest.                    *)
(***************************************************************************)
EXTENDS Verifier
LOCAL INSTANCE Functions

CONSTANTS
    Files,     \* the paths at which a task may be, sorted
    Stem,      \* their stems
    Nothing,   \* no file; no id or verifier ref that is a text
    Contents,  \* what a file may hold
    Manifests  \* what MANIFEST.json may hold

Paths == {Files[i] : i \in 1 .. Len(Files)}

ASSUME FilesAssumption ==
    /\ Files \in Seq(Paths)
    /\ \A i, j \in 1 .. Len(Files) : Files[i] = Files[j] => i = j
\* what the schema says of the numbers, the flags and the checks that are looked at; a check
\* that is no object, or whose subject is no text, has the subject <<>>
ASSUME ContentsAssumption ==
    \A task \in Contents : task.form = "task" =>
      /\ task.capabilities \in Nat /\ task.retries \in Nat
      /\ {task.approval, task.recoverable, task.valid} \subseteq BOOLEAN
      /\ \A check \in task.checks : check.subject \in Seq(STRING)
      /\ task.valid => task.checks # {} /\ \A check \in task.checks : check.subject # <<>>

VARIABLES
    files,     \* what is at each of the paths
    manifest,  \* what MANIFEST.json holds
    suite,     \* "idle", "reading", "done" or "raised"
    next,      \* the index of the file it reads next
    ids,       \* the ids seen so far
    refs,      \* the verifier refs seen so far
    errors     \* <<file, what is wrong with it>>

disk == <<files, manifest>>
suiteVars == <<suite, next, ids, refs, errors>>

Present == {f \in Paths : files[f] # Nothing}
Tasks == {f \in Present : files[f].form = "task"}
Listed == Range(manifest.tasks)
Unique == IsInjective(manifest.tasks)

DiskInit == files \in [Paths -> Contents \cup {Nothing}] /\ manifest \in Manifests \cup {Nothing}
SuiteIdle == suite = "idle" /\ next = 1 /\ ids = {} /\ refs = {} /\ errors = {}

-----------------------------------------------------------------------------

\* a subject under agent.output holds what the agent claims
AgentOutput(subject) == Len(subject) > 2 /\ SubSeq(subject, 1, 2) = <<"agent", "output">>
Blocking == <<"agent", "output", "blocking-prerequisite">>
Subjects(task) == {check.subject : check \in task.checks} \ {<<>>}

\* variant: any check will do
Unchecked(task) == task.checks = {}

\* there are checks, and none looks at anything but claims
DependsOnClaimsOnly(task) ==
    task.checks # {} /\ \A subject \in Subjects(task) : AgentOutput(subject)

UnnamedBlock(task) == task.outcome = "safe_block" /\ Blocking \notin Subjects(task)
Unapproved(task) ==
    task.approval /\ task.outcome = "verified_success" /\ "approve" \notin task.events
Narrow(task) == task.track = "full-stack" /\ task.capabilities < 3
Unrecoverable(task) == task.recoverable /\ task.retries < 1

Faults(f, task) ==
    {what \in {"id", "duplicate id", "verifier ref", "independent check", "blocking",
               "approve event", "capabilities", "retry allowance"} :
       \/ what = "id" /\ task.id # Stem[f]
       \/ what = "duplicate id" /\ task.id \in ids
       \/ what = "verifier ref" /\ task.ref \in refs
       \/ what = "independent check" /\ DependsOnClaimsOnly(task)
       \/ what = "blocking" /\ UnnamedBlock(task)
       \/ what = "approve event" /\ Unapproved(task)
       \/ what = "capabilities" /\ Narrow(task)
       \/ what = "retry allowance" /\ Unrecoverable(task)}

ListFaults ==
    (IF Unique THEN {} ELSE {<<"MANIFEST.json", "unique">>})
      \cup {<<f, "does not exist">> : f \in Listed \ Present}
      \cup {<<f, "not listed">> : f \in Present \ Listed}

\* the manifest cannot be read, or its tasks are not a list of paths
Unusable ==
    /\ suite # "reading" /\ (manifest = Nothing \/ manifest.form \in {"unreadable", "unlisted"})
    /\ suite' = "done" /\ errors' = {<<"MANIFEST.json", "unusable">>}
    /\ UNCHANGED <<disk, next, ids, refs>>

\* the manifest is JSON but not an object, or text that cannot be decoded
NotAnObject ==
    /\ suite # "reading" /\ manifest # Nothing /\ manifest.form = "odd"
    /\ suite' = "raised"
    /\ UNCHANGED <<disk, next, ids, refs, errors>>

Begin ==
    /\ suite # "reading" /\ manifest # Nothing /\ manifest.form = "listed"
    /\ suite' = "reading" /\ next' = 1 /\ ids' = {} /\ refs' = {} /\ errors' = ListFaults
    /\ UNCHANGED disk

Reads(forms) ==
    /\ suite = "reading" /\ next <= Len(Files)
    /\ Files[next] \in Present /\ files[Files[next]].form \in forms

\* no such file, or one that cannot be read
Skip ==
    /\ suite = "reading" /\ next <= Len(Files)
    /\ Files[next] \in Present => files[Files[next]].form = "unreadable"
    /\ next' = next + 1
    /\ UNCHANGED <<disk, suite, ids, refs, errors>>

\* text that cannot be decoded, or JSON of a shape the checks do not expect
Trip ==
    /\ Reads({"undecodable", "odd"})
    /\ suite' = "raised"
    /\ UNCHANGED <<disk, next, ids, refs, errors>>

\* variant: a file is compared with the one before it
CheckNeighbour ==
    /\ Reads({"task"})
    /\ LET f == Files[next] IN
         /\ errors' = errors \cup ({f} \X Faults(f, files[f]))
         /\ ids' = {files[f].id} \ {Nothing} /\ refs' = {files[f].ref} \ {Nothing}
    /\ next' = next + 1
    /\ UNCHANGED <<disk, suite>>

Check ==
    /\ Reads({"task"})
    /\ LET f == Files[next] IN
         /\ errors' = errors \cup ({f} \X Faults(f, files[f]))
         /\ ids' = ids \cup ({files[f].id} \ {Nothing})
         /\ refs' = refs \cup ({files[f].ref} \ {Nothing})
    /\ next' = next + 1
    /\ UNCHANGED <<disk, suite>>

SuiteEnd ==
    /\ suite = "reading" /\ next > Len(Files) /\ suite' = "done"
    /\ UNCHANGED <<disk, next, ids, refs, errors>>

Call == Unusable \/ NotAnObject \/ Begin
SuiteStep == Skip \/ Trip \/ Check \/ SuiteEnd

SuiteInit == DiskInit /\ SuiteIdle
SuiteSpec == SuiteInit /\ [][Call \/ SuiteStep]_<<disk, suiteVars>>

-----------------------------------------------------------------------------
(* Properties.                                                             *)

\* What the directory has to be, with every two tasks compared.
Distinct ==
    \A f, g \in Tasks : f # g =>
      /\ files[f].id = Nothing \/ files[f].id # files[g].id
      /\ files[f].ref = Nothing \/ files[f].ref # files[g].ref
WellFormed(f, task) ==
    /\ task.id = Stem[f]
    /\ task.checks = {} \/ \E check \in task.checks : check.subject # <<>> /\ ~ AgentOutput(check.subject)
    /\ task.outcome = "safe_block" => \E check \in task.checks : check.subject = Blocking
    /\ task.outcome = "verified_success" /\ task.approval => "approve" \in task.events
    /\ task.track = "full-stack" => task.capabilities >= 3
    /\ task.recoverable => task.retries >= 1
Consistent ==
    /\ Unique /\ Listed = Present
    /\ Distinct /\ \A f \in Tasks : WellFormed(f, files[f])

\* One pass over the files, with the ids and refs seen so far, finds an error
\* exactly when some file, or some two, break the rules; files that cannot be
\* read do not disturb it (validate_task_suite:74-142).
SuiteExact ==
    suite = "done" /\ manifest # Nothing /\ manifest.form = "listed"
      => (errors = {} <=> Consistent)
====
