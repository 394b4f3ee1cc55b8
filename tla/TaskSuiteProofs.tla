---- MODULE TaskSuiteProofs ----
(***************************************************************************)
(* One pass with the ids and refs seen so far decides what a comparison of *)
(* every two tasks would: for any number of files and any contents.        *)
(***************************************************************************)
EXTENDS TaskSuite, TLAPS

\* the tasks the pass has come to
Before == {f \in Tasks : \E i \in 1 .. Len(Files) : i < next /\ Files[i] = f}

\* what holds of the tasks in S when there is nothing to say of them
Sound(S) ==
    /\ \A f, g \in S : f # g =>
         /\ files[f].id = Nothing \/ files[f].id # files[g].id
         /\ files[f].ref = Nothing \/ files[f].ref # files[g].ref
    /\ \A f \in S : WellFormed(f, files[f])

Typed == files \in [Paths -> Contents \cup {Nothing}] /\ next \in 1 .. Len(Files) + 1

Pass ==
    suite = "reading" =>
      /\ manifest # Nothing /\ manifest.form = "listed"
      /\ ids = {files[f].id : f \in Before} \ {Nothing}
      /\ refs = {files[f].ref : f \in Before} \ {Nothing}
      /\ errors = {} <=> (Unique /\ Listed = Present) /\ Sound(Before)

\* A pass that does not come to the last file has a reason, and a manifest that
\* is not a list of paths is an error.
Reasons ==
    /\ suite \in {"idle", "reading", "done", "raised"}
    /\ suite = "done" => (manifest # Nothing /\ manifest.form = "listed") \/ errors # {}
    /\ suite = "raised" =>
         \/ manifest # Nothing /\ manifest.form # "listed"
         \/ \E f \in Present : files[f].form # "task"

SuiteInv == Typed /\ Pass /\ Reasons /\ SuiteExact

LEMMA FilesLength == Len(Files) \in Nat
BY FilesAssumption

LEMMA SuiteInitInv == SuiteInit => SuiteInv
BY FilesLength DEF SuiteInit, DiskInit, SuiteIdle, SuiteInv, Typed, Pass, Reasons, SuiteExact

\* A task has no faults exactly when it is well formed and brings a new id and ref.
LEMMA NoFaults ==
  ASSUME Typed, NEW f \in Tasks
  PROVE  Faults(f, files[f]) = {}
           <=> WellFormed(f, files[f]) /\ files[f].id \notin ids /\ files[f].ref \notin refs
<1> DEFINE task == files[f]
<1>1. task \in Contents /\ task.form = "task"
  BY DEF Typed, Tasks, Present
<1>2. task.capabilities \in Nat /\ task.retries \in Nat /\ task.approval \in BOOLEAN
      /\ task.recoverable \in BOOLEAN
  BY <1>1, ContentsAssumption
<1>3. Faults(f, task) = {}
        <=> /\ task.id = Stem[f] /\ task.id \notin ids /\ task.ref \notin refs
            /\ ~ DependsOnClaimsOnly(task) /\ ~ UnnamedBlock(task) /\ ~ Unapproved(task)
            /\ ~ Narrow(task) /\ ~ Unrecoverable(task)
  BY DEF Faults
<1>4. ~ DependsOnClaimsOnly(task)
        <=> \/ task.checks = {}
            \/ \E check \in task.checks : check.subject # <<>> /\ ~ AgentOutput(check.subject)
  BY DEF DependsOnClaimsOnly, Subjects
<1>5. ~ UnnamedBlock(task)
        <=> (task.outcome = "safe_block" => \E check \in task.checks : check.subject = Blocking)
  BY DEF UnnamedBlock, Subjects, Blocking
<1>6. ~ Unapproved(task)
        <=> (task.outcome = "verified_success" /\ task.approval => "approve" \in task.events)
  BY DEF Unapproved
<1>7. ~ Narrow(task) <=> (task.track = "full-stack" => task.capabilities >= 3)
  BY <1>2 DEF Narrow
<1>8. ~ Unrecoverable(task) <=> (task.recoverable => task.retries >= 1)
  BY <1>2 DEF Unrecoverable
<1> QED
  BY <1>3, <1>4, <1>5, <1>6, <1>7, <1>8 DEF WellFormed

\* Going past a file that is no task adds none; past a task, that one.
LEMMA Grows ==
  ASSUME Typed, next <= Len(Files), next' = next + 1, UNCHANGED disk
  PROVE  Before' = IF Files[next] \in Tasks THEN Before \cup {Files[next]} ELSE Before
<1> USE FilesLength DEF disk, Typed
<1>1. Tasks' = Tasks
  BY DEF Tasks, Present
<1>2. \A i \in 1 .. Len(Files) : i < next' <=> i < next \/ i = next
  OBVIOUS
<1>3. next \in 1 .. Len(Files)
  OBVIOUS
<1> QED
  BY <1>1, <1>2, <1>3 DEF Before

\* A task that is sound by itself and brings a new id and ref keeps the rest sound.
LEMMA SoundGrows ==
  ASSUME NEW S \in SUBSET Tasks, NEW f \in Tasks \ S,
         ids = {files[g].id : g \in S} \ {Nothing},
         refs = {files[g].ref : g \in S} \ {Nothing}
  PROVE  Sound(S \cup {f})
           <=> /\ Sound(S) /\ WellFormed(f, files[f])
               /\ files[f].id \notin ids /\ files[f].ref \notin refs
<1>1. files[f].id \notin ids <=> \A g \in S : files[f].id = Nothing \/ files[f].id # files[g].id
  OBVIOUS
<1>2. files[f].ref \notin refs
        <=> \A g \in S : files[f].ref = Nothing \/ files[f].ref # files[g].ref
  OBVIOUS
<1>3. ASSUME Sound(S \cup {f})
      PROVE  /\ Sound(S) /\ WellFormed(f, files[f])
             /\ files[f].id \notin ids /\ files[f].ref \notin refs
  BY <1>1, <1>2, <1>3 DEF Sound
<1>4. ASSUME Sound(S), WellFormed(f, files[f]), files[f].id \notin ids, files[f].ref \notin refs
      PROVE  Sound(S \cup {f})
  BY <1>1, <1>2, <1>4 DEF Sound
<1> QED
  BY <1>3, <1>4

LEMMA PairsOfNone ==
  ASSUME NEW x, NEW S
  PROVE  ({x} \X S) = {} <=> S = {}
<1>1. ASSUME NEW y \in S PROVE <<x, y>> \in {x} \X S
  OBVIOUS
<1> QED
  BY <1>1

LEMMA CheckInv == SuiteInv /\ Check => SuiteInv'
<1> SUFFICES ASSUME SuiteInv, Check PROVE SuiteInv'
  OBVIOUS
<1> DEFINE f == Files[next]
<1>1. /\ f \in Tasks /\ next \in 1 .. Len(Files) /\ suite = "reading"
      /\ next' = next + 1 /\ UNCHANGED <<disk, suite>>
      /\ ids' = ids \cup ({files[f].id} \ {Nothing})
      /\ refs' = refs \cup ({files[f].ref} \ {Nothing})
      /\ errors' = errors \cup ({f} \X Faults(f, files[f]))
  BY FilesLength DEF SuiteInv, Typed, Check, Reads, Tasks
<1>2. Typed'
  BY <1>1, FilesLength DEF SuiteInv, Typed, disk
<1>3. f \notin Before
  BY <1>1, FilesAssumption, FilesLength DEF Before, SuiteInv, Typed
<1>4. Before' = Before \cup {f}
  BY <1>1, Grows DEF SuiteInv, Typed
<1>5. errors' = {} <=> errors = {} /\ Faults(f, files[f]) = {}
  <2>1. ({f} \X Faults(f, files[f])) = {} <=> Faults(f, files[f]) = {}
    BY PairsOfNone
  <2> HIDE DEF f
  <2> QED
    BY <1>1, <2>1
<1>6. Sound(Before)' <=> Sound(Before \cup {f})
  BY <1>1, <1>4 DEF Sound, WellFormed, disk
<1>7. errors' = {} <=> (Unique /\ Listed = Present) /\ Sound(Before \cup {f})
  <2>1. Before \subseteq Tasks
    BY DEF Before
  <2> QED
    BY <1>1, <1>3, <1>5, <2>1, NoFaults, SoundGrows DEF SuiteInv, Pass
<1>8. ids' = {files'[g].id : g \in Before'} \ {Nothing}
  BY <1>1, <1>4 DEF SuiteInv, Pass, disk
<1>9. refs' = {files'[g].ref : g \in Before'} \ {Nothing}
  BY <1>1, <1>4 DEF SuiteInv, Pass, disk
<1>10. (Unique /\ Listed = Present)' <=> (Unique /\ Listed = Present)
  BY <1>1 DEF Unique, Listed, Present, disk
<1>11. Pass'
  BY <1>1, <1>6, <1>7, <1>8, <1>9, <1>10 DEF SuiteInv, Pass, disk
<1>12. SuiteExact' /\ Reasons'
  BY <1>1 DEF SuiteExact, Reasons, disk
<1> QED
  BY <1>2, <1>11, <1>12 DEF SuiteInv

LEMMA SuiteStepInv == SuiteInv /\ [Call \/ SuiteStep]_<<disk, suiteVars>> => SuiteInv'
<1> SUFFICES ASSUME SuiteInv, [Call \/ SuiteStep]_<<disk, suiteVars>> PROVE SuiteInv'
  OBVIOUS
<1> USE FilesLength DEF SuiteInv, disk, Reasons
<1>1. CASE Unusable
  BY <1>1 DEF Unusable, Typed, Pass, SuiteExact
<1>2. CASE NotAnObject
  BY <1>2 DEF NotAnObject, Typed, Pass, SuiteExact
<1>3. CASE Begin
  <2>1. Typed'
    BY <1>3 DEF Begin, Typed
  <2>2. Before' = {} /\ Sound({})'
    BY <1>3 DEF Begin, Before, Sound
  <2>3. errors' = {} <=> Unique /\ Listed = Present
    BY <1>3 DEF Begin, ListFaults
  <2>4. (Unique /\ Listed = Present)' <=> Unique /\ Listed = Present
    BY <1>3 DEF Begin, Unique, Listed, Present
  <2>5. Pass'
    BY <1>3, <2>2, <2>3, <2>4 DEF Begin, Pass
  <2> QED
    BY <1>3, <2>1, <2>5 DEF Begin, SuiteExact
<1>4. CASE Skip
  <2>1. /\ next <= Len(Files) /\ next' = next + 1 /\ suite = "reading"
        /\ UNCHANGED <<files, manifest, suite, ids, refs, errors>>
    BY <1>4 DEF Skip
  <2>2. Files[next] \notin Tasks
    BY <1>4 DEF Skip, Tasks
  <2>3. Before' = Before
    BY <2>1, <2>2, Grows
  <2>4. Sound(Before)' <=> Sound(Before)
    BY <2>1, <2>3 DEF Sound, WellFormed
  <2>5. (Unique /\ Listed = Present)' <=> Unique /\ Listed = Present
    BY <2>1 DEF Unique, Listed, Present
  <2>6. Pass'
    BY <2>1, <2>3, <2>4, <2>5 DEF Pass
  <2> QED
    BY <2>1, <2>6 DEF Typed, SuiteExact
<1>5. CASE Trip
  BY <1>5 DEF Trip, Reads, Present, Typed, Pass, SuiteExact
<1>6. CASE Check
  BY <1>6, CheckInv
<1>7. CASE SuiteEnd
  <2>1. Before = Tasks
    BY <1>7 DEF SuiteEnd, Before, Typed, Tasks, Present, Paths
  <2>2. errors = {} <=> Consistent
    BY <1>7, <2>1 DEF SuiteEnd, Pass, Sound, Consistent, Distinct
  <2>3. Consistent' <=> Consistent
    BY <1>7 DEF SuiteEnd, Consistent, Distinct, WellFormed, Tasks, Present, Unique, Listed
  <2> QED
    BY <1>7, <2>2, <2>3 DEF SuiteEnd, Typed, Pass, SuiteExact
<1>8. CASE UNCHANGED <<disk, suiteVars>>
  <2>1. /\ UNCHANGED <<files, manifest, suite, next, ids, refs, errors>>
        /\ Before' = Before /\ Present' = Present /\ (Consistent' <=> Consistent)
    BY <1>8 DEF suiteVars, Before, Tasks, Present, Consistent, Distinct, WellFormed, Unique, Listed
  <2>2. Sound(Before)' <=> Sound(Before)
    BY <2>1 DEF Sound, WellFormed
  <2>3. (Unique /\ Listed = Present)' <=> Unique /\ Listed = Present
    BY <2>1 DEF Unique, Listed, Present
  <2> QED
    BY <2>1, <2>2, <2>3 DEF Typed, Pass, SuiteExact
<1> QED
  BY <1>1, <1>2, <1>3, <1>4, <1>5, <1>6, <1>7, <1>8 DEF Call, SuiteStep

\* Whatever the files hold and however many there are, validate_task_suite reports
\* no error exactly for a consistent directory (validation.py:51-142).
THEOREM SuitePassExact == SuiteSpec => []SuiteExact
<1>1. SuiteInv => SuiteExact
  BY DEF SuiteInv
<1> QED
  BY <1>1, SuiteInitInv, SuiteStepInv, PTL DEF SuiteSpec
====
