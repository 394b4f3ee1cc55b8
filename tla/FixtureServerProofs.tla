---- MODULE FixtureServerProofs ----
(***************************************************************************)
(* The fixture server implements the atomic FixtureStore, for any number   *)
(* of handler threads, run ids and values.                                 *)
(***************************************************************************)
EXTENDS FixtureServer, TLAPS

\* One thread is between acquiring and releasing the lock, and it is the holder.
Mutex == \A t \in Threads : at[t] \in Inside => lock = {t}

\* Under the lock a session that was found stays, as it was copied.
Undisturbed ==
    \A t \in Threads :
      /\ at[t] = "reading" =>
           /\ request[t].op = "get" /\ Session(t) # Absent
           /\ copy[t] = [Session(t) EXCEPT !.events = <<>>]
      /\ at[t] = "writing" => request[t].op \in {"put", "event"} /\ Session(t) # Absent

\* The run id of a session that is being created belongs to one thread, and no
\* client has been told of it; what that thread inserted is as it inserted it.
Creating(t) == at[t] # "idle" /\ request[t].op = "create"
Private ==
    /\ \A t \in Threads : Creating(t) => request[t].id \in issued \ known
    /\ \A t, u \in Threads :
         Creating(t) /\ Creating(u) /\ request[t].id = request[u].id => t = u
    /\ \A t \in Threads : at[t] # "idle" /\ request[t].op # "create" => request[t].id \in known
    /\ \A t \in Threads :
         Creating(t) /\ at[t] \in {"unlock", "copyOut"} => Session(t) = Store!Opened(request[t].value)
    /\ \A t \in Threads : at[t] = "copyOut" => Creating(t)

Inv == TypeOK /\ Mutex /\ Undisturbed /\ Private

USE DEF Moves, Session, Inside

LEMMA EvidenceShape ==
  ASSUME NEW e \in Store!Evidence, NEW v \in Values
  PROVE  /\ [e EXCEPT !.observations = v] \in Store!Evidence
         /\ [e EXCEPT !.events = Append(e.events, v)] \in Store!Evidence
         /\ [e EXCEPT !.events = <<>>] \in Store!Evidence
         /\ Store!Opened(v) \in Store!Evidence
         /\ [[e EXCEPT !.events = <<>>] EXCEPT !.events = e.events] = e
<1>1. e.events \in Seq(Values) /\ <<>> \in Seq(Values) /\ Append(e.events, v) \in Seq(Values)
  BY DEF Store!Evidence
<1>2. e.baseline \in Values /\ e.observations \in Values
  BY DEF Store!Evidence
<1>3. [e EXCEPT !.observations = v] \in Store!Evidence
  BY <1>1, <1>2 DEF Store!Evidence
<1>4. \A s \in Seq(Values) : [e EXCEPT !.events = s] \in Store!Evidence
  BY <1>2 DEF Store!Evidence
<1>5. Store!Opened(v) \in Store!Evidence
  BY <1>1 DEF Store!Evidence, Store!Opened
<1>6. [[e EXCEPT !.events = <<>>] EXCEPT !.events = e.events] = e
  BY DEF Store!Evidence
<1> QED BY <1>1, <1>3, <1>4, <1>5, <1>6

LEMMA OpenedShape == ASSUME NEW v \in Values PROVE Store!Opened(v) \in Store!Evidence
<1>1. <<>> \in Seq(Values)
  OBVIOUS
<1> QED BY <1>1 DEF Store!Evidence, Store!Opened

LEMMA RequestShape ==
  ASSUME NEW r \in Store!Requests
  PROVE  /\ r.id \in RunIds /\ r.value \in Values
         /\ r.op \in {"create", "get", "put", "event", "delete"}
BY DEF Store!Requests

LEMMA InitInv == Init => Inv
BY BoundAssumption DEF Init, Inv, TypeOK, Mutex, Undisturbed, Private, Creating

\* What a thread does without the store or the run ids, and what it does under
\* the lock, leaves the others where they are.
LEMMA AcceptInv == ASSUME Inv, NEW t \in Threads, NEW r \in Store!Requests, Accept(t, r) PROVE Inv'
<1> USE DEF Inv, Accept
<1>1. TypeOK'
  BY BoundAssumption, RequestShape DEF TypeOK
<1>2. Mutex' /\ Undisturbed'
  BY DEF TypeOK, Mutex, Undisturbed
<1>3. Private'
  BY RequestShape DEF TypeOK, Private, Creating
<1> QED BY <1>1, <1>2, <1>3

LEMMA AcquireInv == ASSUME Inv, NEW t \in Threads, Acquire(t) PROVE Inv'
BY DEF Inv, Acquire, TypeOK, Mutex, Undisturbed, Private, Creating, ids

\* Whoever is under the lock is alone there.
LEMMA Alone ==
  ASSUME Inv, NEW t \in Threads, at[t] \in Inside, NEW u \in Threads, at[u] \in Inside
  PROVE  u = t
BY DEF Inv, Mutex

LEMMA UnlockInv == ASSUME Inv, NEW t \in Threads, Unlock(t) PROVE Inv'
<1> USE DEF Inv, Unlock, ids
<1>1. TypeOK'
  BY DEF TypeOK
<1>2. Mutex' /\ Undisturbed'
  BY Alone DEF TypeOK, Mutex, Undisturbed
<1>3. Private'
  BY DEF TypeOK, Private, Creating
<1> QED BY <1>1, <1>2, <1>3

LEMMA InsertInv == ASSUME Inv, NEW t \in Threads, Insert(t) PROVE Inv'
<1> USE DEF Inv, Insert, ids, Sets
<1>0. request[t].id \in RunIds /\ request[t].value \in Values
      /\ Store!Opened(request[t].value) \in Store!Evidence
  BY RequestShape DEF TypeOK, Store!Evidence, Store!Opened
<1>1. TypeOK'
  BY <1>0 DEF TypeOK
<1>2. Mutex'
  BY DEF TypeOK, Mutex
<1>3. Undisturbed'
  <2>1. \A u \in Threads : at'[u] \in {"reading", "writing"} => FALSE
    BY Alone DEF TypeOK
  <2> QED BY <2>1 DEF Undisturbed
<1>4. Private'
  BY <1>0 DEF TypeOK, Private, Creating
<1> QED BY <1>1, <1>2, <1>3, <1>4

LEMMA MissingInv == ASSUME Inv, NEW t \in Threads, Missing(t) PROVE Inv'
BY DEF Inv, Missing, TypeOK, Mutex, Undisturbed, Private, Creating, ids

LEMMA CopyObservationsInv == ASSUME Inv, NEW t \in Threads, CopyObservations(t) PROVE Inv'
<1> USE DEF Inv, CopyObservations, ids
<1>0. request[t].id \in RunIds /\ Session(t) \in Store!Evidence /\ request[t].value \in Values
  BY RequestShape DEF TypeOK
<1>1. [Session(t) EXCEPT !.events = <<>>] \in Store!Evidence
  BY <1>0, EvidenceShape
<1>2. TypeOK'
  BY <1>1 DEF TypeOK
<1>3. Mutex' /\ Undisturbed'
  BY DEF TypeOK, Mutex, Undisturbed
<1>4. Private'
  BY DEF TypeOK, Private, Creating
<1> QED BY <1>2, <1>3, <1>4

\* The answer put together from two copies is the session's evidence.
LEMMA CopiedWhole ==
  ASSUME Inv, NEW t \in Threads, at[t] = "reading"
  PROVE  /\ request[t].op = "get" /\ Session(t) # Absent
         /\ [copy[t] EXCEPT !.events = Session(t).events] = Session(t)
         /\ Session(t) \in Store!Evidence
<1>1. request[t].id \in RunIds /\ request[t].value \in Values
  BY RequestShape DEF Inv, TypeOK
<1>2. /\ request[t].op = "get" /\ Session(t) # Absent /\ Session(t) \in Store!Evidence
      /\ copy[t] = [Session(t) EXCEPT !.events = <<>>]
  BY <1>1 DEF Inv, TypeOK, Undisturbed
<1> QED BY <1>1, <1>2, EvidenceShape

LEMMA CopyEventsInv == ASSUME Inv, NEW t \in Threads, CopyEvents(t) PROVE Inv'
<1> USE DEF Inv, CopyEvents, ids
<1>1. [copy[t] EXCEPT !.events = Session(t).events] \in Store!Evidence /\ request[t].op = "get"
  BY CopiedWhole
<1>2. TypeOK'
  BY <1>1 DEF TypeOK
<1>3. Mutex' /\ Undisturbed'
  BY DEF TypeOK, Mutex, Undisturbed
<1>4. Private'
  BY <1>1 DEF TypeOK, Private, Creating
<1> QED BY <1>2, <1>3, <1>4

LEMMA FoundInv == ASSUME Inv, NEW t \in Threads, Found(t) PROVE Inv'
BY DEF Inv, Found, TypeOK, Mutex, Undisturbed, Private, Creating, ids

\* A change made under the lock disturbs no session another thread is at.
LEMMA SetsInv ==
  ASSUME Inv, NEW t \in Threads, NEW e \in Store!Evidence \cup {Absent},
         at[t] \in {"held", "writing"}, at' = [at EXCEPT ![t] = "unlock"], Sets(t, e),
         request[t].op # "create", answer' = [answer EXCEPT ![t] = Accepted],
         UNCHANGED <<request, copy, lock, ids, accepted, serving>>
  PROVE  Inv'
<1> USE DEF Inv, Sets, ids
<1>0. request[t].id \in RunIds
  BY RequestShape DEF TypeOK
<1>1. TypeOK'
  BY <1>0 DEF TypeOK
<1>2. Mutex'
  BY DEF TypeOK, Mutex
<1>3. Undisturbed'
  <2>1. \A u \in Threads : at'[u] \in {"reading", "writing"} => FALSE
    BY Alone DEF TypeOK
  <2> QED BY <2>1 DEF Undisturbed
<1>4. Private'
  BY <1>0 DEF TypeOK, Private, Creating
<1> QED BY <1>1, <1>2, <1>3, <1>4

LEMMA ChangeInv == ASSUME Inv, NEW t \in Threads, Change(t) PROVE Inv'
<1>1. request[t].id \in RunIds /\ request[t].value \in Values /\ Session(t) \in Store!Evidence
  BY RequestShape DEF Inv, TypeOK, Undisturbed, Change
<1>2. CASE request[t].op = "put"
  <2>1. [Session(t) EXCEPT !.observations = request[t].value] \in Store!Evidence
    BY <1>1, EvidenceShape
  <2> QED BY <1>2, <2>1, SetsInv DEF Change
<1>3. CASE request[t].op = "event"
  <2>1. [Session(t) EXCEPT !.events = Append(Session(t).events, request[t].value)]
          \in Store!Evidence
    BY <1>1, EvidenceShape
  <2> QED BY <1>3, <2>1, SetsInv DEF Change
<1> QED BY <1>2, <1>3 DEF Change

LEMMA DeleteInv == ASSUME Inv, NEW t \in Threads, Delete(t) PROVE Inv'
BY SetsInv DEF Delete

\* create answers with what it inserted.
LEMMA CreatedWhole ==
  ASSUME Inv, NEW t \in Threads, at[t] = "copyOut"
  PROVE  request[t].op = "create" /\ Session(t) = Store!Opened(request[t].value)
BY DEF Inv, Private, Creating

LEMMA CopyOutInv == ASSUME Inv, NEW t \in Threads, CopyOut(t) PROVE Inv'
<1> USE DEF Inv, CopyOut, ids
<1>1. request[t].value \in Values /\ Session(t) \in Store!Evidence
  <2>1. request[t].value \in Values
    BY RequestShape DEF TypeOK
  <2> QED BY <2>1, CreatedWhole, OpenedShape
<1>2. TypeOK'
  BY <1>1 DEF TypeOK
<1>3. Mutex' /\ Undisturbed'
  BY DEF TypeOK, Mutex, Undisturbed
<1>4. Private'
  BY DEF TypeOK, Private, Creating
<1> QED BY <1>2, <1>3, <1>4

LEMMA ReplyInv == ASSUME Inv, NEW t \in Threads, Reply(t) PROVE Inv'
<1> USE DEF Inv, Reply
<1>1. TypeOK'
  BY DEF TypeOK, Private, Creating
<1>2. Mutex' /\ Undisturbed'
  BY DEF TypeOK, Mutex, Undisturbed
<1>3. Private'
  BY DEF TypeOK, Private, Creating
<1> QED BY <1>1, <1>2, <1>3

LEMMA LoseInv == ASSUME Inv, NEW t \in Threads, Lose(t) PROVE Inv'
BY DEF Inv, Lose, TypeOK, Mutex, Undisturbed, Private, Creating, ids

LEMMA CopyFailsInv == ASSUME Inv, NEW t \in Threads, CopyFails(t) PROVE Inv'
<1> USE DEF Inv, CopyFails, ids
<1>1. TypeOK'
  BY DEF TypeOK
<1>2. Mutex' /\ Undisturbed'
  BY DEF TypeOK, Mutex, Undisturbed
<1>3. Private'
  BY DEF TypeOK, Private, Creating
<1> QED BY <1>1, <1>2, <1>3

LEMMA StepInv == Inv /\ [Next]_vars => Inv'
<1> SUFFICES ASSUME Inv, [Next]_vars PROVE Inv'
  OBVIOUS
<1>1. ASSUME NEW t \in Threads, NEW r \in Store!Requests, Accept(t, r) PROVE Inv'
  BY <1>1, AcceptInv
<1>2. ASSUME NEW t \in Threads, Acquire(t) PROVE Inv'
  BY <1>2, AcquireInv
<1>3. ASSUME NEW t \in Threads, Handle(t) PROVE Inv'
  BY <1>3, InsertInv, MissingInv, CopyObservationsInv, CopyEventsInv, FoundInv, ChangeInv,
     DeleteInv, UnlockInv, CopyOutInv, ReplyInv, LoseInv DEF Handle
<1>4. ASSUME NEW t \in Threads, CopyFails(t) PROVE Inv'
  BY <1>4, CopyFailsInv
<1>5. CASE Close
  BY <1>5 DEF Close, Inv, TypeOK, Mutex, Undisturbed, Private, Creating, thread, ids
<1>6. CASE UNCHANGED vars
  BY <1>6 DEF vars, Inv, TypeOK, Mutex, Undisturbed, Private, Creating, thread, ids
<1> QED BY <1>1, <1>2, <1>3, <1>4, <1>5, <1>6 DEF Next, Quiet

LEMMA Invariance == Spec => []Inv
BY InitInv, StepInv, PTL DEF Spec

\* The state stays within its types; the lock has one holder at most.
THEOREM TypeCorrect == Spec => []TypeOK
<1>1. Inv => TypeOK
  BY DEF Inv
<1> QED BY <1>1, Invariance, PTL

-----------------------------------------------------------------------------
(* Refinement.                                                             *)

\* A thread's move shows in its own entries only.
LEMMA Mapped ==
  ASSUME Inv, NEW t \in Threads, NEW to, at' = [at EXCEPT ![t] = to],
         \A u \in Threads \ {t} : answer'[u] = answer[u] /\ request'[u] = request[u]
  PROVE  /\ Stage' = [Stage EXCEPT ![t] = Stage'[t]]
         /\ Told' = [Told EXCEPT ![t] = Told'[t]]
<1>1. at \in [Threads -> {"idle", "lock", "copyOut", "reply"} \cup Inside]
  BY DEF Inv, TypeOK
<1>2. \A u \in Threads \ {t} : at'[u] = at[u]
  BY <1>1
<1>3. \A u \in Threads \ {t} : Stage'[u] = Stage[u] /\ Told'[u] = Told[u]
  BY <1>2 DEF Stage, Told
<1>4. Stage' = [u \in Threads |-> Stage'[u]] /\ Told' = [u \in Threads |-> Told'[u]]
  BY DEF Stage, Told
<1>5. Stage = [u \in Threads |-> Stage[u]] /\ Told = [u \in Threads |-> Told[u]]
  BY DEF Stage, Told
<1> QED BY <1>3, <1>4, <1>5

\* A step of one thread that shows in none of the abstract variables.
LEMMA Hidden ==
  ASSUME Inv, NEW t \in Threads, NEW to, at' = [at EXCEPT ![t] = to],
         UNCHANGED <<request, sessions, ids>>,
         \A u \in Threads \ {t} : answer'[u] = answer[u],
         Stage'[t] = Stage[t], Told'[t] = Told[t]
  PROVE  UNCHANGED Store!table
<1>1. Stage' = Stage /\ Told' = Told
  BY Mapped DEF Stage, Told
<1> QED BY <1>1 DEF Store!table, ids

LEMMA CallStep ==
  ASSUME Inv, NEW t \in Threads, NEW r \in Store!Requests, Accept(t, r)
  PROVE  Store!Call(t, r)
<1>1. at[t] = "idle" /\ at' = [at EXCEPT ![t] = "lock"] /\ at'[t] = "lock"
  BY DEF Accept, Inv, TypeOK
<1>2. Stage[t] = "idle" /\ Stage'[t] = "called" /\ Told[t] = Absent /\ Told'[t] = Absent
  BY <1>1 DEF Stage, Told, Accept
<1>3. \A u \in Threads \ {t} : answer'[u] = answer[u] /\ request'[u] = request[u]
  BY DEF Accept, Inv, TypeOK
<1>4. Stage' = [Stage EXCEPT ![t] = "called"] /\ Told' = Told
  BY <1>1, <1>2, <1>3, Mapped DEF Told
<1> QED BY <1>2, <1>4 DEF Store!Call, Accept

LEMMA ServeStep ==
  ASSUME Inv, NEW t \in Threads,
         Insert(t) \/ Missing(t) \/ CopyEvents(t) \/ Change(t) \/ Delete(t)
  PROVE  Store!Serve(t)
<1>1. /\ at[t] \in {"held", "reading", "writing"} /\ at' = [at EXCEPT ![t] = "unlock"]
      /\ at'[t] = "unlock" /\ UNCHANGED <<request, ids>>
  BY DEF Insert, Missing, CopyEvents, Change, Delete, Inv, TypeOK
<1>2. \A u \in Threads \ {t} : answer'[u] = answer[u] /\ request'[u] = request[u]
  BY <1>1 DEF Insert, Missing, CopyEvents, Change, Delete, Inv, TypeOK
<1>3. /\ Stage[t] = "called" /\ Stage' = [Stage EXCEPT ![t] = "served"]
      /\ Told' = [Told EXCEPT ![t] = Told'[t]]
  <2>1. Stage[t] = "called" /\ Stage'[t] = "served"
    BY <1>1 DEF Stage
  <2> QED BY <1>1, <1>2, <2>1, Mapped
<1>4. /\ request[t].op = "create" => Told'[t] = Store!Opened(request[t].value)
      /\ request[t].op # "create" => Told'[t] = answer'[t]
  BY <1>1 DEF Stage, Told, Store!Opened
<1> USE DEF Store!Serve, Store!Updates, Store!Answers, ids
<1>5. CASE Insert(t)
  BY <1>1, <1>3, <1>4, <1>5 DEF Insert, Sets
<1>6. CASE Missing(t)
  <2>1. answer'[t] = Absent
    BY <1>6 DEF Missing, Inv, TypeOK
  <2> QED BY <1>1, <1>3, <1>4, <1>6, <2>1 DEF Missing
<1>7. CASE CopyEvents(t)
  <2>1. answer'[t] = Session(t) /\ request[t].op = "get"
    BY <1>7, CopiedWhole DEF CopyEvents, Inv, TypeOK
  <2> QED BY <1>1, <1>3, <1>4, <1>7, <2>1 DEF CopyEvents
<1>8. CASE Change(t)
  <2>1. answer'[t] = Accepted /\ Session(t) # Absent
    BY <1>8 DEF Change, Inv, TypeOK, Undisturbed
  <2>2. CASE request[t].op = "put"
    BY <1>1, <1>3, <1>4, <1>8, <2>1, <2>2 DEF Change, Sets
  <2>3. CASE request[t].op = "event"
    BY <1>1, <1>3, <1>4, <1>8, <2>1, <2>3 DEF Change, Sets
  <2> QED BY <1>8, <2>2, <2>3 DEF Change
<1>9. CASE Delete(t)
  <2>1. answer'[t] = Accepted
    BY <1>9 DEF Delete, Inv, TypeOK
  <2> QED BY <1>1, <1>3, <1>4, <1>9, <2>1 DEF Delete, Sets
<1> QED BY <1>5, <1>6, <1>7, <1>8, <1>9

LEMMA ReturnStep ==
  ASSUME Inv, NEW t \in Threads, Reply(t) \/ Lose(t) \/ (CopyFails(t) /\ at[t] = "copyOut")
  PROVE  Store!Return(t)
<1>1. /\ at[t] \in {"reply", "copyOut"} /\ at' = [at EXCEPT ![t] = "idle"] /\ at'[t] = "idle"
      /\ UNCHANGED <<request, answer, sessions, issued>>
  BY DEF Reply, Lose, CopyFails, ids, Inv, TypeOK
<1>2. Stage[t] = "served" /\ Stage'[t] = "idle" /\ Told'[t] = Absent
  BY <1>1 DEF Stage, Told
<1>3. Stage' = [Stage EXCEPT ![t] = "idle"] /\ Told' = [Told EXCEPT ![t] = Absent]
  BY <1>1, <1>2, Mapped
<1> QED BY <1>1, <1>2, <1>3 DEF Store!Return, Store!Answers, Reply, Lose, CopyFails, ids

LEMMA FailStep ==
  ASSUME Inv, NEW t \in Threads, CopyFails(t), at[t] # "copyOut"
  PROVE  Store!Fail(t)
<1>1. /\ at[t] \in {"lock", "reading", "writing"} /\ at' = [at EXCEPT ![t] = "idle"]
      /\ at'[t] = "idle" /\ UNCHANGED <<request, answer, sessions, ids>>
  BY DEF CopyFails, Inv, TypeOK
<1>2. Stage[t] = "called" /\ Stage'[t] = "idle" /\ Told[t] = Absent /\ Told'[t] = Absent
  BY <1>1 DEF Stage, Told
<1>3. Stage' = [Stage EXCEPT ![t] = "idle"] /\ Told' = Told
  BY <1>1, <1>2, Mapped DEF Told
<1> QED BY <1>1, <1>2, <1>3 DEF Store!Fail, ids

LEMMA HiddenStep ==
  ASSUME Inv, NEW t \in Threads,
         Acquire(t) \/ CopyObservations(t) \/ Found(t) \/ Unlock(t) \/ CopyOut(t)
  PROVE  UNCHANGED Store!table
<1>1. at \in [Threads -> {"idle", "lock", "copyOut", "reply"} \cup Inside]
  BY DEF Inv, TypeOK
<1>2. CASE Acquire(t)
  BY <1>1, <1>2, Hidden DEF Acquire, Stage, Told
<1>3. CASE CopyObservations(t)
  BY <1>1, <1>3, Hidden DEF CopyObservations, Stage, Told
<1>4. CASE Found(t)
  BY <1>1, <1>4, Hidden DEF Found, Stage, Told
<1>5. CASE Unlock(t)
  BY <1>1, <1>5, Hidden DEF Unlock, Stage, Told
<1>6. CASE CopyOut(t)
  <2>1. answer'[t] = Told[t] /\ Told'[t] = answer'[t]
    BY <1>1, <1>6, CreatedWhole DEF CopyOut, Stage, Told, Inv, TypeOK, Store!Opened
  <2>2. \A u \in Threads \ {t} : answer'[u] = answer[u]
    BY <1>6 DEF CopyOut, Inv, TypeOK
  <2> QED BY <1>1, <1>6, <2>1, <2>2, Hidden DEF CopyOut, Stage
<1> QED BY <1>2, <1>3, <1>4, <1>5, <1>6

LEMMA StoreStep == Inv /\ [Next]_vars => [Store!Next]_(Store!table)
<1> SUFFICES ASSUME Inv, [Next]_vars PROVE [Store!Next]_(Store!table)
  OBVIOUS
<1>1. ASSUME NEW t \in Threads, NEW r \in Store!Requests, Accept(t, r)
      PROVE  [Store!Next]_(Store!table)
  BY <1>1, CallStep DEF Store!Next
<1>2. ASSUME NEW t \in Threads, Acquire(t) \/ Handle(t) \/ CopyFails(t)
      PROVE  [Store!Next]_(Store!table)
  BY <1>2, ServeStep, ReturnStep, FailStep, HiddenStep DEF Store!Next, Handle
<1>3. CASE Close \/ UNCHANGED vars
  BY <1>3 DEF Close, vars, thread, ids, Store!table, Stage, Told
<1> QED BY <1>1, <1>2, <1>3 DEF Next, Quiet

\* The server implements the atomic store: every request takes effect at once,
\* for any number of threads, sessions and requests.
THEOREM StoreImplemented == Spec => ImplementsStore
<1>1. Init => Store!Init
  BY DEF Init, Store!Init, Stage, Told
<1> QED BY <1>1, Invariance, StoreStep, PTL DEF Spec, ImplementsStore, Store!Spec
====
