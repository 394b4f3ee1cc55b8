---- MODULE FixtureServer ----
(***************************************************************************)
(* The loopback fixture session server: ThreadingHTTPServer gives every    *)
(* request a handler thread, and the handlers share a FixtureSessionStore  *)
(* whose operations hold its lock.  What happens under the lock takes      *)
(* several steps; create draws the run id before and copies after it.      *)
(***************************************************************************)
EXTENDS Naturals, Sequences

CONSTANTS
    Threads,     \* handler threads that may run at once
    RunIds,      \* the run ids uuid4 draws from
    Values,      \* observations and events a client may send
    Absent,      \* no session; the answer 404
    Accepted,    \* the answer to a request that changed a session
    MaxRequests  \* bound: requests accepted

VARIABLES
    at,        \* where each handler thread is
    request,   \* the request it handles
    copy,      \* what it has copied of a session's evidence
    answer,    \* what it sends
    lock,      \* the holder of _lock, in a set
    sessions,  \* _sessions, Absent for a key that is not in it
    issued,    \* run ids drawn
    known,     \* run ids a client has been told
    accepted,  \* requests so far
    serving    \* serve_forever is running

\* A request has taken effect when its thread is about to release the lock; from
\* then on the answer to a create is settled, though not yet copied.
Stage ==
    [t \in Threads |->
       IF at[t] = "idle" THEN "idle"
       ELSE IF at[t] \in {"unlock", "copyOut", "reply"} THEN "served" ELSE "called"]
Told ==
    [t \in Threads |->
       IF Stage[t] # "served" THEN Absent
       ELSE IF at[t] \in {"unlock", "copyOut"} /\ request[t].op = "create"
       THEN [baseline |-> request[t].value, observations |-> request[t].value, events |-> <<>>]
       ELSE answer[t]]

Store == INSTANCE FixtureStore
           WITH store <- sessions, stage <- Stage, asked <- request, told <- Told

ASSUME AnswersAssumption ==
    Absent \notin Store!Evidence /\ Accepted \notin Store!Evidence /\ Absent # Accepted
ASSUME BoundAssumption == MaxRequests \in Nat

thread == <<at, request, copy, answer>>
ids == <<issued, known>>
vars == <<thread, lock, sessions, ids, accepted, serving>>

Inside == {"held", "reading", "writing", "unlock"}

TypeOK ==
    /\ at \in [Threads -> {"idle", "lock", "copyOut", "reply"} \cup Inside]
    /\ request \in [Threads -> Store!Requests]
    /\ copy \in [Threads -> Store!Evidence \cup {Absent}]
    /\ answer \in [Threads -> Store!Evidence \cup {Absent, Accepted}]
    /\ lock \in {{}} \cup {{t} : t \in Threads}
    /\ sessions \in [RunIds -> Store!Evidence \cup {Absent}]
    /\ issued \subseteq RunIds /\ known \subseteq issued
    /\ accepted \in 0 .. MaxRequests
    /\ serving \in {"yes", "no"}

Init ==
    /\ at = [t \in Threads |-> "idle"]
    /\ \E r \in Store!Requests : request = [t \in Threads |-> r]
    /\ copy = [t \in Threads |-> Absent]
    /\ answer = [t \in Threads |-> Absent]
    /\ lock = {} /\ sessions = [id \in RunIds |-> Absent]
    /\ issued = {} /\ known = {} /\ accepted = 0 /\ serving = "yes"

-----------------------------------------------------------------------------

Moves(t, from, to) == at[t] = from /\ at' = [at EXCEPT ![t] = to]
Session(t) == sessions[request[t].id]
Sets(t, evidence) == sessions' = [sessions EXCEPT ![request[t].id] = evidence]

\* a connection is accepted, its request read and parsed; create draws a run id
Accept(t, r) ==
    /\ serving = "yes" /\ accepted < MaxRequests /\ accepted' = accepted + 1
    /\ Moves(t, "idle", "lock") /\ request' = [request EXCEPT ![t] = r]
    /\ IF r.op = "create" THEN r.id \notin issued /\ issued' = issued \cup {r.id}
       ELSE r.id \in known /\ UNCHANGED issued
    /\ UNCHANGED <<copy, answer, lock, sessions, known, serving>>

\* variant: the lock is not waited for
Barge(t) ==
    /\ Moves(t, "lock", "held") /\ lock' = lock \cup {t}
    /\ UNCHANGED <<request, copy, answer, sessions, ids, accepted, serving>>

Acquire(t) ==
    /\ Moves(t, "lock", "held") /\ lock = {} /\ lock' = {t}
    /\ UNCHANGED <<request, copy, answer, sessions, ids, accepted, serving>>

Insert(t) ==
    /\ Moves(t, "held", "unlock") /\ request[t].op = "create"
    /\ Sets(t, Store!Opened(request[t].value))
    /\ UNCHANGED <<request, copy, answer, lock, ids, accepted, serving>>

\* variant: an early return that keeps the lock
MissingKeepsLock(t) ==
    /\ Moves(t, "held", "reply") /\ request[t].op # "create" /\ Session(t) = Absent
    /\ answer' = [answer EXCEPT ![t] = Absent]
    /\ UNCHANGED <<request, copy, lock, sessions, ids, accepted, serving>>

Missing(t) ==
    /\ Moves(t, "held", "unlock") /\ request[t].op # "create" /\ Session(t) = Absent
    /\ answer' = [answer EXCEPT ![t] = Absent]
    /\ UNCHANGED <<request, copy, lock, sessions, ids, accepted, serving>>

\* variant: get looks the session up under the lock and copies it outside
CopyUnlocked(t) ==
    /\ Moves(t, "held", "reading") /\ request[t].op = "get" /\ Session(t) # Absent
    /\ copy' = [copy EXCEPT ![t] = [Session(t) EXCEPT !.events = <<>>]]
    /\ lock' = {}
    /\ UNCHANGED <<request, answer, sessions, ids, accepted, serving>>

\* deepcopy goes through the keys in the order they were set
CopyObservations(t) ==
    /\ Moves(t, "held", "reading") /\ request[t].op = "get" /\ Session(t) # Absent
    /\ copy' = [copy EXCEPT ![t] = [Session(t) EXCEPT !.events = <<>>]]
    /\ UNCHANGED <<request, answer, lock, sessions, ids, accepted, serving>>

CopyEvents(t) ==
    /\ Moves(t, "reading", "unlock") /\ Session(t) # Absent
    /\ answer' = [answer EXCEPT ![t] = [copy[t] EXCEPT !.events = Session(t).events]]
    /\ UNCHANGED <<request, copy, lock, sessions, ids, accepted, serving>>

\* the membership test that comes before a change
Found(t) ==
    /\ Moves(t, "held", "writing") /\ request[t].op \in {"put", "event"} /\ Session(t) # Absent
    /\ UNCHANGED <<request, copy, answer, lock, sessions, ids, accepted, serving>>

Change(t) ==
    /\ Moves(t, "writing", "unlock")
    /\ \/ /\ request[t].op = "put"
          /\ Sets(t, [Session(t) EXCEPT !.observations = request[t].value])
       \/ /\ request[t].op = "event"
          /\ Sets(t, [Session(t) EXCEPT !.events = Append(Session(t).events, request[t].value)])
    /\ answer' = [answer EXCEPT ![t] = Accepted]
    /\ UNCHANGED <<request, copy, lock, ids, accepted, serving>>

Delete(t) ==
    /\ Moves(t, "held", "unlock") /\ request[t].op = "delete" /\ Session(t) # Absent
    /\ Sets(t, Absent) /\ answer' = [answer EXCEPT ![t] = Accepted]
    /\ UNCHANGED <<request, copy, lock, ids, accepted, serving>>

Unlock(t) ==
    /\ Moves(t, "unlock", IF request[t].op = "create" THEN "copyOut" ELSE "reply")
    /\ lock' = {}
    /\ UNCHANGED <<request, copy, answer, sessions, ids, accepted, serving>>

\* create copies what it has inserted when it no longer holds the lock
CopyOut(t) ==
    /\ Moves(t, "copyOut", "reply") /\ answer' = [answer EXCEPT ![t] = Session(t)]
    /\ UNCHANGED <<request, copy, lock, sessions, ids, accepted, serving>>

\* deepcopy raises, on a value nested too deep: before create takes the lock, after it
\* has released it, or under the lock, which is released; the client gets no answer
CopyFails(t) ==
    /\ at[t] \in {"reading", "writing", "copyOut"} \/ (at[t] = "lock" /\ request[t].op = "create")
    /\ at' = [at EXCEPT ![t] = "idle"] /\ lock' = lock \ {t}
    /\ UNCHANGED <<request, copy, answer, sessions, ids, accepted, serving>>

Reply(t) ==
    /\ Moves(t, "reply", "idle")
    /\ known' = IF request[t].op = "create" THEN known \cup {request[t].id} ELSE known
    /\ UNCHANGED <<request, copy, answer, lock, sessions, issued, accepted, serving>>

\* the client is gone
Lose(t) ==
    /\ Moves(t, "reply", "idle")
    /\ UNCHANGED <<request, copy, answer, lock, sessions, ids, accepted, serving>>

\* FixtureServerHandle.close; handler threads are daemons and go on
Close ==
    /\ serving = "yes" /\ serving' = "no"
    /\ UNCHANGED <<thread, lock, sessions, ids, accepted>>

Handle(t) == \/ Insert(t) \/ Missing(t) \/ CopyObservations(t) \/ CopyEvents(t) \/ Found(t)
             \/ Change(t) \/ Delete(t) \/ Unlock(t) \/ CopyOut(t) \/ Reply(t) \/ Lose(t)

\* no request is in progress and no more come
Quiet ==
    /\ \A t \in Threads : at[t] = "idle"
    /\ serving = "no" \/ accepted = MaxRequests
    /\ UNCHANGED vars

Next ==
    \/ \E t \in Threads : (\E r \in Store!Requests : Accept(t, r)) \/ Acquire(t) \/ Handle(t) \/ CopyFails(t)
    \/ Close \/ Quiet

Spec == Init /\ [][Next]_vars

\* threads run, and one of those that wait for a free lock gets it
FairSpec ==
    Spec /\ \A t \in Threads : WF_vars(Handle(t)) /\ WF_vars(Acquire(t))

-----------------------------------------------------------------------------
(* Properties.                                                             *)

\* Every request takes effect at one moment: evidence is read whole, a session
\* that is deleted is not written, and create answers with what it inserted
\* although it copies that without the lock (FixtureSessionStore:21-63).
ImplementsStore == Store!Spec

\* No request waits for ever for the lock, whatever the others in progress ask and
\* wherever a copy raises (every path through FixtureSessionStore releases it).
RequestsEnd == \A t \in Threads : at[t] = "lock" ~> at[t] \in {"reply", "idle"}
====
