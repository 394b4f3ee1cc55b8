---- MODULE FixtureStore ----
(***************************************************************************)
(* What the fixture session server promises its clients: each request      *)
(* takes effect at one moment between its arrival and its answer, on a     *)
(* store of sessions whose baseline never changes, or none at all when it  *)
(* fails.  An answer may be lost on the way.                               *)
(***************************************************************************)
EXTENDS Sequences

CONSTANTS
    Threads,  \* requests that may be in progress at once
    RunIds,   \* run ids
    Values,   \* observations and events
    Absent,   \* no session; the answer 404
    Accepted  \* the answer to a request that changed a session

Evidence == [baseline : Values, observations : Values, events : Seq(Values)]

Opened(value) == [baseline |-> value, observations |-> value, events |-> <<>>]

Requests == [op : {"create", "get", "put", "event", "delete"}, id : RunIds, value : Values]

VARIABLES
    store,   \* the evidence of each run id, or Absent
    stage,   \* of each request: "idle", "called", "served"
    asked,   \* what was asked last
    told,    \* the answer of a request that has been served
    issued,  \* run ids drawn for a session
    known    \* run ids a client has been told

table == <<store, stage, asked, told, issued, known>>

Init ==
    /\ store = [id \in RunIds |-> Absent]
    /\ stage = [t \in Threads |-> "idle"]
    /\ asked \in [Threads -> Requests]
    /\ told = [t \in Threads |-> Absent]
    /\ issued = {} /\ known = {}

\* a session gets a run id of its own; a client asks for sessions it knows
Call(t, r) ==
    /\ stage[t] = "idle" /\ stage' = [stage EXCEPT ![t] = "called"]
    /\ asked' = [asked EXCEPT ![t] = r]
    /\ IF r.op = "create" THEN r.id \notin issued /\ issued' = issued \cup {r.id}
       ELSE r.id \in known /\ UNCHANGED issued
    /\ UNCHANGED <<store, told, known>>

Answers(t, answer) == told' = [told EXCEPT ![t] = answer]

Updates(t, evidence) == store' = [store EXCEPT ![asked[t].id] = evidence]

Serve(t) ==
    LET r == asked[t]
        session == store[r.id]
    IN /\ stage[t] = "called" /\ stage' = [stage EXCEPT ![t] = "served"]
       /\ \/ r.op = "create" /\ Updates(t, Opened(r.value)) /\ Answers(t, Opened(r.value))
          \/ r.op # "create" /\ session = Absent /\ Answers(t, Absent) /\ UNCHANGED store
          \/ r.op = "get" /\ session # Absent /\ Answers(t, session) /\ UNCHANGED store
          \/ /\ r.op = "put" /\ session # Absent /\ Answers(t, Accepted)
             /\ Updates(t, [session EXCEPT !.observations = r.value])
          \/ /\ r.op = "event" /\ session # Absent /\ Answers(t, Accepted)
             /\ Updates(t, [session EXCEPT !.events = Append(session.events, r.value)])
          \/ r.op = "delete" /\ session # Absent /\ Answers(t, Accepted) /\ Updates(t, Absent)
       /\ UNCHANGED <<asked, issued, known>>

\* a request ends with an exception and has no effect
Fail(t) ==
    /\ stage[t] = "called" /\ stage' = [stage EXCEPT ![t] = "idle"]
    /\ UNCHANGED <<store, asked, told, issued, known>>

\* the answer arrives, or it is lost or was never sent
Return(t) ==
    /\ stage[t] = "served" /\ stage' = [stage EXCEPT ![t] = "idle"] /\ Answers(t, Absent)
    /\ known' \in {known, IF asked[t].op = "create" THEN known \cup {asked[t].id} ELSE known}
    /\ UNCHANGED <<store, asked, issued>>

Next ==
    \E t \in Threads : (\E r \in Requests : Call(t, r)) \/ Serve(t) \/ Fail(t) \/ Return(t)

Spec == Init /\ [][Next]_table
====
