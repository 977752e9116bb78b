------------------------------ MODULE TaskLife ------------------------------
(***************************************************************************)
(* What the task authority promises, without records, events, sessions'    *)
(* memories or transactions: a task is accepted once, is taken up by       *)
(* sessions while it is open, and ends once, for good.  Accepting a task   *)
(* may end other tasks in the same step, or write of those that ended.     *)
(* How a task ended is a record and an event: each may be missing or come  *)
(* late, but is written only once.                                         *)
(***************************************************************************)
CONSTANTS Tasks, Sessions, None

VARIABLES life,   \* life[t]: where task t stands
          takers, \* the sessions that may speak for each task
          record, \* record[t] and event[t]: what is written of the end of t,
          event   \* None while it is not

lifeVars == <<life, takers, record, event>>

Lives == {"absent", "open", "ended"}

LifeTypeOK == life \in [Tasks -> Lives] /\ takers \subseteq Tasks \X Sessions

Init ==
    /\ life = [t \in Tasks |-> "absent"]
    /\ takers = {}
    /\ record = [t \in Tasks |-> None]
    /\ event = [t \in Tasks |-> None]

\* Of the tasks in T, what was not written yet may be written now.
MayWrite(T) ==
    /\ record' = [t \in Tasks |-> IF t \in T /\ record[t] = None THEN record'[t] ELSE record[t]]
    /\ event' = [t \in Tasks |-> IF t \in T /\ event[t] = None THEN event'[t] ELSE event[t]]

Accept(s, t) ==
    /\ life[t] = "absent"
    /\ \E ending \in SUBSET {u \in Tasks : life[u] = "open"} :
          life' = [u \in Tasks |-> IF u = t THEN "open"
                                   ELSE IF u \in ending THEN "ended" ELSE life[u]]
    /\ MayWrite({u \in Tasks : life'[u] = "ended"})
    /\ takers' = takers \cup {<<t, s>>}

TakeUp(s, t) ==
    /\ life[t] = "open"
    /\ takers' = takers \cup {<<t, s>>}
    /\ UNCHANGED <<life, record, event>>

End(t) ==
    /\ life[t] = "open"
    /\ life' = [life EXCEPT ![t] = "ended"]
    /\ MayWrite({t})
    /\ UNCHANGED takers

\* What the end left unwritten.
Conclude(t) ==
    /\ life[t] = "ended"
    /\ MayWrite({t})
    /\ UNCHANGED <<life, takers>>

Next == \E t \in Tasks : \/ \E s \in Sessions : Accept(s, t) \/ TakeUp(s, t)
                         \/ End(t) \/ Conclude(t)

Spec == Init /\ [][Next]_lifeVars
=============================================================================
