---------------------------- MODULE TaskAuthority ----------------------------
(***************************************************************************)
(* The durable authority of accepted tasks: codebase/_task_authority.py    *)
(* with the terminal records of codebase/_task_execution.py, the learning  *)
(* obligations of codebase/structured_learning_context.py and the closing  *)
(* of a task in _dispatcher/_post_dispatch.py and _safe_stop.py.           *)
(*                                                                         *)
(* Sessions are identities: a process gets a new one when it starts and on *)
(* new_session.  Sessions share one database; each operation is a sequence *)
(* of transactions, between which other sessions run, the process may end, *)
(* or a transaction may give up on a locked database.  Records and events  *)
(* are immutable: each is written once or refused.                         *)
(*                                                                         *)
(* A task's content, its owner and its repository appear only where an     *)
(* operation turns on them: whether an accepted record can be restored     *)
(* (the repository may have changed) and whether an assessment repeats the *)
(* retained one are left open.  Sessions are bound to a route, so a new    *)
(* process remembers no task; the restrictions of prior_learn_debt, which  *)
(* only narrow what one process may do, are left out.                      *)
(***************************************************************************)
EXTENDS Integers

CONSTANTS
    Tasks,      \* task windows, of one owner
    Sessions,   \* session identities
    ReadOnly,   \* the tasks accepted in execution mode read_only
    Producers,  \* the tasks that may stop unassessed, before a workflow's candidate
    Stops,      \* the statuses safe_stop is used with
    MaxCycles,  \* bound: learning obligations of one task
    None        \* nothing yet

ASSUME TasksAssumption == ReadOnly \subseteq Tasks /\ Producers \subseteq Tasks
ASSUME NoneAssumption == None \notin Tasks \cup Sessions
ASSUME CyclesAssumption == MaxCycles \in Nat
ASSUME StopsAssumption == Stops \subseteq {"blocked", "failed"}

VARIABLES
    accepted,  \* accepted[t]: the session whose acceptance was persisted
    lineage,   \* the rebind receipts: a session that took up a task
    closed,    \* closed[t]: the terminal status of the closed event
    terminal,  \* terminal[t]: the terminal record
    owed,      \* owed[t]: the learning obligations of t
    session,   \* session[s]: what the process knows
    step       \* step[s]: the operation in progress

vars == <<accepted, lineage, closed, terminal, owed, session, step>>

Statuses == {"completed"} \cup Stops
Closures == Statuses \cup {"superseded", "abandoned"}

\* Of a terminal record: how the task ended, and the session whose record it is.
Records  == [status: Statuses, by: Sessions]

ASSUME NothingAssumption == None \notin Closures \cup Records

\* The current cycle of obligations, numbered, and whether it is active or assessed.
Obligations == [cycle: 0..MaxCycles, active: BOOLEAN]

\* held: the session's window is its accepted task, not a remembered one;
\* gate: the latest gate since the task was taken up passed; finished: the session
\* saw its task closed as completed (terminal_status).
Memories == [life: {"live", "over"}, window: Tasks \cup {None}, held: BOOLEAN,
             gate: BOOLEAN, finished: BOOLEAN]

Places == {"idle", "accepting", "recording", "discarding", "activating", "assessing",
           "inspecting", "persisting", "closing"}
Aims   == {"gate", "assess"}
Steps  == [at: Places, task: Tasks \cup {None}, aim: Aims \cup Statuses \cup {None},
           cycle: 0..MaxCycles]

Operation(place, t, aim) == [at |-> place, task |-> t, aim |-> aim, cycle |-> 0]
Idle == Operation("idle", None, None)

-----------------------------------------------------------------------------
(* Reading.                                                                *)

Ready(s)     == session[s].life = "live" /\ step[s].at = "idle"
At(s, place) == step[s].at = place
Go(s, place) == step' = [step EXCEPT ![s].at = place]
Done(s)      == step' = [step EXCEPT ![s] = Idle]

Open(t)  == accepted[t] # None /\ closed[t] = None
Owes(t)  == owed[t].active
Assessed(t) == IF Owes(t) THEN owed[t].cycle > 1 ELSE owed[t].cycle > 0

\* verified_task_session: the accepting session, or one with a receipt of its rebind.
Verified(t, s) == accepted[t] = s \/ <<t, s>> \in lineage

Stored == <<accepted, lineage, closed, terminal, owed>>

-----------------------------------------------------------------------------
(* Sessions.                                                               *)

Forgotten(life) == [life |-> life, window |-> None, held |-> FALSE, gate |-> FALSE,
                    finished |-> FALSE]
Holding(s, t)   == [session[s] EXCEPT !.window = t, !.held = TRUE, !.gate = FALSE,
                               !.finished = FALSE]

\* new_session: the same process goes on under a fresh identity; its window stays,
\* its task does not.
NewSession(s, n) ==
    /\ Ready(s) /\ session[s].window # None
    /\ Ready(n) /\ session[n] = Forgotten("live")
    /\ ~Owes(session[s].window)
    /\ session' = [session EXCEPT ![s] = Forgotten("over"), ![n].window = session[s].window]
    /\ UNCHANGED <<Stored, step>>

\* The process ends, between two transactions of its operation or while idle.
Crash(s) ==
    /\ session[s].life = "live"
    /\ session' = [session EXCEPT ![s] = Forgotten("over")]
    /\ Done(s)
    /\ UNCHANGED Stored

\* A read or a transaction of the operation fails; what is committed stays.
GiveUp(s) ==
    /\ step[s].at # "idle"
    /\ Done(s)
    /\ UNCHANGED <<Stored, session>>

-----------------------------------------------------------------------------
(* Accepting a task.                                                       *)

\* The debt of the present window is read before the action is dispatched.
BeginAccept(s, t) ==
    /\ Ready(s)
    /\ accepted[t] = None /\ \A o \in Sessions : step[o].task # t
    /\ session[s].window # None => ~Owes(session[s].window)
    /\ step' = [step EXCEPT ![s] = Operation("accepting", t, None)]
    /\ UNCHANGED <<Stored, session>>

\* persist_accepted_task: the record, and the closing of the window it replaces.
CommitAccept(s) ==
    LET t     == step[s].task
        prior == session[s].window
    IN  /\ At(s, "accepting")
        /\ accepted' = [accepted EXCEPT ![t] = s]
        /\ closed' = [u \in Tasks |-> IF u = prior /\ Open(u) THEN "superseded" ELSE closed[u]]
        /\ session' = [session EXCEPT ![s] = Holding(s, t)]
        /\ Done(s)
        /\ UNCHANGED <<lineage, terminal, owed>>

-----------------------------------------------------------------------------
(* Taking a task up again, and abandoning one that cannot be.              *)

\* The open tasks are read, terminal records first: once either says a task has
\* ended it stays so, and the two reads are one.  The record is then restored, which
\* may fail as the repository changes (GiveUp), and the rebound event is appended.
BeginRebind(s, t) ==
    /\ Ready(s)
    /\ Open(t) /\ terminal[t] = None
    /\ step' = [step EXCEPT ![s] = Operation("recording", t, None)]
    /\ UNCHANGED <<Stored, session>>

\* Of another session's task, when restoring it fails now.
BeginAbandon(s, t) ==
    /\ Ready(s)
    /\ ~(session[s].held /\ session[s].window = t)
    /\ Open(t) /\ terminal[t] = None
    /\ step' = [step EXCEPT ![s] = Operation("discarding", t, None)]
    /\ UNCHANGED <<Stored, session>>

\* Seeded fault: the terminal records are not looked at again.
MayTakeUpUnended(t) == closed[t] = None

\* _record_rebind_session: a task that ended meanwhile is refused, and the session
\* keeps what it had.
MayTakeUp(t) == closed[t] = None /\ terminal[t] = None

\* Seeded fault: a refused rebind leaves the session with the task it had restored.
RecordSessionRestored(s) ==
    LET t == step[s].task
    IN  /\ At(s, "recording")
        /\ lineage' = IF MayTakeUp(t) THEN lineage \cup {<<t, s>>} ELSE lineage
        /\ session' = [session EXCEPT ![s] = Holding(s, t)]
        /\ Done(s)
        /\ UNCHANGED <<accepted, closed, terminal, owed>>

RecordSession(s) ==
    LET t == step[s].task
    IN  /\ At(s, "recording")
        /\ IF MayTakeUp(t)
           THEN /\ lineage' = lineage \cup {<<t, s>>}
                /\ session' = [session EXCEPT ![s] = Holding(s, t)]
           ELSE UNCHANGED <<lineage, session>>
        /\ Done(s)
        /\ UNCHANGED <<accepted, closed, terminal, owed>>

\* A closed event that is already there stays as it is.
Discard(s) ==
    LET t == step[s].task
    IN  /\ At(s, "discarding")
        /\ closed' = [closed EXCEPT ![t] = IF closed[t] = None THEN "abandoned" ELSE closed[t]]
        /\ Done(s)
        /\ UNCHANGED <<accepted, lineage, terminal, owed, session>>

-----------------------------------------------------------------------------
(* Learning obligations.                                                   *)

\* What the operation does once the task has an active obligation, numbered c.
Proceed(s, t, aim, c) ==
    /\ session' = [session EXCEPT ![s].gate = @ \/ aim = "gate"]
    /\ IF aim = "assess"
       THEN step' = [step EXCEPT ![s] = [at |-> "assessing", task |-> t, aim |-> aim, cycle |-> c]]
       ELSE Done(s)

\* A passing gate and an assessment each ensure an active obligation; a capture does
\* what an assessment does up to there.
BeginLearning(s, aim) ==
    LET t == session[s].window
    IN  /\ Ready(s) /\ t # None
        /\ aim = "gate" => session[s].held
        /\ IF Owes(t)
           THEN Proceed(s, t, aim, owed[t].cycle)
           ELSE /\ step' = [step EXCEPT ![s] = Operation("activating", t, aim)]
                /\ UNCHANGED session
        /\ UNCHANGED Stored

\* The insertion of a second active obligation is refused by the unique index.
Activate(s) ==
    LET t == step[s].task
    IN  /\ At(s, "activating")
        /\ IF Owes(t)
           THEN Done(s) /\ UNCHANGED <<owed, session>>
           ELSE /\ owed[t].cycle < MaxCycles
                /\ owed' = [owed EXCEPT ![t] = [cycle |-> @.cycle + 1, active |-> TRUE]]
                /\ Proceed(s, t, step[s].aim, owed[t].cycle + 1)
        /\ UNCHANGED <<accepted, lineage, closed, terminal>>

\* A gate that does not pass replaces the verdict of the one before.
FailGate(s) ==
    /\ Ready(s) /\ session[s].held /\ session[s].gate
    /\ session' = [session EXCEPT ![s].gate = FALSE]
    /\ UNCHANGED <<Stored, step>>

\* Seeded fault: the terminal status is what the operation was called with.
ConcludeAsCalled(s, t) ==
    \/ /\ session[s].held
       /\ session[s].gate \/ t \in ReadOnly
       /\ step' = [step EXCEPT ![s].at = "inspecting", ![s].task = t]
    \/ /\ ~(session[s].held /\ session[s].gate)
       /\ Done(s)

\* After an assessment: the task the session holds is complete when its latest gate
\* passed, or when it is read-only and no file was changed.
Conclude(s, t) ==
    \/ /\ session[s].held
       /\ session[s].gate \/ t \in ReadOnly
       /\ step' = [step EXCEPT ![s] = Operation("inspecting", t, "completed")]
    \/ /\ ~(session[s].held /\ session[s].gate)
       /\ Done(s)

\* An obligation another session assessed is repeated, or refused as a conflict.
Assess(s) ==
    LET t == step[s].task
    IN  /\ At(s, "assessing")
        /\ \/ /\ owed[t].active /\ owed[t].cycle = step[s].cycle
              /\ owed' = [owed EXCEPT ![t].active = FALSE]
              /\ Conclude(s, t)
           \/ /\ ~(owed[t].active /\ owed[t].cycle = step[s].cycle)
              /\ Conclude(s, t) \/ Done(s)
              /\ UNCHANGED owed
        /\ UNCHANGED <<accepted, lineage, closed, terminal, session>>

\* Seeded fault: the latest obligation is repeated, assessed or not.
RepeatUnassessed(s) ==
    LET t == session[s].window
    IN  /\ Ready(s) /\ t # None
        /\ owed[t].cycle > 0
        /\ Conclude(s, t)
        /\ UNCHANGED <<Stored, session>>

\* assess with retry_latest: the latest assessment is repeated.
Repeat(s) ==
    LET t == session[s].window
    IN  /\ Ready(s) /\ t # None
        /\ ~Owes(t) /\ owed[t].cycle > 0
        /\ Conclude(s, t)
        /\ UNCHANGED <<Stored, session>>

-----------------------------------------------------------------------------
(* Ending a task.                                                          *)

\* safe_stop_task: what it checks.
StopAllowed(s) ==
    LET t == session[s].window
    IN  /\ ~session[s].finished /\ ~session[s].gate
        /\ ~Owes(t)
        /\ owed[t].cycle > 0 \/ t \in ReadOnly \cup Producers

SafeStop(s, status) ==
    /\ Ready(s) /\ session[s].held
    /\ StopAllowed(s)
    /\ step' = [step EXCEPT ![s] = Operation("inspecting", session[s].window, status)]
    /\ UNCHANGED <<Stored, session>>

\* _persist_terminal_task_if_ready: a terminal record that is there is kept.
Inspect(s) ==
    /\ At(s, "inspecting")
    /\ Go(s, IF terminal[step[s].task] = None THEN "persisting" ELSE "closing")
    /\ UNCHANGED <<Stored, session>>

\* persist_terminal_record: a record another session wrote meanwhile differs.
MayPersist(t) == terminal[t] = None

Persist(s) ==
    LET t == step[s].task
    IN  /\ At(s, "persisting")
        /\ IF MayPersist(t)
           THEN /\ terminal' = [terminal EXCEPT ![t] = [status |-> step[s].aim, by |-> s]]
                /\ Go(s, "closing")
           ELSE Done(s) /\ UNCHANGED terminal
        /\ UNCHANGED <<accepted, lineage, closed, owed, session>>

\* close_accepted_task: the closed event carries the status of this operation; an
\* event with another one is a conflict.  A completed record settles the session.
Close(s) ==
    LET t == step[s].task
    IN  /\ At(s, "closing")
        /\ IF closed[t] \in {None, step[s].aim}
           THEN /\ closed' = [closed EXCEPT ![t] = step[s].aim]
                /\ session' = [session EXCEPT ![s].finished =
                                  @ \/ terminal[t].status = "completed"]
           ELSE UNCHANGED <<closed, session>>
        /\ Done(s)
        /\ UNCHANGED <<accepted, lineage, terminal, owed>>

-----------------------------------------------------------------------------
Init ==
    /\ accepted = [t \in Tasks |-> None]
    /\ lineage = {}
    /\ closed = [t \in Tasks |-> None]
    /\ terminal = [t \in Tasks |-> None]
    /\ owed = [t \in Tasks |-> [cycle |-> 0, active |-> FALSE]]
    /\ session = [s \in Sessions |-> Forgotten("live")]
    /\ step = [s \in Sessions |-> Idle]

Lifetime(s) == Crash(s) \/ GiveUp(s) \/ \E n \in Sessions : NewSession(s, n)
Accepts(s)  == (\E t \in Tasks : BeginAccept(s, t)) \/ CommitAccept(s)
Rebinds(s)  == (\E t \in Tasks : BeginRebind(s, t)) \/ RecordSession(s)
Abandons(s) == (\E t \in Tasks : BeginAbandon(s, t)) \/ Discard(s)
Learns(s)   == \/ \E aim \in Aims : BeginLearning(s, aim)
               \/ Activate(s) \/ FailGate(s) \/ Assess(s) \/ Repeat(s)
Ends(s)     == \/ \E status \in Stops : SafeStop(s, status)
               \/ Inspect(s) \/ Persist(s) \/ Close(s)

Next == \E s \in Sessions :
            Lifetime(s) \/ Accepts(s) \/ Rebinds(s) \/ Abandons(s) \/ Learns(s) \/ Ends(s)

Spec == Init /\ [][Next]_vars

-----------------------------------------------------------------------------
(* Properties.                                                             *)

\* The records, the events and what each session remembers have the shape their
\* readers rely on.
TypeOK ==
    /\ accepted \in [Tasks -> Sessions \cup {None}]
    /\ lineage \subseteq Tasks \X Sessions
    /\ closed \in [Tasks -> Closures \cup {None}]
    /\ terminal \in [Tasks -> Records \cup {None}]
    /\ owed \in [Tasks -> Obligations]
    /\ session \in [Sessions -> Memories]
    /\ step \in [Sessions -> Steps]

\* A session holds a task, and its terminal record names a session, only when that
\* session accepted the task or left a receipt of taking it up, whatever failed,
\* ended or came between the transactions of a rebind: verified_task_session
\* accepts every terminal record that was written.
HoldersAreVerified ==
    /\ \A s \in Sessions : session[s].held => Verified(session[s].window, s)
    /\ \A t \in Tasks : terminal[t] # None => Verified(t, terminal[t].by)

\* A task is closed as completed, blocked or failed only behind its terminal
\* record, and a completed one has an assessed obligation, however the two
\* transactions of closing are interleaved, interrupted and retried.
ClosureHasRecord ==
    /\ \A t \in Tasks : closed[t] \in Statuses => terminal[t] # None
    /\ \A t \in Tasks : terminal[t] # None /\ terminal[t].status = "completed" => Assessed(t)

\* Two sessions that end the same task at once leave one terminal record and one
\* closed event: what is written is never rewritten.
EndIsFinal ==
    [][\A t \in Tasks : /\ terminal[t] # None => terminal'[t] = terminal[t]
                        /\ closed[t] # None => closed'[t] = closed[t]]_vars

\* The assertion of producer_completion on a completed producer: its closed event
\* says completed.  TLC refutes it (README, section 6).
CompletedClosesAsCompleted ==
    \A t \in Tasks : /\ terminal[t] # None /\ terminal[t].status = "completed"
                     /\ closed[t] # None
                     => closed[t] = "completed"

-----------------------------------------------------------------------------
(* The authority implements TaskLife: a task has ended once it has a       *)
(* terminal record or a closed event.                                      *)

LifeOf(t) == IF accepted[t] = None THEN "absent"
             ELSE IF closed[t] = None /\ terminal[t] = None THEN "open" ELSE "ended"

Life == INSTANCE TaskLife WITH
    life   <- [t \in Tasks |-> LifeOf(t)],
    takers <- lineage \cup {p \in Tasks \X Sessions : accepted[p[1]] = p[2]},
    record <- terminal,
    event  <- closed

\* No interleaving of rebinds, closings, supersessions, abandonments and crashes
\* lets a session take up a task that has ended, ends a task twice, reopens one, or
\* rewrites what was written of its end.
ImplementsTaskLife == Life!Spec

=============================================================================
