------------------------- MODULE TaskAuthorityProofs -------------------------
(***************************************************************************)
(* The safety of the task authority, for any tasks, sessions and bound on  *)
(* learning cycles.  Three facts carry the argument: what is stored only   *)
(* grows (Grows), what an operation in progress was decided on still holds *)
(* (StepGood), and one session at a time is accepting a task (Claims).     *)
(***************************************************************************)
EXTENDS TaskAuthority, TLAPS

\* What is written is never rewritten, and assessments are never lost.
Grows ==
    /\ lineage \subseteq lineage'
    /\ \A t \in Tasks :
          /\ accepted[t] # None => accepted'[t] = accepted[t]
          /\ terminal[t] # None => terminal'[t] = terminal[t]
          /\ closed[t] # None => closed'[t] = closed[t]
          /\ owed'[t].cycle >= owed[t].cycle
          /\ Assessed(t) => Assessed(t)'

TaskGood(t) ==
    /\ accepted[t] = None => closed[t] = None /\ terminal[t] = None
    /\ terminal[t] # None => /\ Verified(t, terminal[t].by)
                             /\ terminal[t].status = "completed" => Assessed(t)
    /\ closed[t] \in Statuses => terminal[t] # None
    /\ owed[t].active => owed[t].cycle > 0

SessionGood(s) ==
    /\ session[s].window # None => accepted[session[s].window] # None
    /\ session[s].held => session[s].window # None /\ Verified(session[s].window, s)

\* What the operation in progress in s was decided on.
StepGood(s) ==
    /\ step[s].at # "idle" => step[s].task \in Tasks
    /\ step[s].at \notin {"idle", "accepting"} => accepted[step[s].task] # None
    /\ step[s].at \in {"activating", "assessing"} => step[s].task = session[s].window
    /\ step[s].at = "activating" => step[s].aim \in Aims
    /\ step[s].at = "assessing" => /\ step[s].cycle > 0
                                   /\ step[s].cycle <= owed[step[s].task].cycle
    /\ step[s].at \in {"inspecting", "persisting", "closing"} =>
          /\ Verified(step[s].task, s)
          /\ step[s].aim \in Statuses
          /\ step[s].aim = "completed" => Assessed(step[s].task)
    /\ step[s].at = "closing" => terminal[step[s].task] # None

Claims ==
    \A s \in Sessions : step[s].at = "accepting" =>
        /\ accepted[step[s].task] = None
        /\ \A o \in Sessions \ {s} :
              step[o].at = "accepting" => step[o].task # step[s].task

TasksGood == \A t \in Tasks : TaskGood(t)
IInv == /\ TypeOK
        /\ TasksGood
        /\ \A s \in Sessions : SessionGood(s) /\ StepGood(s)
        /\ Claims

\* A step of s: what it must establish; the rest of the invariant is framed.
Moved(s) ==
    /\ TypeOK' /\ Grows /\ TasksGood'
    /\ SessionGood(s)' /\ StepGood(s)'
    /\ \A o \in Sessions \ {s} : session'[o] = session[o] /\ step'[o] = step[o]

-----------------------------------------------------------------------------
(* Frames.                                                                 *)

LEMMA GrowsVerified ==
    ASSUME TypeOK, Grows, NEW t \in Tasks, NEW s \in Sessions, Verified(t, s)
    PROVE  Verified(t, s)'
BY NoneAssumption DEF Grows, Verified

LEMMA SessionKept ==
    ASSUME TypeOK, Grows, NEW o \in Sessions, SessionGood(o), session'[o] = session[o]
    PROVE  SessionGood(o)'
<1>1. session[o].window \in Tasks \cup {None}
  BY DEF TypeOK, Memories
<1> QED
  BY <1>1, GrowsVerified DEF SessionGood, Grows

LEMMA OtherKept ==
    ASSUME TypeOK, Grows, TypeOK', NEW o \in Sessions, SessionGood(o), StepGood(o),
           session'[o] = session[o], step'[o] = step[o]
    PROVE  SessionGood(o)' /\ StepGood(o)'
<1>1. SessionGood(o)'
  BY SessionKept
<1>2. StepGood(o)'
  <2>1. CASE step[o].at = "idle"
    BY <2>1 DEF StepGood
  <2>2. CASE step[o].at # "idle"
    <3>1. /\ step[o].task \in Tasks
          /\ owed[step[o].task].cycle \in Nat /\ owed'[step[o].task].cycle \in Nat
          /\ step[o].cycle \in Nat
      BY <2>2, CyclesAssumption DEF StepGood, TypeOK, Obligations, Steps
    <3>2. Verified(step[o].task, o) => Verified(step[o].task, o)'
      BY <3>1, GrowsVerified
    <3>3. Assessed(step[o].task) => Assessed(step[o].task)'
      BY <3>1 DEF Grows
    <3>4. /\ accepted[step[o].task] # None => accepted'[step[o].task] # None
          /\ terminal[step[o].task] # None => terminal'[step[o].task] # None
          /\ owed'[step[o].task].cycle >= owed[step[o].task].cycle
      BY <3>1 DEF Grows
    <3> QED
      BY <2>2, <3>1, <3>2, <3>3, <3>4 DEF StepGood
  <2> QED
    BY <2>1, <2>2
<1> QED
  BY <1>1, <1>2

\* A step of s that accepts nothing keeps the whole invariant.
LEMMA MovedKeeps ==
    ASSUME IInv, NEW s \in Sessions, Moved(s), UNCHANGED accepted,
           step'[s].at # "accepting"
    PROVE  IInv'
<1>1. \A o \in Sessions : SessionGood(o)' /\ StepGood(o)'
  BY OtherKept DEF IInv, Moved
<1>2. Claims'
  BY DEF IInv, Moved, Claims
<1> QED
  BY <1>1, <1>2 DEF IInv, Moved

LEMMA StoredKept ==
    ASSUME TypeOK, TasksGood, UNCHANGED Stored
    PROVE  /\ Grows /\ TasksGood'
           /\ \A t \in Tasks : (Assessed(t)' <=> Assessed(t)) /\ (Owes(t)' <=> Owes(t))
<1>1. \A t \in Tasks : owed[t].cycle \in Nat
  BY CyclesAssumption DEF TypeOK, Obligations
<1> QED
  BY <1>1 DEF Stored, Grows, TasksGood, TaskGood, Assessed, Owes, Verified

\* What the types say of one session.
LEMMA Typed ==
    ASSUME TypeOK, NEW s \in Sessions
    PROVE  /\ session[s] \in Memories /\ step[s] \in Steps
           /\ session[s].window \in Tasks \cup {None}
           /\ Idle \in Steps
           /\ \A t \in Tasks : owed[t].cycle \in 0..MaxCycles /\ owed[t].active \in BOOLEAN
BY CyclesAssumption DEF TypeOK, Memories, Steps, Idle, Operation, Obligations, Places

\* An operation of s that ends and leaves the session as it was.
LEMMA Returns ==
    ASSUME IInv, NEW s \in Sessions, Grows, TasksGood', UNCHANGED session, Done(s),
           accepted' \in [Tasks -> Sessions \cup {None}],
           lineage' \subseteq Tasks \X Sessions,
           closed' \in [Tasks -> Closures \cup {None}],
           terminal' \in [Tasks -> Records \cup {None}],
           owed' \in [Tasks -> Obligations]
    PROVE  Moved(s) /\ step'[s].at # "accepting"
<1>1. step' \in [Sessions -> Steps] /\ step'[s] = Idle
  BY Typed DEF IInv, TypeOK, Done
<1>2. TypeOK'
  BY <1>1 DEF IInv, TypeOK
<1>3. SessionGood(s)'
  BY SessionKept DEF IInv
<1>4. StepGood(s)' /\ step'[s].at # "accepting"
  BY <1>1 DEF StepGood, Idle, Operation
<1> QED
  BY <1>1, <1>2, <1>3, <1>4 DEF Moved, Done, IInv, TypeOK

-----------------------------------------------------------------------------
(* One lemma per action.                                                   *)

\* The end of an operation that found or made the active obligation c of task t.
LEMMA ProceedMoves ==
    ASSUME IInv, NEW s \in Sessions, NEW t \in Tasks, NEW aim \in Aims, NEW c \in 1..MaxCycles,
           Grows, TasksGood', UNCHANGED <<accepted, lineage, closed, terminal>>,
           owed' \in [Tasks -> Obligations], c <= owed'[t].cycle,
           t = session[s].window, accepted[t] # None, Proceed(s, t, aim, c)
    PROVE  Moved(s) /\ step'[s].at # "accepting"
<1>1. /\ session' \in [Sessions -> Memories]
      /\ session'[s].window = t /\ session'[s].held = session[s].held
      /\ \A o \in Sessions \ {s} : session'[o] = session[o]
  BY Typed DEF IInv, TypeOK, Proceed, Memories
<1>2. /\ step' \in [Sessions -> Steps]
      /\ \A o \in Sessions \ {s} : step'[o] = step[o]
      /\ step'[s] = Idle \/ step'[s] = [at |-> "assessing", task |-> t, aim |-> aim, cycle |-> c]
  BY Typed, CyclesAssumption DEF IInv, TypeOK, Proceed, Done, Steps, Places
<1>3. TypeOK'
  BY <1>1, <1>2 DEF IInv, TypeOK
<1>4. SessionGood(s)'
  BY <1>1 DEF IInv, SessionGood, Verified
<1>5. StepGood(s)' /\ step'[s].at # "accepting"
  BY <1>1, <1>2, CyclesAssumption DEF StepGood, Idle, Operation
<1> QED
  BY <1>1, <1>2, <1>3, <1>4, <1>5 DEF Moved

\* The session goes on to inspect the terminal record of the task it holds.
LEMMA Inspects ==
    ASSUME IInv, NEW s \in Sessions, NEW t \in Tasks, NEW status \in Statuses,
           Grows, TasksGood', UNCHANGED <<accepted, lineage, closed, terminal, session>>,
           owed' \in [Tasks -> Obligations], session[s].held, t = session[s].window,
           status = "completed" => Assessed(t)',
           step' = [step EXCEPT ![s] = Operation("inspecting", t, status)]
    PROVE  Moved(s) /\ step'[s].at # "accepting"
<1>1. /\ step' \in [Sessions -> Steps]
      /\ step'[s] = [at |-> "inspecting", task |-> t, aim |-> status, cycle |-> 0]
  BY CyclesAssumption DEF IInv, TypeOK, Operation, Steps, Places
<1>2. TypeOK'
  BY <1>1 DEF IInv, TypeOK
<1>3. SessionGood(s)'
  BY SessionKept DEF IInv
<1>4. Verified(t, s)' /\ accepted'[t] # None
  BY NoneAssumption DEF IInv, SessionGood, Verified
<1>5. StepGood(s)' /\ step'[s].at # "accepting"
  <2>1. Verified(step[s].task, s)' <=> Verified(t, s)'
    BY <1>1 DEF Verified
  <2>2. Assessed(step[s].task)' <=> Assessed(t)'
    BY <1>1 DEF Assessed, Owes
  <2> QED
    BY <1>1, <1>4, <2>1, <2>2 DEF StepGood
<1> QED
  BY <1>1, <1>2, <1>3, <1>5 DEF Moved, IInv, TypeOK

\* After an assessment.
LEMMA ConcludeMoves ==
    ASSUME IInv, NEW s \in Sessions, NEW t \in Tasks, Conclude(s, t),
           Grows, TasksGood', UNCHANGED <<accepted, lineage, closed, terminal, session>>,
           owed' \in [Tasks -> Obligations], t = session[s].window, Assessed(t)'
    PROVE  Moved(s) /\ step'[s].at # "accepting"
<1>1. CASE Done(s)
  BY <1>1, Returns DEF IInv, TypeOK
<1>2. CASE /\ session[s].held
           /\ step' = [step EXCEPT ![s] = Operation("inspecting", t, "completed")]
  BY <1>2, Inspects DEF Statuses
<1> QED
  BY <1>1, <1>2 DEF Conclude

LEMMA CrashMoves ==
    ASSUME IInv, NEW s \in Sessions, Crash(s)
    PROVE  Moved(s) /\ UNCHANGED accepted /\ step'[s].at # "accepting"
<1>1. Grows /\ TasksGood'
  BY StoredKept DEF IInv, Crash
<1>2. /\ step' \in [Sessions -> Steps] /\ step'[s] = Idle
      /\ session' \in [Sessions -> Memories] /\ session'[s] = Forgotten("over")
  BY Typed DEF IInv, TypeOK, Crash, Done, Forgotten, Memories
<1>3. TypeOK'
  BY <1>2 DEF IInv, TypeOK, Crash, Stored
<1>4. SessionGood(s)' /\ StepGood(s)' /\ step'[s].at # "accepting"
  BY <1>2 DEF SessionGood, StepGood, Forgotten, Idle, Operation
<1> QED
  BY <1>1, <1>3, <1>4 DEF Moved, Crash, Done, Stored, IInv, TypeOK

LEMMA GiveUpMoves ==
    ASSUME IInv, NEW s \in Sessions, GiveUp(s)
    PROVE  Moved(s) /\ UNCHANGED accepted /\ step'[s].at # "accepting"
BY StoredKept, Returns DEF IInv, TypeOK, GiveUp, Stored

LEMMA BeginRebindMoves ==
    ASSUME IInv, NEW s \in Sessions, NEW t \in Tasks, BeginRebind(s, t)
    PROVE  Moved(s) /\ UNCHANGED accepted /\ step'[s].at # "accepting"
<1>1. Grows /\ TasksGood'
  BY StoredKept DEF IInv, BeginRebind
<1>2. /\ step' \in [Sessions -> Steps]
      /\ step'[s] = [at |-> "recording", task |-> t, aim |-> None, cycle |-> 0]
  BY Typed, CyclesAssumption DEF IInv, TypeOK, BeginRebind, Operation, Steps, Places
<1>3. TypeOK'
  BY <1>2 DEF IInv, TypeOK, BeginRebind, Stored
<1>4. SessionGood(s)'
  BY <1>1, SessionKept DEF IInv, BeginRebind
<1>5. StepGood(s)' /\ step'[s].at # "accepting"
  BY <1>2 DEF StepGood, BeginRebind, Open, Stored
<1> QED
  BY <1>1, <1>3, <1>4, <1>5 DEF Moved, BeginRebind, Stored, IInv, TypeOK

LEMMA BeginAbandonMoves ==
    ASSUME IInv, NEW s \in Sessions, NEW t \in Tasks, BeginAbandon(s, t)
    PROVE  Moved(s) /\ UNCHANGED accepted /\ step'[s].at # "accepting"
<1>1. Grows /\ TasksGood'
  BY StoredKept DEF IInv, BeginAbandon
<1>2. /\ step' \in [Sessions -> Steps]
      /\ step'[s] = [at |-> "discarding", task |-> t, aim |-> None, cycle |-> 0]
  BY Typed, CyclesAssumption DEF IInv, TypeOK, BeginAbandon, Operation, Steps, Places
<1>3. TypeOK'
  BY <1>2 DEF IInv, TypeOK, BeginAbandon, Stored
<1>4. SessionGood(s)'
  BY <1>1, SessionKept DEF IInv, BeginAbandon
<1>5. StepGood(s)' /\ step'[s].at # "accepting"
  BY <1>2 DEF StepGood, BeginAbandon, Open, Stored
<1> QED
  BY <1>1, <1>3, <1>4, <1>5 DEF Moved, BeginAbandon, Stored, IInv, TypeOK

LEMMA RecordSessionMoves ==
    ASSUME IInv, NEW s \in Sessions, RecordSession(s)
    PROVE  Moved(s) /\ UNCHANGED accepted /\ step'[s].at # "accepting"
<1> DEFINE t == step[s].task
<1>1. t \in Tasks /\ accepted[t] # None
  BY DEF IInv, StepGood, RecordSession, At
<1>2. /\ lineage \subseteq lineage' /\ lineage' \subseteq Tasks \X Sessions
      /\ UNCHANGED <<accepted, closed, terminal, owed>>
  BY <1>1 DEF RecordSession, IInv, TypeOK
<1>3. Grows
  BY <1>2, Typed, CyclesAssumption DEF Grows, Assessed, Owes, IInv
<1>4. TasksGood'
  BY <1>2 DEF IInv, TasksGood, TaskGood, Verified, Assessed, Owes
<1>5. CASE UNCHANGED session
  BY <1>2, <1>3, <1>4, <1>5, Returns DEF RecordSession, IInv, TypeOK
<1>6. CASE session' = [session EXCEPT ![s] = Holding(s, t)] /\ lineage' = lineage \cup {<<t, s>>}
  <2>1. Holding(s, t) \in Memories /\ Holding(s, t).window = t /\ Holding(s, t).held
    BY <1>1, Typed DEF Holding, Memories, IInv
  <2>2. session' \in [Sessions -> Memories] /\ session'[s] = Holding(s, t)
    BY <1>6, <2>1 DEF IInv, TypeOK
  <2>3. step' \in [Sessions -> Steps] /\ step'[s] = Idle
    BY Typed DEF IInv, TypeOK, RecordSession, Done
  <2>4. TypeOK'
    BY <1>2, <2>2, <2>3 DEF IInv, TypeOK
  <2>5. SessionGood(s)'
    BY <1>1, <1>2, <1>6, <2>1, <2>2, NoneAssumption DEF SessionGood, Verified
  <2>6. StepGood(s)' /\ step'[s].at # "accepting"
    BY <2>3 DEF StepGood, Idle, Operation
  <2> QED
    BY <1>2, <1>3, <1>4, <1>6, <2>4, <2>5, <2>6 DEF Moved, RecordSession, Done, IInv, TypeOK
<1> QED
  BY <1>5, <1>6 DEF RecordSession

LEMMA DiscardMoves ==
    ASSUME IInv, NEW s \in Sessions, Discard(s)
    PROVE  Moved(s) /\ UNCHANGED accepted /\ step'[s].at # "accepting"
<1> DEFINE t == step[s].task
<1>1. t \in Tasks /\ accepted[t] # None
  BY DEF IInv, StepGood, Discard, At
<1>2. /\ closed' \in [Tasks -> Closures \cup {None}]
      /\ \A u \in Tasks : closed'[u] = closed[u] \/ (u = t /\ closed[u] = None /\ closed'[u] = "abandoned")
      /\ UNCHANGED <<accepted, lineage, terminal, owed, session>>
  <2>1. /\ "abandoned" \in Closures /\ closed \in [Tasks -> Closures \cup {None}]
        /\ closed' = [closed EXCEPT ![t] = IF closed[t] = None THEN "abandoned" ELSE closed[t]]
        /\ UNCHANGED <<accepted, lineage, terminal, owed, session>>
    BY DEF Discard, IInv, TypeOK, Closures
  <2> QED
    BY <1>1, <2>1
<1>3. Grows
  BY <1>2, Typed, CyclesAssumption DEF Grows, Assessed, Owes, IInv
<1>4. TasksGood'
  BY <1>1, <1>2, StopsAssumption DEF IInv, TasksGood, TaskGood, Verified, Assessed, Owes, Statuses
<1> QED
  BY <1>2, <1>3, <1>4, Returns DEF Discard, IInv, TypeOK

LEMMA BeginLearningMoves ==
    ASSUME IInv, NEW s \in Sessions, NEW aim \in Aims, BeginLearning(s, aim)
    PROVE  Moved(s) /\ UNCHANGED accepted /\ step'[s].at # "accepting"
<1> DEFINE t == session[s].window
<1>1. t \in Tasks /\ accepted[t] # None
  BY Typed DEF IInv, SessionGood, BeginLearning
<1>2. Grows /\ TasksGood' /\ UNCHANGED Stored
  BY StoredKept DEF IInv, BeginLearning
<1>3. CASE Owes(t) /\ Proceed(s, t, aim, owed[t].cycle)
  <2>1. owed[t].cycle \in 1..MaxCycles
    BY <1>1, <1>3, Typed, CyclesAssumption DEF IInv, Owes, TasksGood, TaskGood
  <2>2. owed' \in [Tasks -> Obligations] /\ owed[t].cycle <= owed'[t].cycle
    BY <1>2, <2>1, CyclesAssumption DEF IInv, TypeOK, Stored
  <2>3. UNCHANGED <<accepted, lineage, closed, terminal>>
    BY <1>2 DEF Stored
  <2> QED
    BY <1>1, <1>2, <1>3, <2>1, <2>2, <2>3, ProceedMoves
<1>4. CASE /\ step' = [step EXCEPT ![s] = Operation("activating", t, aim)]
           /\ UNCHANGED session
  <2>1. /\ step' \in [Sessions -> Steps]
        /\ step'[s] = [at |-> "activating", task |-> t, aim |-> aim, cycle |-> 0]
    BY <1>1, <1>4, Typed, CyclesAssumption DEF IInv, TypeOK, Operation, Steps, Places
  <2>2. TypeOK'
    BY <1>2, <1>4, <2>1 DEF IInv, TypeOK, Stored
  <2>3. SessionGood(s)'
    BY <1>2, <1>4, SessionKept DEF IInv
  <2>4. StepGood(s)' /\ step'[s].at # "accepting"
    BY <1>1, <1>2, <1>4, <2>1 DEF StepGood, Stored
  <2> QED
    BY <1>2, <1>4, <2>2, <2>3, <2>4 DEF Moved, IInv, TypeOK, Stored
<1> QED
  BY <1>3, <1>4 DEF BeginLearning

LEMMA ActivateMoves ==
    ASSUME IInv, NEW s \in Sessions, Activate(s)
    PROVE  Moved(s) /\ UNCHANGED accepted /\ step'[s].at # "accepting"
<1> DEFINE t == step[s].task
           c == owed[t].cycle + 1
<1>1. /\ t \in Tasks /\ accepted[t] # None /\ t = session[s].window
      /\ step[s].aim \in Aims
      /\ UNCHANGED <<accepted, lineage, closed, terminal>>
  BY DEF IInv, StepGood, Activate, At
<1>2. CASE Done(s) /\ UNCHANGED <<owed, session>>
  BY <1>1, <1>2, StoredKept, Returns DEF IInv, TypeOK, Stored
<1>3. CASE /\ ~Owes(t) /\ owed[t].cycle < MaxCycles
           /\ owed' = [owed EXCEPT ![t] = [cycle |-> @.cycle + 1, active |-> TRUE]]
           /\ Proceed(s, t, step[s].aim, c)
  <2>1. /\ owed' \in [Tasks -> Obligations]
        /\ owed'[t].cycle = c /\ owed'[t].active /\ c \in 1..MaxCycles
        /\ \A u \in Tasks \ {t} : owed'[u] = owed[u]
    BY <1>1, <1>3, Typed, CyclesAssumption DEF IInv, TypeOK, Obligations
  <2>2. Grows
    BY <1>1, <1>3, <2>1, Typed, CyclesAssumption DEF IInv, Grows, Assessed, Owes
  <2>3. TasksGood'
    BY <1>1, <2>1, <2>2, CyclesAssumption
    DEF IInv, TypeOK, Grows, TasksGood, TaskGood, Verified
  <2>4. c <= owed'[t].cycle
    BY <2>1, CyclesAssumption
  <2>5. accepted' = accepted
    BY <1>1
  <2> HIDE DEF c
  <2> QED
    BY <1>1, <1>3, <2>1, <2>2, <2>3, <2>4, <2>5, ProceedMoves
<1> QED
  BY <1>1, <1>2, <1>3 DEF Activate

LEMMA FailGateMoves ==
    ASSUME IInv, NEW s \in Sessions, FailGate(s)
    PROVE  Moved(s) /\ UNCHANGED accepted /\ step'[s].at # "accepting"
<1>1. Grows /\ TasksGood'
  BY StoredKept DEF IInv, FailGate
<1>2. /\ session' \in [Sessions -> Memories]
      /\ session'[s].window = session[s].window /\ session'[s].held = session[s].held
  BY Typed DEF IInv, TypeOK, FailGate, Memories
<1>3. TypeOK'
  BY <1>2 DEF IInv, TypeOK, FailGate, Stored
<1>4. SessionGood(s)' /\ StepGood(s)' /\ step'[s].at # "accepting"
  BY <1>2 DEF IInv, FailGate, Ready, SessionGood, StepGood, Verified, Stored
<1> QED
  BY <1>1, <1>3, <1>4 DEF Moved, IInv, FailGate, Stored, TypeOK

LEMMA AssessMoves ==
    ASSUME IInv, NEW s \in Sessions, Assess(s)
    PROVE  Moved(s) /\ UNCHANGED accepted /\ step'[s].at # "accepting"
<1> PICK t \in Tasks : t = step[s].task
  BY DEF IInv, StepGood, Assess, At
<1>1. /\ t = session[s].window
      /\ step[s].cycle > 0 /\ step[s].cycle <= owed[t].cycle
      /\ step[s].cycle \in Nat /\ owed[t].cycle \in Nat
      /\ UNCHANGED <<accepted, lineage, closed, terminal, session>>
  BY Typed, CyclesAssumption DEF IInv, StepGood, Assess, At, TypeOK, Steps
<1>2. CASE /\ owed[t].active /\ owed[t].cycle = step[s].cycle
           /\ owed' = [owed EXCEPT ![t].active = FALSE]
           /\ Conclude(s, t)
  <2>1. /\ owed' \in [Tasks -> Obligations]
        /\ owed'[t].cycle = owed[t].cycle /\ ~owed'[t].active
        /\ \A u \in Tasks \ {t} : owed'[u] = owed[u]
    BY <1>1, <1>2 DEF IInv, TypeOK, Obligations
  <2>2. Assessed(t)'
    BY <1>1, <2>1 DEF Assessed, Owes
  <2>3. Grows
    BY <1>1, <2>1, <2>2, Typed, CyclesAssumption DEF IInv, Grows, Assessed, Owes
  <2>4. TasksGood'
    BY <1>1, <2>1, <2>3, CyclesAssumption DEF IInv, TypeOK, Grows, TasksGood, TaskGood, Verified
  <2> QED
    BY <1>1, <1>2, <2>1, <2>2, <2>3, <2>4, ConcludeMoves
<1>3. CASE /\ ~(owed[t].active /\ owed[t].cycle = step[s].cycle)
           /\ Conclude(s, t) \/ Done(s)
           /\ UNCHANGED owed
  <2>1. Grows /\ TasksGood' /\ (Assessed(t)' <=> Assessed(t))
    BY <1>1, <1>3, StoredKept DEF IInv, Stored
  <2>2. Assessed(t)
    BY <1>1, <1>3 DEF Assessed, Owes
  <2>3. owed' \in [Tasks -> Obligations]
    BY <1>3 DEF IInv, TypeOK
  <2>4. CASE Done(s)
    BY <1>1, <2>1, <2>3, <2>4, Returns DEF IInv, TypeOK
  <2>5. CASE Conclude(s, t)
    BY <1>1, <2>1, <2>2, <2>3, <2>5, ConcludeMoves
  <2> QED
    BY <1>3, <2>4, <2>5
<1> QED
  BY <1>2, <1>3 DEF Assess

LEMMA RepeatMoves ==
    ASSUME IInv, NEW s \in Sessions, Repeat(s)
    PROVE  Moved(s) /\ UNCHANGED accepted /\ step'[s].at # "accepting"
<1> DEFINE t == session[s].window
<1>1. t \in Tasks /\ UNCHANGED <<Stored, session>> /\ Conclude(s, t) /\ Assessed(t)
  BY Typed DEF IInv, Repeat, Assessed
<1>2. Grows /\ TasksGood' /\ Assessed(t)'
  BY <1>1, StoredKept DEF IInv
<1>3. /\ owed' \in [Tasks -> Obligations]
      /\ UNCHANGED <<accepted, lineage, closed, terminal, session>>
  BY <1>1 DEF IInv, TypeOK, Stored
<1> QED
  BY <1>1, <1>2, <1>3, ConcludeMoves

LEMMA SafeStopMoves ==
    ASSUME IInv, NEW s \in Sessions, NEW status \in Stops, SafeStop(s, status)
    PROVE  Moved(s) /\ UNCHANGED accepted /\ step'[s].at # "accepting"
<1> DEFINE t == session[s].window
<1>1. t \in Tasks
  BY Typed DEF IInv, SafeStop, SessionGood
<1>2. Grows /\ TasksGood'
  BY StoredKept DEF IInv, SafeStop
<1>3. status \in Statuses /\ status # "completed"
  BY StopsAssumption DEF Statuses
<1>4. /\ owed' \in [Tasks -> Obligations]
      /\ UNCHANGED <<accepted, lineage, closed, terminal, session>>
  BY DEF IInv, TypeOK, Stored, SafeStop
<1> QED
  BY <1>1, <1>2, <1>3, <1>4, Inspects DEF SafeStop

LEMMA InspectMoves ==
    ASSUME IInv, NEW s \in Sessions, Inspect(s)
    PROVE  Moved(s) /\ UNCHANGED accepted /\ step'[s].at # "accepting"
<1> DEFINE place == IF terminal[step[s].task] = None THEN "persisting" ELSE "closing"
<1>1. Grows /\ TasksGood' /\ UNCHANGED <<Stored, session>>
  BY StoredKept DEF IInv, Inspect
<1>2. /\ step' \in [Sessions -> Steps]
      /\ step'[s] = [step[s] EXCEPT !.at = place]
  BY Typed DEF IInv, TypeOK, Inspect, Go, Steps, Places
<1>3. TypeOK'
  BY <1>1, <1>2 DEF IInv, TypeOK, Stored
<1>4. SessionGood(s)'
  BY <1>1, SessionKept DEF IInv
<1>5. StepGood(s)' /\ step'[s].at # "accepting"
  BY <1>1, <1>2, Typed
  DEF IInv, TypeOK, Inspect, At, StepGood, Verified, Assessed, Owes, Stored, Steps
<1> QED
  BY <1>1, <1>3, <1>4, <1>5 DEF Moved, Inspect, Go, Stored, IInv, TypeOK

LEMMA PersistMoves ==
    ASSUME IInv, NEW s \in Sessions, Persist(s)
    PROVE  Moved(s) /\ UNCHANGED accepted /\ step'[s].at # "accepting"
<1> DEFINE t == step[s].task
           record == [status |-> step[s].aim, by |-> s]
<1>1. /\ t \in Tasks /\ accepted[t] # None /\ Verified(t, s)
      /\ step[s].aim \in Statuses
      /\ step[s].aim = "completed" => Assessed(t)
      /\ UNCHANGED <<accepted, lineage, closed, owed, session>>
  BY DEF IInv, StepGood, Persist, At
<1>2. CASE Done(s) /\ UNCHANGED terminal
  BY <1>1, <1>2, StoredKept, Returns DEF IInv, TypeOK, Stored
<1>3. CASE /\ terminal[t] = None
           /\ terminal' = [terminal EXCEPT ![t] = record]
           /\ Go(s, "closing")
  <2>1. record \in Records /\ record # None
    BY <1>1, NothingAssumption DEF Records
  <2>2. /\ terminal' \in [Tasks -> Records \cup {None}] /\ terminal'[t] = record
        /\ \A u \in Tasks \ {t} : terminal'[u] = terminal[u]
    BY <1>1, <1>3, <2>1 DEF IInv, TypeOK
  <2>3. /\ step' \in [Sessions -> Steps]
        /\ step'[s] = [step[s] EXCEPT !.at = "closing"]
    BY <1>3, Typed DEF IInv, TypeOK, Go, Steps, Places
  <2>4. TypeOK'
    BY <1>1, <2>2, <2>3 DEF IInv, TypeOK
  <2>5. Grows
    BY <1>1, <1>3, <2>2, Typed, CyclesAssumption DEF IInv, Grows, Assessed, Owes
  <2>6. TasksGood'
    BY <1>1, <1>3, <2>1, <2>2 DEF IInv, TypeOK, TasksGood, TaskGood, Verified, Assessed, Owes
  <2>7. SessionGood(s)'
    BY <1>1, <2>5, SessionKept DEF IInv
  <2>8. StepGood(s)' /\ step'[s].at # "accepting"
    BY <1>1, <2>1, <2>2, <2>3, Typed DEF IInv, StepGood, Verified, Assessed, Owes, Steps
  <2> QED
    BY <1>1, <1>3, <2>4, <2>5, <2>6, <2>7, <2>8 DEF Moved, Go, IInv, TypeOK
<1> QED
  BY <1>2, <1>3 DEF Persist, MayPersist

LEMMA CloseMoves ==
    ASSUME IInv, NEW s \in Sessions, Close(s)
    PROVE  Moved(s) /\ UNCHANGED accepted /\ step'[s].at # "accepting"
<1> DEFINE t == step[s].task
<1>1. /\ t \in Tasks /\ accepted[t] # None /\ terminal[t] # None
      /\ step[s].aim \in Statuses /\ Done(s)
      /\ UNCHANGED <<accepted, lineage, terminal, owed>>
  BY DEF IInv, StepGood, Close, At
<1>2. CASE UNCHANGED <<closed, session>>
  BY <1>1, <1>2, StoredKept, Returns DEF IInv, TypeOK, Stored
<1>3. CASE /\ closed[t] \in {None, step[s].aim}
           /\ closed' = [closed EXCEPT ![t] = step[s].aim]
           /\ session' = [session EXCEPT ![s].finished = @ \/ terminal[t].status = "completed"]
  <2>1. /\ closed' \in [Tasks -> Closures \cup {None}] /\ closed'[t] = step[s].aim
        /\ \A u \in Tasks \ {t} : closed'[u] = closed[u]
    BY <1>1, <1>3 DEF IInv, TypeOK, Closures
  <2>2. /\ session' \in [Sessions -> Memories]
        /\ session'[s].window = session[s].window /\ session'[s].held = session[s].held
        /\ \A o \in Sessions \ {s} : session'[o] = session[o]
    BY <1>3, Typed DEF IInv, TypeOK, Memories
  <2>3. step' \in [Sessions -> Steps] /\ step'[s] = Idle
    BY <1>1, Typed DEF IInv, TypeOK, Done
  <2>4. TypeOK'
    BY <1>1, <2>1, <2>2, <2>3 DEF IInv, TypeOK
  <2>5. Grows
    BY <1>1, <1>3, <2>1, Typed, CyclesAssumption DEF IInv, Grows, Assessed, Owes
  <2>6. TasksGood'
    BY <1>1, <2>1 DEF IInv, TasksGood, TaskGood, Verified, Assessed, Owes
  <2>7. SessionGood(s)'
    BY <1>1, <2>2 DEF IInv, SessionGood, Verified
  <2>8. StepGood(s)' /\ step'[s].at # "accepting"
    BY <2>3 DEF StepGood, Idle, Operation
  <2> QED
    BY <1>1, <2>2, <2>4, <2>5, <2>6, <2>7, <2>8 DEF Moved, Done, IInv, TypeOK
<1> QED
  BY <1>2, <1>3 DEF Close

LEMMA NewSessionKeeps ==
    ASSUME IInv, NEW s \in Sessions, NEW n \in Sessions, NewSession(s, n)
    PROVE  IInv' /\ Grows
<1>1. Grows /\ TasksGood' /\ UNCHANGED <<Stored, step>>
  BY StoredKept DEF IInv, NewSession
<1>2. /\ session' \in [Sessions -> Memories]
      /\ \A o \in Sessions \ {s, n} : session'[o] = session[o]
      /\ session'[s] = Forgotten("over")
      /\ session'[n].window = session[s].window /\ ~session'[n].held
  <2>1. s # n /\ session[n] = Forgotten("live") /\ ~session[n].held
    BY DEF NewSession, Forgotten
  <2>2. session \in [Sessions -> Memories] /\ session[s].window \in Tasks \cup {None}
    BY Typed DEF IInv, TypeOK
  <2>3. /\ session'[s] = Forgotten("over")
        /\ session'[n] = [session[n] EXCEPT !.window = session[s].window]
        /\ \A o \in Sessions \ {s, n} : session'[o] = session[o]
        /\ DOMAIN session' = Sessions
        /\ session' = [o \in Sessions |-> session'[o]]
    BY <2>1, <2>2 DEF NewSession
  <2>4. session'[s] \in Memories /\ session'[n] \in Memories
    <3>1. Forgotten("over") \in Memories
      BY DEF Forgotten, Memories
    <3>2. session[n] \in Memories
      BY <2>2
    <3>3. [session[n] EXCEPT !.window = session[s].window] \in Memories
      BY <2>2, <3>2 DEF Memories
    <3> QED
      BY <2>3, <3>1, <3>3
  <2>5. \A o \in Sessions : session'[o] \in Memories
    BY <2>2, <2>3, <2>4
  <2>6. session' \in [Sessions -> Memories]
    BY <2>3, <2>5
  <2>7. session'[n].window = session[s].window /\ ~session'[n].held
    BY <2>1, <2>2, <2>3 DEF Memories
  <2> QED
    BY <2>3, <2>6, <2>7
<1>3. TypeOK'
  BY <1>1, <1>2 DEF IInv, TypeOK, Stored
<1>4. ASSUME NEW o \in Sessions PROVE SessionGood(o)' /\ StepGood(o)'
  <2>1. CASE o \in {s, n}
    BY <1>1, <1>2, <2>1 DEF IInv, NewSession, Ready, SessionGood, StepGood, Forgotten, Stored
  <2>2. CASE o \notin {s, n}
    BY <1>1, <1>2, <1>3, <2>2, OtherKept DEF IInv
  <2> QED
    BY <2>1, <2>2
<1>5. Claims'
  BY <1>1 DEF IInv, Claims, Stored
<1> QED
  BY <1>1, <1>3, <1>4, <1>5 DEF IInv

LEMMA BeginAcceptKeeps ==
    ASSUME IInv, NEW s \in Sessions, NEW t \in Tasks, BeginAccept(s, t)
    PROVE  IInv' /\ Grows
<1>1. Grows /\ TasksGood' /\ UNCHANGED <<Stored, session>>
  BY StoredKept DEF IInv, BeginAccept
<1>2. /\ step' \in [Sessions -> Steps]
      /\ step'[s] = [at |-> "accepting", task |-> t, aim |-> None, cycle |-> 0]
      /\ \A o \in Sessions \ {s} : step'[o] = step[o]
  BY Typed, CyclesAssumption DEF IInv, TypeOK, BeginAccept, Operation, Steps, Places
<1>3. TypeOK'
  BY <1>1, <1>2 DEF IInv, TypeOK, Stored
<1>4. ASSUME NEW o \in Sessions PROVE SessionGood(o)' /\ StepGood(o)'
  <2>1. CASE o = s
    BY <1>1, <1>2, <2>1, SessionKept DEF IInv, StepGood
  <2>2. CASE o # s
    BY <1>1, <1>2, <1>3, <2>2, OtherKept DEF IInv
  <2> QED
    BY <2>1, <2>2
<1>5. Claims'
  BY <1>1, <1>2 DEF IInv, BeginAccept, Claims, Stored
<1> QED
  BY <1>1, <1>3, <1>4, <1>5 DEF IInv

LEMMA CommitAcceptKeeps ==
    ASSUME IInv, NEW s \in Sessions, CommitAccept(s)
    PROVE  IInv' /\ Grows
<1> PICK t \in Tasks : t = step[s].task
  BY DEF IInv, StepGood, CommitAccept, At
<1> DEFINE prior == session[s].window
<1>1. /\ accepted[t] = None /\ terminal[t] = None /\ closed[t] = None
      /\ accepted' = [accepted EXCEPT ![t] = s]
      /\ prior # t
      /\ UNCHANGED <<lineage, terminal, owed>>
  <2>1. accepted[t] = None
    BY DEF IInv, Claims, CommitAccept, At
  <2>2. prior # t
    BY <2>1, NoneAssumption DEF IInv, SessionGood
  <2> QED
    BY <2>1, <2>2 DEF IInv, TasksGood, TaskGood, CommitAccept
<1>2. /\ accepted' \in [Tasks -> Sessions \cup {None}] /\ accepted'[t] = s
      /\ \A u \in Tasks \ {t} : accepted'[u] = accepted[u]
  BY <1>1 DEF IInv, TypeOK
<1>3. /\ closed' \in [Tasks -> Closures \cup {None}]
      /\ \A u \in Tasks :
            closed'[u] = closed[u] \/ (u = prior /\ Open(u) /\ closed'[u] = "superseded")
  BY DEF IInv, TypeOK, CommitAccept, Closures
<1>4. Grows
  BY <1>1, <1>2, <1>3, Typed, CyclesAssumption DEF IInv, Grows, Assessed, Owes, Open
<1>5. TasksGood'
  <2> SUFFICES ASSUME NEW u \in Tasks PROVE TaskGood(u)'
    BY DEF TasksGood
  <2>1. TaskGood(u) /\ terminal'[u] = terminal[u] /\ owed'[u] = owed[u]
    BY <1>1 DEF IInv, TasksGood
  <2>2. terminal[u] # None => Verified(u, terminal[u].by)'
    BY <1>1, <1>2, <2>1 DEF TaskGood, Verified
  <2>3. "superseded" \notin Statuses
    BY StopsAssumption DEF Statuses
  <2> QED
    BY <1>1, <1>2, <1>3, <2>1, <2>2, <2>3, NoneAssumption
    DEF TaskGood, Assessed, Owes, Open
<1>6. /\ Holding(s, t) \in Memories /\ Holding(s, t).window = t
      /\ session' = [session EXCEPT ![s] = Holding(s, t)]
  BY Typed DEF IInv, Holding, Memories, CommitAccept
<1>7. /\ session' \in [Sessions -> Memories] /\ session'[s] = Holding(s, t)
      /\ step' \in [Sessions -> Steps] /\ step'[s] = Idle
      /\ \A o \in Sessions \ {s} : step'[o] = step[o] /\ session'[o] = session[o]
  BY <1>6, Typed DEF IInv, TypeOK, CommitAccept, Done
<1>8. TypeOK'
  BY <1>1, <1>2, <1>3, <1>7 DEF IInv, TypeOK
<1>9. ASSUME NEW o \in Sessions PROVE SessionGood(o)' /\ StepGood(o)'
  <2>1. CASE o = s
    BY <1>2, <1>6, <1>7, <2>1, NoneAssumption
    DEF SessionGood, StepGood, Verified, Idle, Operation
  <2>2. CASE o # s
    BY <1>4, <1>7, <1>8, <2>2, OtherKept DEF IInv
  <2> QED
    BY <2>1, <2>2
<1>10. Claims'
  <2> SUFFICES ASSUME NEW o \in Sessions, step'[o].at = "accepting"
               PROVE  /\ accepted'[step'[o].task] = None
                      /\ \A q \in Sessions \ {o} :
                            step'[q].at = "accepting" => step'[q].task # step'[o].task
    BY DEF Claims
  <2>1. o # s /\ step'[o] = step[o]
    BY <1>7 DEF Idle, Operation
  <2>2. step[o].task \in Tasks /\ step[o].task # t /\ accepted[step[o].task] = None
    BY <2>1 DEF IInv, Claims, StepGood, CommitAccept, At
  <2> QED
    BY <1>2, <1>7, <2>1, <2>2 DEF IInv, Claims, Idle, Operation
<1> QED
  BY <1>4, <1>5, <1>8, <1>9, <1>10 DEF IInv

-----------------------------------------------------------------------------
(* The invariant.                                                          *)

LEMMA InitHolds == Init => IInv
<1> SUFFICES ASSUME Init PROVE IInv
  OBVIOUS
<1>1. TypeOK
  BY CyclesAssumption
  DEF Init, TypeOK, Obligations, Forgotten, Memories, Idle, Operation, Steps, Places
<1>2. TasksGood
  BY NothingAssumption DEF Init, TasksGood, TaskGood, Closures
<1>3. \A s \in Sessions : SessionGood(s) /\ StepGood(s)
  BY DEF Init, SessionGood, StepGood, Forgotten, Idle, Operation
<1>4. Claims
  BY DEF Init, Claims, Idle, Operation
<1> QED
  BY <1>1, <1>2, <1>3, <1>4 DEF IInv

\* Every step keeps the invariant and lets the store only grow.
LEMMA StepKeeps ==
    ASSUME IInv, [Next]_vars
    PROVE  IInv' /\ Grows
<1>1. CASE UNCHANGED vars
  <2>1. Grows /\ TasksGood'
    BY <1>1, StoredKept DEF IInv, vars, Stored
  <2>2. TypeOK'
    BY <1>1 DEF IInv, TypeOK, vars
  <2>3. \A s \in Sessions : SessionGood(s)' /\ StepGood(s)'
    BY <1>1, <2>1, <2>2, OtherKept DEF IInv, vars
  <2> QED
    BY <1>1, <2>1, <2>2, <2>3 DEF IInv, Claims, vars
<1>2. CASE Next
  <2> PICK s \in Sessions :
         Lifetime(s) \/ Accepts(s) \/ Rebinds(s) \/ Abandons(s) \/ Learns(s) \/ Ends(s)
    BY <1>2 DEF Next
  <2>1. CASE Lifetime(s)
    BY <2>1, CrashMoves, GiveUpMoves, NewSessionKeeps, MovedKeeps DEF Lifetime, Moved
  <2>2. CASE Accepts(s)
    BY <2>2, BeginAcceptKeeps, CommitAcceptKeeps DEF Accepts
  <2>3. CASE Rebinds(s)
    BY <2>3, BeginRebindMoves, RecordSessionMoves, MovedKeeps DEF Rebinds, Moved
  <2>4. CASE Abandons(s)
    BY <2>4, BeginAbandonMoves, DiscardMoves, MovedKeeps DEF Abandons, Moved
  <2>5. CASE Learns(s)
    BY <2>5, BeginLearningMoves, ActivateMoves, FailGateMoves, AssessMoves, RepeatMoves,
       MovedKeeps DEF Learns, Moved
  <2>6. CASE Ends(s)
    BY <2>6, SafeStopMoves, InspectMoves, PersistMoves, CloseMoves, MovedKeeps DEF Ends, Moved
  <2> QED
    BY <2>1, <2>2, <2>3, <2>4, <2>5, <2>6
<1> QED
  BY <1>1, <1>2

THEOREM Inductive == Spec => []IInv
<1>1. Init => IInv
  BY InitHolds
<1>2. IInv /\ [Next]_vars => IInv'
  BY StepKeeps
<1> QED
  BY <1>1, <1>2, PTL DEF Spec

\* Records, events, receipts, obligations and every session's memory keep the
\* shape their readers rely on.
THEOREM TypeCorrect == Spec => []TypeOK
<1>1. IInv => TypeOK
  BY DEF IInv
<1> QED
  BY <1>1, Inductive, PTL

\* Whatever fails between the transactions of a rebind, a session that holds a
\* task, or ended it, accepted it or left a receipt of taking it up.
THEOREM HoldersVerified == Spec => []HoldersAreVerified
<1>1. IInv => HoldersAreVerified
  BY DEF IInv, SessionGood, TasksGood, TaskGood, HoldersAreVerified
<1> QED
  BY <1>1, Inductive, PTL

\* However closings interleave, a closed task has its terminal record, and a
\* completed one an assessed obligation.
THEOREM ClosedBehindRecord == Spec => []ClosureHasRecord
<1>1. IInv => ClosureHasRecord
  BY DEF IInv, TasksGood, TaskGood, ClosureHasRecord
<1> QED
  BY <1>1, Inductive, PTL

\* Sessions that end one task at once never rewrite a record or an event.
THEOREM EndsForGood == Spec => EndIsFinal
<1>1. IInv /\ [Next]_vars =>
        [\A t \in Tasks : /\ terminal[t] # None => terminal'[t] = terminal[t]
                          /\ closed[t] # None => closed'[t] = closed[t]]_vars
  BY StepKeeps DEF Grows
<1> QED
  BY <1>1, Inductive, PTL DEF Spec, EndIsFinal

-----------------------------------------------------------------------------
(* The refinement of TaskLife.                                             *)

Takers == lineage \cup {p \in Tasks \X Sessions : accepted[p[1]] = p[2]}
LivesOf == [t \in Tasks |-> LifeOf(t)]

\* Growing, a step writes only what was not written.
LEMMA Writes ==
    ASSUME IInv, TypeOK', Grows, NEW T \in SUBSET Tasks,
           \A u \in Tasks \ T : closed'[u] = closed[u] /\ terminal'[u] = terminal[u]
    PROVE  Life!MayWrite(T)
<1>1. /\ terminal \in [Tasks -> Records \cup {None}] /\ closed \in [Tasks -> Closures \cup {None}]
      /\ terminal' \in [Tasks -> Records \cup {None}] /\ closed' \in [Tasks -> Closures \cup {None}]
  BY DEF IInv, TypeOK
<1>2. terminal' = [u \in Tasks |-> IF u \in T /\ terminal[u] = None
                                   THEN terminal'[u] ELSE terminal[u]]
  BY <1>1 DEF Grows
<1>3. closed' = [u \in Tasks |-> IF u \in T /\ closed[u] = None
                                 THEN closed'[u] ELSE closed[u]]
  BY <1>1 DEF Grows
<1> QED
  BY <1>2, <1>3 DEF Life!MayWrite

\* An operation that accepts nothing and takes nothing up ends at most one task, or
\* writes what its end left unwritten.
LEMMA EndsAtMostOne ==
    ASSUME IInv, TypeOK', Grows, NEW t \in Tasks, UNCHANGED <<accepted, lineage>>,
           accepted[t] # None,
           \A u \in Tasks \ {t} : closed'[u] = closed[u] /\ terminal'[u] = terminal[u]
    PROVE  Life!Next \/ UNCHANGED Life!lifeVars
<1>1. Takers' = Takers
  BY DEF Takers
<1>2. \A u \in Tasks \ {t} : LifeOf(u)' = LifeOf(u)
  BY DEF LifeOf
<1>3. \/ LifeOf(t) = "open" /\ LifeOf(t)' = "open" /\ UNCHANGED <<closed, terminal>>
      \/ LifeOf(t) = "ended" /\ LifeOf(t)' = "ended"
      \/ LifeOf(t) = "open" /\ LifeOf(t)' = "ended"
  BY DEF LifeOf, Grows, IInv, TypeOK
<1>4. Life!MayWrite({t})
  BY Writes
<1>5. CASE LifeOf(t)' = LifeOf(t)
  <2>1. LivesOf' = LivesOf
    BY <1>2, <1>5 DEF LivesOf
  <2>2. CASE UNCHANGED <<closed, terminal>>
    BY <1>1, <2>1, <2>2 DEF Life!lifeVars, Takers, LivesOf
  <2>3. CASE LifeOf(t) = "ended"
    <3>1. Life!Conclude(t)
      BY <1>1, <1>4, <2>1, <2>3 DEF Life!Conclude, Takers, LivesOf
    <3> QED
      BY <3>1 DEF Life!Next
  <2> QED
    BY <1>3, <1>5, <2>2, <2>3
<1>6. CASE LifeOf(t) = "open" /\ LifeOf(t)' = "ended"
  <2>1. LivesOf' = [LivesOf EXCEPT ![t] = "ended"] /\ LivesOf[t] = "open"
    BY <1>2, <1>6 DEF LivesOf
  <2>2. Life!End(t)
    BY <1>1, <1>4, <2>1 DEF Life!End, Takers, LivesOf
  <2> QED
    BY <2>2 DEF Life!Next
<1> QED
  BY <1>3, <1>5, <1>6

LEMMA CommitAcceptIsAccept ==
    ASSUME IInv, NEW s \in Sessions, CommitAccept(s)
    PROVE  Life!Next
<1> PICK t \in Tasks : t = step[s].task
  BY DEF IInv, StepGood, CommitAccept, At
<1> DEFINE prior == session[s].window
<1>1. /\ accepted[t] = None /\ terminal[t] = None /\ closed[t] = None
      /\ prior # t
  <2>1. accepted[t] = None
    BY DEF IInv, Claims, CommitAccept, At
  <2>2. prior # t
    BY <2>1, NoneAssumption DEF IInv, SessionGood
  <2> QED
    BY <2>1, <2>2 DEF IInv, TasksGood, TaskGood
<1>2. /\ accepted'[t] = s /\ UNCHANGED <<lineage, terminal>>
      /\ \A u \in Tasks \ {t} : accepted'[u] = accepted[u]
      /\ closed' = [u \in Tasks |-> IF u = prior /\ Open(u) THEN "superseded" ELSE closed[u]]
  BY DEF IInv, TypeOK, CommitAccept
<1>3. "superseded" # None
  BY NothingAssumption DEF Closures
<1>4. LifeOf(t) = "absent" /\ LifeOf(t)' = "open"
  BY <1>1, <1>2, NoneAssumption DEF LifeOf
<1>5. \A u \in Tasks \ {t} :
         IF u = prior /\ LifeOf(u) = "open" THEN LifeOf(u)' = "ended" ELSE LifeOf(u)' = LifeOf(u)
  BY <1>2, <1>3 DEF LifeOf, Open
<1>6. Takers' = Takers \cup {<<t, s>>}
  BY <1>1, <1>2, NoneAssumption DEF Takers
<1> DEFINE ending == {u \in Tasks : u = prior /\ LifeOf(u) = "open"}
<1>7. LivesOf' = [u \in Tasks |-> IF u = t THEN "open"
                                  ELSE IF u \in ending THEN "ended" ELSE LivesOf[u]]
  BY <1>4, <1>5 DEF LivesOf
<1>8. LivesOf[t] = "absent" /\ ending \in SUBSET {u \in Tasks : LivesOf[u] = "open"}
  BY <1>4 DEF LivesOf
<1>9. Life!MayWrite({u \in Tasks : LivesOf'[u] = "ended"})
  <2>1. TypeOK' /\ Grows
    BY StepKeeps DEF IInv, Next, Accepts
  <2>2. ASSUME NEW u \in Tasks, LifeOf(u)' # "ended"
        PROVE  closed'[u] = closed[u] /\ terminal'[u] = terminal[u]
    BY <1>1, <1>2, <1>3, <2>2 DEF LifeOf, Open
  <2>3. \A u \in Tasks \ {v \in Tasks : LivesOf'[v] = "ended"} :
           closed'[u] = closed[u] /\ terminal'[u] = terminal[u]
    BY <2>2 DEF LivesOf
  <2> QED
    BY <2>1, <2>3, Writes
<1>10. Life!Accept(s, t)
  <2> HIDE DEF ending
  <2> QED
    BY <1>6, <1>7, <1>8, <1>9 DEF Life!Accept, Takers, LivesOf
<1> QED
  BY <1>10 DEF Life!Next

LEMMA RecordSessionIsTakeUp ==
    ASSUME IInv, NEW s \in Sessions, RecordSession(s)
    PROVE  Life!Next \/ UNCHANGED Life!lifeVars
<1> PICK t \in Tasks : t = step[s].task /\ accepted[t] # None
  BY DEF IInv, StepGood, RecordSession, At
<1>1. UNCHANGED <<accepted, closed, terminal>> /\ LivesOf' = LivesOf
  BY DEF RecordSession, LivesOf, LifeOf
<1>2. CASE UNCHANGED lineage
  BY <1>1, <1>2 DEF Life!lifeVars, LivesOf, LifeOf
<1>3. CASE MayTakeUp(t) /\ lineage' = lineage \cup {<<t, s>>}
  <2>1. LivesOf[t] = "open"
    BY <1>3 DEF LivesOf, LifeOf, MayTakeUp
  <2>2. Takers' = Takers \cup {<<t, s>>}
    BY <1>1, <1>3 DEF Takers
  <2>3. Life!TakeUp(s, t)
    BY <1>1, <2>1, <2>2 DEF Life!TakeUp, LivesOf, Takers
  <2> QED
    BY <2>3 DEF Life!Next
<1> QED
  BY <1>2, <1>3 DEF RecordSession

\* A step that changes no record, event or receipt is a stutter.
LEMMA Stutters ==
    ASSUME UNCHANGED <<accepted, lineage, closed, terminal>>
    PROVE  UNCHANGED Life!lifeVars
BY DEF Life!lifeVars, LifeOf

LEMMA StepImplements ==
    ASSUME IInv, [Next]_vars
    PROVE  Life!Next \/ UNCHANGED Life!lifeVars
<1>1. CASE UNCHANGED vars
  BY <1>1, Stutters DEF vars
<1>2. CASE Next
  <2> PICK s \in Sessions :
         Lifetime(s) \/ Accepts(s) \/ Rebinds(s) \/ Abandons(s) \/ Learns(s) \/ Ends(s)
    BY <1>2 DEF Next
  <2>1. CASE Lifetime(s)
    BY <2>1, Stutters DEF Lifetime, Crash, GiveUp, NewSession, Stored
  <2>2. CASE Accepts(s)
    BY <2>2, Stutters, CommitAcceptIsAccept DEF Accepts, BeginAccept, Stored
  <2>3. CASE Rebinds(s)
    BY <2>3, Stutters, RecordSessionIsTakeUp DEF Rebinds, BeginRebind, Stored
  <2>4. CASE Abandons(s)
    <3>1. CASE \E t \in Tasks : BeginAbandon(s, t)
      BY <3>1, Stutters DEF BeginAbandon, Stored
    <3>2. CASE Discard(s)
      <4>1. step[s].task \in Tasks /\ accepted[step[s].task] # None
        BY <3>2 DEF IInv, StepGood, Discard, At
      <4>2. \A u \in Tasks \ {step[s].task} : closed'[u] = closed[u]
        BY <3>2 DEF IInv, TypeOK, Discard
      <4> QED
        BY <3>2, <4>1, <4>2, StepKeeps, EndsAtMostOne DEF IInv, Discard
    <3> QED
      BY <2>4, <3>1, <3>2 DEF Abandons
  <2>5. CASE Learns(s)
    BY <2>5, Stutters DEF Learns, BeginLearning, Activate, FailGate, Assess, Repeat, Stored
  <2>6. CASE Ends(s)
    <3>1. CASE Inspect(s) \/ \E status \in Stops : SafeStop(s, status)
      BY <3>1, Stutters DEF Inspect, SafeStop, Stored
    <3>2. CASE Persist(s) \/ Close(s)
      <4>1. step[s].task \in Tasks /\ accepted[step[s].task] # None
        BY <3>2 DEF IInv, StepGood, Persist, Close, At
      <4>2. \A u \in Tasks \ {step[s].task} :
               closed'[u] = closed[u] /\ terminal'[u] = terminal[u]
        BY <3>2 DEF IInv, TypeOK, Persist, Close
      <4> QED
        BY <3>2, <4>1, <4>2, StepKeeps, EndsAtMostOne DEF IInv, Persist, Close
    <3> QED
      BY <2>6, <3>1, <3>2 DEF Ends
  <2> QED
    BY <2>1, <2>2, <2>3, <2>4, <2>5, <2>6
<1> QED
  BY <1>1, <1>2

\* The task authority implements TaskLife: whatever interleaves, fails or crashes,
\* no task is taken up after it ended, ended twice, or reopened.
THEOREM ImplementsLife == Spec => ImplementsTaskLife
<1>1. Init => Life!Init
  BY NoneAssumption DEF Init, Life!Init, LifeOf
<1>2. IInv /\ [Next]_vars => [Life!Next]_(Life!lifeVars)
  BY StepImplements
<1> QED
  BY <1>1, <1>2, Inductive, PTL DEF Spec, ImplementsTaskLife, Life!Spec
=============================================================================
