------------------------- MODULE OwnerApprovalProofs -------------------------
(***************************************************************************)
(* The safety of the owner's approvals, for any number of callers and      *)
(* requests and any bounds.  Four facts carry the argument: the store      *)
(* only ever settles open requests (StoreGrows), every caller's request is *)
(* about the caller's own subject (CallersLinked), every grant was made at *)
(* an earlier generation than the present one (GrantsLinked), and what is  *)
(* read from a thread stands in it, so that an exact answer was in time    *)
(* (Timely).                                                               *)
(***************************************************************************)
EXTENDS OwnerApproval, TLAPS

Waiting  == {"posting", "marking", "reading", "accepting", "superseding", "fallback"}
Deciding == {"superseding", "rechecking", "committing"}

\* A step of the store keeps every row, what it shows and what it was settled to.
StoreGrows ==
    \A r \in Used :
        /\ requests'[r] # None
        /\ requests'[r].shown = requests[r].shown
        /\ requests'[r].challenge = requests[r].challenge
        /\ requests'[r].channel = requests[r].channel
        /\ ~OpenRow(r) => requests'[r] = requests[r]

\* The challenge of a row is its subject, and only the owner answers.
RowsFaithful ==
    \A r \in Used :
        /\ requests[r].challenge = requests[r].shown
        /\ requests[r].status = "answered" => requests[r].by = "owner"

\* Row r is about this subject.
About(r, subject) == r \in Used /\ requests[r].shown = subject

\* Row r holds the owner's exact answer.
Answered(r) == requests[r].status = "answered" /\ requests[r].response = "exact" /\ requests[r].by = "owner"

CallerLinked(c) ==
    /\ caller[c].at # "idle" => caller[c].subject \in Subjects
    /\ caller[c].at \in Waiting \cup Deciding => About(caller[c].request, caller[c].subject)
    /\ caller[c].at \in Deciding => Answered(caller[c].request)

CallersLinked == \A c \in Callers : CallerLinked(c)

GrantsLinked ==
    \A g \in grants :
        /\ About(g.request, g.subject) /\ Answered(g.request)
        /\ g.generation = g.subject.generation
        /\ g.generation < workflow.generation

StoreInv == RowsFaithful /\ ChallengeConsumedOnce
GrantInv == GrantsLinked /\ OneReplyOneGrant
IInv     == TypeOK /\ StoreInv /\ CallersLinked /\ GrantInv

-----------------------------------------------------------------------------
(* What a growing store preserves.                                         *)

\* A caller's request stays about its subject, and an answer stays recorded.
LEMMA Kept ==
    ASSUME StoreGrows, NEW r, NEW subject, About(r, subject)
    PROVE  About(r, subject)' /\ (Answered(r) => Answered(r)')
BY DEF StoreGrows, About, Answered, Used, OpenRow

\* Every caller but the one that moves keeps its link.
LEMMA OthersLinked ==
    ASSUME CallersLinked, StoreGrows, NEW c \in Callers, CallerLinked(c)',
           \A d \in Callers \ {c} : caller'[d] = caller[d]
    PROVE  CallersLinked'
<1> SUFFICES ASSUME NEW d \in Callers \ {c} PROVE CallerLinked(d)'
  BY DEF CallersLinked
<1>1. CallerLinked(d) /\ caller'[d] = caller[d]
  BY DEF CallersLinked
<1>2. caller[d].at \in Waiting \cup Deciding =>
          About(caller[d].request, caller[d].subject)'
  BY <1>1, Kept DEF CallerLinked, About, Used
<1>3. caller[d].at \in Deciding => Answered(caller[d].request)'
  BY <1>1, Kept DEF CallerLinked, About, Used, Answered
<1> QED
  BY <1>1, <1>2, <1>3 DEF CallerLinked, About, Used, Answered

\* Grants are untouched by a step that neither commits nor moves the workflow.
LEMMA GrantsKept ==
    ASSUME GrantInv, StoreGrows, UNCHANGED <<workflow, grants>>
    PROVE  GrantInv'
<1>1. ASSUME NEW g \in grants
      PROVE  About(g.request, g.subject)' /\ Answered(g.request)'
  BY Kept DEF GrantInv, GrantsLinked, About, Answered, Used
<1> QED
  BY <1>1 DEF GrantInv, GrantsLinked, OneReplyOneGrant, About, Answered, Used

\* A store that does not change grows, and keeps its invariant.
LEMMA StoreUntouched ==
    ASSUME StoreInv, UNCHANGED requests
    PROVE  StoreGrows /\ StoreInv'
BY DEF StoreInv, StoreGrows, RowsFaithful, ChallengeConsumedOnce, Consumed, RowsOf, Used

\* Moving open requests to any status but answered grows the store.
LEMMA StatusStep ==
    ASSUME TypeOK, StoreInv, NEW S \in SUBSET {r \in Used : OpenRow(r)},
           NEW status \in {"pending", "expired", "failed", "superseded"}, SetStatus(S, status)
    PROVE  /\ requests' \in [Requests -> Rows \cup {None}]
           /\ StoreGrows /\ StoreInv'
<1>1. \A r \in Used : requests[r] \in Rows
  BY DEF TypeOK, Used
<1>2. ASSUME NEW r \in S PROVE requests'[r] \in Rows /\ requests'[r].status = status
                                /\ requests'[r].shown = requests[r].shown
                                /\ requests'[r].challenge = requests[r].challenge
                                /\ requests'[r].channel = requests[r].channel
  BY <1>1 DEF SetStatus, Used, Rows
<1>3. \A r \in Requests \ S : requests'[r] = requests[r]
  BY DEF SetStatus
<1>4. requests' \in [Requests -> Rows \cup {None}]
  <2>1. \A r \in Requests : requests'[r] \in Rows \cup {None}
    BY <1>2, <1>3 DEF TypeOK
  <2> QED
    BY <2>1 DEF SetStatus
<1>5. Used' = Used
  BY <1>1, <1>2, <1>3, RowAssumption DEF Used
<1>6. StoreGrows
  BY <1>1, <1>2, <1>3, RowAssumption DEF StoreGrows, OpenRow, Used
<1>7. RowsFaithful'
  BY <1>1, <1>2, <1>3, <1>5 DEF StoreInv, RowsFaithful, Used
<1>8. \A r \in Used : requests'[r].status = "answered" => requests'[r] = requests[r]
  BY <1>1, <1>2, <1>3 DEF OpenRow, Used
<1>9. ChallengeConsumedOnce'
  BY <1>5, <1>6, <1>8 DEF StoreInv, StoreGrows, ChallengeConsumedOnce, Consumed, RowsOf
<1> QED
  BY <1>4, <1>6, <1>7, <1>9 DEF StoreInv

-----------------------------------------------------------------------------
(* How a caller moves.                                                     *)

CallerRecords == [at: Steps, channel: {"slack", "chat"}, subject: Subjects \cup {None},
                  request: Requests \cup {None}, seen: Seq(Replies)]

\* A caller goes to a step of the protocol whose precondition the store meets.
LEMMA Moved ==
    ASSUME TypeOK, CallersLinked, StoreGrows, NEW c \in Callers,
           NEW x \in CallerRecords, caller' = [caller EXCEPT ![c] = x],
           x.at # "idle" => x.subject \in Subjects,
           x.at \in Waiting \cup Deciding => About(x.request, x.subject)',
           x.at \in Deciding => Answered(x.request)'
    PROVE  caller' \in [Callers -> CallerRecords] /\ CallersLinked'
<1>1. caller' \in [Callers -> CallerRecords]
  BY DEF TypeOK, CallerRecords
<1>2. caller'[c] = x /\ \A d \in Callers \ {c} : caller'[d] = caller[d]
  BY DEF TypeOK
<1>3. CallerLinked(c)'
  BY <1>2 DEF CallerLinked, About, Answered, Used
<1> QED
  BY <1>1, <1>2, <1>3, OthersLinked

\* A caller that returns has no obligations left.
LEMMA Returned ==
    ASSUME TypeOK, CallersLinked, StoreGrows, NEW c \in Callers, Return(c)
    PROVE  caller' \in [Callers -> CallerRecords] /\ CallersLinked'
<1>1. Idle \in CallerRecords /\ Idle.at = "idle"
  BY DEF Idle, CallerRecords, Steps
<1> QED
  BY <1>1, Moved DEF Return, Waiting, Deciding

\* A caller that goes on keeps its request; an answer is needed to decide.
LEMMA Went ==
    ASSUME TypeOK, CallersLinked, StoreGrows, NEW c \in Callers, NEW step \in Steps \ {"idle"},
           Goto(c, step), caller[c].at # "idle",
           step \in Waiting \cup Deciding => About(caller[c].request, caller[c].subject),
           NEW r, r = caller[c].request, step \in Deciding => Answered(r)'
    PROVE  caller' \in [Callers -> CallerRecords] /\ CallersLinked'
<1> DEFINE x == [caller[c] EXCEPT !.at = step, !.seen = <<>>]
<1>1. caller[c] \in CallerRecords /\ CallerLinked(c)
  BY DEF TypeOK, CallerRecords, CallersLinked
<1>2. x \in CallerRecords /\ x.at = step /\ x.request = r /\ x.subject = caller[c].subject
  <2>1. <<>> \in Seq(Replies) /\ step \in Steps
    OBVIOUS
  <2> QED
    BY <1>1, <2>1 DEF CallerRecords
<1>3. caller' = [caller EXCEPT ![c] = x]
  BY DEF Goto
<1>4. PICK y : y = x
  OBVIOUS
<1>5. y.at \in Waiting \cup Deciding => About(y.request, y.subject)'
  BY <1>2, <1>4, Kept
<1> QED
  BY <1>1, <1>2, <1>3, <1>4, <1>5, Moved DEF CallerLinked

\* A caller that finds the answer of its challenge may go on to decide.
LEMMA ReplyFound ==
    ASSUME TypeOK, StoreInv, CallersLinked, NEW c \in Callers, UNCHANGED requests,
           caller[c].at # "idle", NEW r \in Consumed(Challenge(c)), UseReply(c, r)
    PROVE  caller' \in [Callers -> CallerRecords] /\ CallersLinked'
<1> DEFINE x == [caller[c] EXCEPT !.at = "rechecking", !.request = r]
<1>1. caller[c] \in CallerRecords /\ caller[c].subject \in Subjects
  BY DEF TypeOK, CallerRecords, CallersLinked, CallerLinked
<1>2. r \in Used /\ requests[r].shown = caller[c].subject /\ Answered(r)
  BY DEF Consumed, RowsOf, Challenge, ChallengeFor, StoreInv, RowsFaithful, Answered
<1>3. x \in CallerRecords /\ x.at = "rechecking" /\ x.request = r /\ x.subject = caller[c].subject
  BY <1>1, <1>2 DEF CallerRecords, Steps, Used
<1>4. caller' = [caller EXCEPT ![c] = x]
  BY DEF UseReply
<1>5. StoreGrows
  BY StoreUntouched
<1>6. PICK y : y = x
  OBVIOUS
<1>7. About(y.request, y.subject)' /\ Answered(y.request)'
  BY <1>2, <1>3, <1>6 DEF About, Answered, Used
<1> QED
  BY <1>1, <1>3, <1>4, <1>5, <1>6, <1>7, Moved

-----------------------------------------------------------------------------
(* The two steps of the store that are more than a change of status.       *)

\* A new request is open, so it consumes no challenge.
LEMMA CreateStep ==
    ASSUME TypeOK, StoreInv, NEW r \in Requests \ Used, NEW row \in Rows,
           row.status = "created", row.challenge = row.shown,
           requests' = [requests EXCEPT ![r] = row]
    PROVE  requests' \in [Requests -> Rows \cup {None}] /\ StoreGrows /\ StoreInv'
<1>1. requests' \in [Requests -> Rows \cup {None}]
  BY DEF TypeOK
<1>2. requests'[r] = row /\ (\A q \in Requests \ {r} : requests'[q] = requests[q])
  BY DEF TypeOK
<1>3. Used' = Used \cup {r}
  BY <1>2, RowAssumption DEF Used
<1>4. StoreGrows
  BY <1>2 DEF StoreGrows, Used
<1>5. RowsFaithful'
  BY <1>2, <1>3 DEF StoreInv, RowsFaithful, Used
<1>6. ChallengeConsumedOnce'
  BY <1>2, <1>3 DEF StoreInv, ChallengeConsumedOnce, Consumed, RowsOf, Used
<1> QED
  BY <1>1, <1>4, <1>5, <1>6 DEF StoreInv

\* An accepted reply is the owner's, and the first exact one of its challenge.
LEMMA AnswerStep ==
    ASSUME TypeOK, StoreInv, NEW r \in Used, NEW reply \in Replies, Accepts(r, reply),
           requests' = [requests EXCEPT ![r].status = "answered",
                            ![r].response = reply.text, ![r].by = reply.by]
    PROVE  /\ requests' \in [Requests -> Rows \cup {None}] /\ StoreGrows /\ StoreInv'
           /\ reply.text = "exact" => Answered(r)'
<1>1. requests[r] \in Rows /\ reply.text \in {"exact", "DECLINE"} /\ reply.by = "owner"
  BY DEF TypeOK, Used, Replies, Accepts
<1>2. \A q \in Requests \ {r} : requests'[q] = requests[q]
  BY DEF TypeOK
<1>3. /\ requests'[r] \in Rows /\ requests'[r].status = "answered"
      /\ requests'[r].response = reply.text /\ requests'[r].by = "owner"
      /\ requests'[r].shown = requests[r].shown /\ requests'[r].challenge = requests[r].challenge
      /\ requests'[r].channel = requests[r].channel
  BY <1>1 DEF TypeOK, Used, Rows
<1>4. requests' \in [Requests -> Rows \cup {None}]
  <2>1. requests' = [q \in Requests |-> requests'[q]]
    BY DEF TypeOK
  <2> QED
    BY <1>2, <1>3, <2>1 DEF TypeOK
<1>5. Used' = Used
  BY <1>1, <1>2, <1>3, RowAssumption DEF Used
<1>6. StoreGrows
  BY <1>1, <1>2, <1>3, RowAssumption DEF StoreGrows, OpenRow, Accepts, Used
<1>7. RowsFaithful'
  BY <1>2, <1>3, <1>5 DEF StoreInv, RowsFaithful, Used
<1>8. ChallengeConsumedOnce'
  <2>1. Consumed(requests[r].challenge) = {}
    BY DEF Accepts
  <2>2. \A q \in Used : q # r /\ requests[q].challenge = requests[r].challenge
            => ~(requests'[q].status = "answered" /\ requests'[q].response = "exact")
    BY <1>2, <2>1 DEF Consumed, RowsOf, Used
  <2> QED
    <3> SUFFICES ASSUME NEW p \in Used, NEW q \in Used, requests'[q].challenge = requests'[p].challenge,
                        requests'[p].status = "answered", requests'[p].response = "exact",
                        requests'[q].status = "answered", requests'[q].response = "exact"
                 PROVE  p = q
      BY <1>5 DEF ChallengeConsumedOnce, Consumed, RowsOf
    <3>1. p # r /\ q # r => p = q
      BY <1>2 DEF StoreInv, ChallengeConsumedOnce, Consumed, RowsOf, Used
    <3>2. p = r => q = r
      BY <1>2, <1>3, <2>2 DEF Used
    <3>3. q = r => p = r
      BY <1>2, <1>3, <2>2 DEF Used
    <3> QED
      BY <3>1, <3>2, <3>3
<1> QED
  BY <1>3, <1>4, <1>6, <1>7, <1>8 DEF StoreInv, Answered

-----------------------------------------------------------------------------
(* The steps of a caller.                                                  *)

\* A step that moves the store and one caller keeps the invariant.
LEMMA Composed ==
    ASSUME IInv, StoreGrows, StoreInv', requests' \in [Requests -> Rows \cup {None}],
           caller' \in [Callers -> CallerRecords], CallersLinked',
           thread' \in [Requests -> Seq(Replies)],
           UNCHANGED <<workflow, late, grants>>
    PROVE  IInv'
<1>1. GrantInv'
  BY GrantsKept DEF IInv
<1>2. TypeOK'
  BY DEF IInv, TypeOK, CallerRecords
<1> QED
  BY <1>1, <1>2 DEF IInv

\* Asking: prepare the subject, look for an answer, open and post a request.
LEMMA AskStep ==
    ASSUME IInv, NEW c \in Callers, Asks(c)
    PROVE  IInv' /\ StoreGrows
<1> USE DEF At
<1>0. /\ TypeOK /\ StoreInv /\ CallersLinked /\ CallerLinked(c) /\ caller[c] \in CallerRecords
      /\ thread \in [Requests -> Seq(Replies)]
      /\ requests \in [Requests -> Rows \cup {None}]
  BY DEF IInv, TypeOK, CallersLinked, CallerRecords
<1>1. ASSUME NEW channel \in {"slack", "chat"}, Prepare(c, channel)
      PROVE  IInv' /\ StoreGrows
  <2> DEFINE x == [Idle EXCEPT !.at = "looking", !.channel = channel, !.subject = CurrentSubject]
  <2>1. CurrentSubject \in Subjects
    BY <1>0 DEF CurrentSubject, Subjects, TypeOK, Generations
  <2>2. x \in CallerRecords /\ x.at = "looking" /\ x.subject = CurrentSubject
    <3>1. <<>> \in Seq(Replies)
      OBVIOUS
    <3> QED
      BY <2>1, <3>1 DEF Idle, CallerRecords, Steps
  <2>3. caller' = [caller EXCEPT ![c] = x] /\ UNCHANGED <<workflow, requests, thread, late, grants>>
    BY <1>1 DEF Prepare
  <2>4. StoreGrows /\ StoreInv'
    BY <1>0, <2>3, StoreUntouched
  <2>5. PICK y : y = x
    OBVIOUS
  <2>6. caller' \in [Callers -> CallerRecords] /\ CallersLinked'
    BY <1>0, <2>1, <2>2, <2>3, <2>4, <2>5, Moved DEF Waiting, Deciding
  <2> QED
    BY <1>0, <2>3, <2>4, <2>6, Composed
<1>2. CASE Look(c)
  <2>1. UNCHANGED <<workflow, requests, thread, late, grants>> /\ caller[c].at = "looking"
    BY <1>2 DEF Look
  <2>2. StoreGrows /\ StoreInv'
    BY <1>0, <2>1, StoreUntouched
  <2>3. CASE \E r \in Consumed(Challenge(c)) : UseReply(c, r)
    BY <1>0, <2>1, <2>2, <2>3, ReplyFound, Composed
  <2>4. CASE Goto(c, "creating")
    <3>1. caller' \in [Callers -> CallerRecords] /\ CallersLinked'
      BY <1>0, <2>1, <2>2, <2>4, Went DEF Steps, Waiting, Deciding
    <3> QED
      BY <1>0, <2>1, <2>2, <3>1, Composed
  <2>5. ASSUME NEW r \in RowsOf(Challenge(c)),
               caller' = [caller EXCEPT ![c].at = "reading", ![c].request = r]
        PROVE  IInv' /\ StoreGrows
    <3> DEFINE x == [caller[c] EXCEPT !.at = "reading", !.request = r]
    <3>1. About(r, caller[c].subject) /\ r \in Requests
      BY <1>0 DEF RowsOf, Challenge, ChallengeFor, StoreInv, RowsFaithful, About, Used
    <3>2. /\ x \in CallerRecords /\ x.at = "reading" /\ x.request = r
          /\ x.subject = caller[c].subject /\ x.subject \in Subjects
      BY <1>0, <2>1, <3>1 DEF CallerRecords, Steps, CallerLinked
    <3>3. caller' = [caller EXCEPT ![c] = x]
      BY <2>5
    <3>4. PICK y : y = x
      OBVIOUS
    <3>5. About(y.request, y.subject)'
      BY <2>2, <3>1, <3>2, <3>4, Kept
    <3>6. caller' \in [Callers -> CallerRecords] /\ CallersLinked'
      BY <1>0, <2>2, <3>2, <3>3, <3>4, <3>5, Moved DEF Deciding
    <3> QED
      BY <1>0, <2>1, <2>2, <3>6, Composed
  <2> QED
    BY <1>2, <2>3, <2>4, <2>5 DEF Look
<1>3. CASE Create(c)
  <2>1. PICK r \in Requests \ Used :
          /\ requests' = [requests EXCEPT ![r] =
                [shown |-> caller[c].subject, challenge |-> Challenge(c),
                 channel |-> caller[c].channel, status |-> "created",
                 response |-> None, by |-> None]]
          /\ caller' = [caller EXCEPT ![c].at = "posting", ![c].request = r]
    BY <1>3 DEF Create
  <2>2. caller[c].at = "creating" /\ UNCHANGED <<workflow, thread, late, grants>>
    BY <1>3 DEF Create
  <2> DEFINE row == [shown |-> caller[c].subject, challenge |-> Challenge(c),
                     channel |-> caller[c].channel, status |-> "created",
                     response |-> None, by |-> None]
             x == [caller[c] EXCEPT !.at = "posting", !.request = r]
  <2>3. row \in Rows /\ row.status = "created" /\ row.challenge = row.shown
    BY <1>0, <2>2 DEF CallerRecords, CallerLinked, Rows, Challenge, ChallengeFor
  <2>4. requests' \in [Requests -> Rows \cup {None}] /\ StoreGrows /\ StoreInv'
    BY <1>0, <2>1, <2>3, CreateStep
  <2>5. /\ x \in CallerRecords /\ x.at = "posting" /\ x.request = r
        /\ x.subject = caller[c].subject /\ x.subject \in Subjects
    BY <1>0, <2>2 DEF CallerRecords, Steps, CallerLinked
  <2>6. requests'[r] # None /\ requests'[r].shown = caller[c].subject
    BY <1>0, <2>1, <2>3, RowAssumption
  <2>7. caller' = [caller EXCEPT ![c] = x]
    BY <2>1
  <2>8. PICK y : y = x
    OBVIOUS
  <2>9. About(y.request, y.subject)'
    BY <2>5, <2>6, <2>8 DEF About, Used
  <2>10. caller' \in [Callers -> CallerRecords] /\ CallersLinked'
    BY <1>0, <2>4, <2>5, <2>7, <2>8, <2>9, Moved DEF Deciding
  <2> QED
    BY <1>0, <2>2, <2>4, <2>10, Composed
<1>4. CASE Post(c)
  <2>1. caller[c].at = "posting" /\ Goto(c, "marking") /\ UNCHANGED <<workflow, requests, late, grants>>
    BY <1>4 DEF Post
  <2>2. StoreGrows /\ StoreInv'
    BY <1>0, <2>1, StoreUntouched
  <2>3. caller' \in [Callers -> CallerRecords] /\ CallersLinked'
    BY <1>0, <2>1, <2>2, Went DEF Steps, Waiting, Deciding, CallerLinked
  <2>4. [text |-> "exact", by |-> "owner", late |-> caller[c].request \in late] \in Replies
    BY DEF Replies
  <2>5. thread' \in [Requests -> Seq(Replies)]
    <3> DEFINE reply == [text |-> "exact", by |-> "owner", late |-> caller[c].request \in late]
    <3>1. <<reply>> \in Seq(Replies)
      <4> HIDE DEF reply, Replies
      <4> QED
        BY <2>4 DEF reply
    <3>2. thread[caller[c].request] \in Seq(Replies)
      BY <1>0, <2>1 DEF CallerLinked, Waiting, About, Used
    <3>3. PICK posted \in Seq(Replies) : thread' = [thread EXCEPT ![caller[c].request] = posted]
      BY <1>4, <3>1, <3>2 DEF Post
    <3> QED
      BY <1>0, <3>3
  <2> QED
    BY <1>0, <2>1, <2>2, <2>3, <2>5, Composed
<1>5. CASE TransportFails(c)
  <2>1. caller[c].at \in Waiting
    BY <1>5 DEF TransportFails, Waiting
  <2>2. {r \in {caller[c].request} : OpenRow(r)} \subseteq {r \in Used : OpenRow(r)}
    BY <1>0, <2>1 DEF CallerLinked, About
  <2>3. requests' \in [Requests -> Rows \cup {None}] /\ StoreGrows /\ StoreInv'
    BY <1>0, <1>5, <2>2, StatusStep DEF TransportFails
  <2>4. caller' \in [Callers -> CallerRecords] /\ CallersLinked'
    BY <1>0, <1>5, <2>3, Returned DEF TransportFails
  <2> QED
    BY <1>0, <1>5, <2>3, <2>4, Composed DEF TransportFails
<1>6. CASE MarkDelivered(c)
  <2>1. caller[c].at = "marking" /\ UNCHANGED <<workflow, thread, late, grants>>
    BY <1>6 DEF MarkDelivered
  <2>2. About(caller[c].request, caller[c].subject)
    BY <1>0, <2>1 DEF CallerLinked, Waiting
  <2>3. CASE Row(c).status = "created" /\ SetStatus({caller[c].request}, "pending") /\ Goto(c, "reading")
    <3>1. {caller[c].request} \subseteq {r \in Used : OpenRow(r)}
      BY <2>2, <2>3 DEF About, OpenRow, Row
    <3>2. requests' \in [Requests -> Rows \cup {None}] /\ StoreGrows /\ StoreInv'
      BY <1>0, <2>3, <3>1, StatusStep
    <3>3. caller' \in [Callers -> CallerRecords] /\ CallersLinked'
      BY <1>0, <2>1, <2>2, <2>3, <3>2, Went DEF Steps, Deciding
    <3> QED
      BY <1>0, <2>1, <3>2, <3>3, Composed
  <2>4. CASE UNCHANGED requests /\ Return(c)
    <3>1. StoreGrows /\ StoreInv'
      BY <1>0, <2>4, StoreUntouched
    <3>2. caller' \in [Callers -> CallerRecords] /\ CallersLinked'
      BY <1>0, <2>4, <3>1, Returned
    <3> QED
      BY <1>0, <2>1, <2>4, <3>1, <3>2, Composed
  <2> QED
    BY <1>6, <2>3, <2>4 DEF MarkDelivered
<1> QED
  BY <1>1, <1>2, <1>3, <1>4, <1>5, <1>6 DEF Asks

\* Where the current record of a request leads its caller.
LEMMA OutcomeStep ==
    ASSUME TypeOK, CallersLinked, StoreGrows, NEW c \in Callers, caller[c].at \in {"reading", "accepting"},
           NEW status \in {"created", "pending", "answered", "expired", "failed", "superseded"},
           NEW response, Outcome(c, status, response),
           NEW r, r = caller[c].request, status = "answered" /\ response = "exact" => Answered(r)'
    PROVE  caller' \in [Callers -> CallerRecords] /\ CallersLinked'
<1>1. \/ Return(c) \/ Goto(c, "reading") \/ Goto(c, "fallback")
      \/ Goto(c, "superseding") /\ status = "answered" /\ response = "exact"
  BY DEF Outcome
<1>2. caller[c].at # "idle" /\ About(caller[c].request, caller[c].subject)
  BY DEF CallersLinked, CallerLinked, Waiting
<1>3. CASE Return(c)
  BY <1>3, Returned
<1>4. CASE Goto(c, "reading")
  BY <1>2, <1>4, Went DEF Steps, Deciding
<1>5. CASE Goto(c, "fallback")
  BY <1>2, <1>5, Went DEF Steps, Deciding
<1>6. CASE Goto(c, "superseding") /\ status = "answered" /\ response = "exact"
  BY <1>2, <1>6, Went DEF Steps
<1> QED
  BY <1>1, <1>3, <1>4, <1>5, <1>6

\* Polling: read the replies, take one, settle the request, look elsewhere.
LEMMA PollStep ==
    ASSUME IInv, NEW c \in Callers, Polls(c)
    PROVE  IInv' /\ StoreGrows
<1> USE DEF At
<1>0. /\ TypeOK /\ StoreInv /\ CallersLinked /\ CallerLinked(c) /\ caller[c] \in CallerRecords
      /\ thread \in [Requests -> Seq(Replies)]
      /\ requests \in [Requests -> Rows \cup {None}]
  BY DEF IInv, TypeOK, CallersLinked, CallerRecords
<1> DEFINE req == caller[c].request
<1>a. PICK r : r = req
  OBVIOUS
<1>b. caller[c].at \in Waiting => About(r, caller[c].subject) /\ r \in Used /\ requests[r] \in Rows
  BY <1>0, <1>a DEF CallerLinked, About, Used
<1>c. \A q \in Used : requests[q].status = "answered" /\ requests[q].response = "exact" => Answered(q)
  BY <1>0 DEF StoreInv, RowsFaithful, Answered
<1>1. CASE Read(c)
  <2>1. UNCHANGED <<workflow, requests, thread, late, grants>> /\ caller[c].at = "reading"
    BY <1>1 DEF Read
  <2>2. StoreGrows /\ StoreInv'
    BY <1>0, <2>1, StoreUntouched
  <2>3. About(r, caller[c].subject) /\ r \in Used /\ requests[r] \in Rows
    BY <1>b, <2>1 DEF Waiting
  <2>4. CASE caller' = [caller EXCEPT ![c].at = "accepting", ![c].seen = thread[req]]
             /\ Row(c).status = "pending"
    <3> DEFINE x == [caller[c] EXCEPT !.at = "accepting", !.seen = thread[req]]
    <3>1. thread[req] \in Seq(Replies)
      BY <1>0, <1>a, <2>3 DEF Used
    <3>2. /\ x \in CallerRecords /\ x.at = "accepting" /\ x.request = r
          /\ x.subject = caller[c].subject /\ x.subject \in Subjects
      BY <1>0, <1>a, <2>1, <3>1 DEF CallerRecords, Steps, CallerLinked
    <3>3. caller' = [caller EXCEPT ![c] = x]
      BY <2>4
    <3>4. PICK y : y = x
      OBVIOUS
    <3>5. About(y.request, y.subject)'
      BY <2>2, <2>3, <3>2, <3>4, Kept
    <3>6. caller' \in [Callers -> CallerRecords] /\ CallersLinked'
      BY <1>0, <2>2, <3>2, <3>3, <3>4, <3>5, Moved DEF Deciding
    <3> QED
      BY <1>0, <2>1, <2>2, <3>6, Composed
  <2>5. CASE Outcome(c, Row(c).status, Row(c).response)
    <3>1. PICK status, response : status = Row(c).status /\ response = Row(c).response
      OBVIOUS
    <3>2. status \in {"created", "pending", "answered", "expired", "failed", "superseded"}
      BY <1>a, <2>3, <3>1 DEF Row, Rows
    <3>3. status = "answered" /\ response = "exact" => Answered(r)'
      BY <1>a, <1>c, <2>1, <2>3, <3>1 DEF Row, Answered
    <3>4. caller' \in [Callers -> CallerRecords] /\ CallersLinked'
      BY <1>0, <1>a, <2>1, <2>2, <2>5, <3>1, <3>2, <3>3, OutcomeStep
    <3> QED
      BY <1>0, <2>1, <2>2, <3>4, Composed
  <2> QED
    BY <1>1, <2>4, <2>5 DEF Read
<1>2. CASE Accept(c)
  <2>1. UNCHANGED <<workflow, thread, late, grants>> /\ caller[c].at = "accepting"
    BY <1>2 DEF Accept
  <2>2. About(r, caller[c].subject) /\ r \in Used /\ requests[r] \in Rows
    BY <1>b, <2>1 DEF Waiting
  <2>3. ASSUME NEW i \in DOMAIN caller[c].seen, Accepts(r, caller[c].seen[i]),
               requests' = [requests EXCEPT ![r].status = "answered",
                   ![r].response = caller[c].seen[i].text, ![r].by = caller[c].seen[i].by],
               Outcome(c, "answered", caller[c].seen[i].text)
        PROVE  IInv' /\ StoreGrows
    <3>1. caller[c].seen[i] \in Replies
      <4>1. caller[c].seen \in Seq(Replies)
        BY <1>0 DEF CallerRecords
      <4> QED
        BY <4>1
    <3>2. PICK reply \in Replies : reply = caller[c].seen[i]
      BY <3>1
    <3>3. /\ requests' \in [Requests -> Rows \cup {None}] /\ StoreGrows /\ StoreInv'
          /\ reply.text = "exact" => Answered(r)'
      BY <1>0, <2>2, <2>3, <3>2, AnswerStep
    <3>4. caller' \in [Callers -> CallerRecords] /\ CallersLinked'
      BY <1>0, <1>a, <2>1, <2>3, <3>2, <3>3, OutcomeStep
    <3> QED
      BY <1>0, <2>1, <3>3, <3>4, Composed
  <2>4. CASE Row(c).status = "pending" /\ SetStatus({r}, "expired") /\ Outcome(c, "expired", None)
    <3>1. {r} \subseteq {q \in Used : OpenRow(q)}
      BY <1>a, <2>2, <2>4 DEF OpenRow, Row
    <3>2. requests' \in [Requests -> Rows \cup {None}] /\ StoreGrows /\ StoreInv'
      BY <1>0, <2>4, <3>1, StatusStep
    <3>3. caller' \in [Callers -> CallerRecords] /\ CallersLinked'
      BY <1>0, <1>a, <2>1, <2>4, <3>2, OutcomeStep
    <3> QED
      BY <1>0, <2>1, <3>2, <3>3, Composed
  <2>5. CASE UNCHANGED requests /\ Outcome(c, Row(c).status, Row(c).response)
    <3>1. PICK status, response : status = Row(c).status /\ response = Row(c).response
      OBVIOUS
    <3>2. status \in {"created", "pending", "answered", "expired", "failed", "superseded"}
      BY <1>a, <2>2, <3>1 DEF Row, Rows
    <3>3. status = "answered" /\ response = "exact" => Answered(r)'
      BY <1>a, <1>c, <2>2, <2>5, <3>1 DEF Row, Answered
    <3>4. StoreGrows /\ StoreInv'
      BY <1>0, <2>5, StoreUntouched
    <3>5. caller' \in [Callers -> CallerRecords] /\ CallersLinked'
      BY <1>0, <1>a, <2>1, <2>5, <3>1, <3>2, <3>3, <3>4, OutcomeStep
    <3> QED
      BY <1>0, <2>1, <2>5, <3>4, <3>5, Composed
  <2> QED
    BY <1>2, <1>a, <2>3, <2>4, <2>5 DEF Accept
<1>3. CASE Supersede(c)
  <2>1. UNCHANGED <<workflow, thread, late, grants>> /\ caller[c].at = "superseding"
    BY <1>3 DEF Supersede
  <2>2. About(r, caller[c].subject) /\ r \in Used /\ Answered(r)
    BY <1>0, <1>a, <1>b, <2>1 DEF Waiting, Deciding, CallerLinked
  <2>3. {q \in RowsOf(Challenge(c)) \ {req} : OpenRow(q)} \subseteq {q \in Used : OpenRow(q)}
    BY DEF RowsOf
  <2>4. requests' \in [Requests -> Rows \cup {None}] /\ StoreGrows /\ StoreInv'
    BY <1>0, <1>3, <2>3, StatusStep DEF Supersede
  <2>5. Answered(r)'
    BY <2>2, <2>4, Kept
  <2>6. caller' \in [Callers -> CallerRecords] /\ CallersLinked'
    BY <1>0, <1>3, <1>a, <2>1, <2>2, <2>4, <2>5, Went DEF Supersede, Steps
  <2> QED
    BY <1>0, <2>1, <2>4, <2>6, Composed
<1>4. CASE Fallback(c)
  <2>1. UNCHANGED <<workflow, requests, thread, late, grants>> /\ caller[c].at = "fallback"
    BY <1>4 DEF Fallback
  <2>2. StoreGrows /\ StoreInv'
    BY <1>0, <2>1, StoreUntouched
  <2>3. caller' \in [Callers -> CallerRecords] /\ CallersLinked'
    BY <1>0, <1>4, <2>1, <2>2, ReplyFound, Returned DEF Fallback
  <2> QED
    BY <1>0, <2>1, <2>2, <2>3, Composed
<1> QED
  BY <1>1, <1>2, <1>3, <1>4 DEF Polls

\* Deciding: prepare the subject again, commit at its generation, or crash.
LEMMA DecideStep ==
    ASSUME IInv, NEW c \in Callers, Decides(c)
    PROVE  IInv' /\ StoreGrows
<1> USE DEF At
<1>0. /\ TypeOK /\ StoreInv /\ CallersLinked /\ GrantInv /\ CallerLinked(c) /\ caller[c] \in CallerRecords
      /\ thread \in [Requests -> Seq(Replies)]
      /\ requests \in [Requests -> Rows \cup {None}]
  BY DEF IInv, TypeOK, CallersLinked, CallerRecords
<1>1. UNCHANGED <<requests, thread, late>> /\ StoreGrows /\ StoreInv'
  <2>1. UNCHANGED <<requests, thread, late>>
    BY DEF Decides, Recheck, Commit, Crash
  <2> QED
    BY <1>0, <2>1, StoreUntouched
<1>2. CASE Recheck(c)
  <2>1. caller[c].at = "rechecking" /\ UNCHANGED <<workflow, grants>>
    BY <1>2 DEF Recheck
  <2>2. About(caller[c].request, caller[c].subject)
    BY <1>0, <2>1 DEF CallerLinked, Deciding
  <2>3. PICK r : r = caller[c].request
    OBVIOUS
  <2>4. Answered(r)'
    BY <1>0, <1>1, <2>1, <2>3 DEF CallerLinked, Deciding, Answered
  <2>5. caller' \in [Callers -> CallerRecords] /\ CallersLinked'
    BY <1>0, <1>1, <1>2, <2>1, <2>3, <2>4, <2>2, Went, Returned DEF Recheck, Steps
  <2> QED
    BY <1>0, <1>1, <2>1, <2>5, Composed
<1>3. CASE Crash(c)
  <2>1. caller' \in [Callers -> CallerRecords] /\ CallersLinked'
    BY <1>0, <1>1, <1>3, Returned DEF Crash
  <2> QED
    BY <1>0, <1>1, <1>3, <2>1, Composed DEF Crash
<1>4. CASE Commit(c)
  <2>1. caller[c].at = "committing" /\ caller' \in [Callers -> CallerRecords] /\ CallersLinked'
    BY <1>0, <1>1, <1>4, Returned DEF Commit
  <2>2. CASE UNCHANGED <<workflow, grants>>
    BY <1>0, <1>1, <2>1, <2>2, Composed
  <2> DEFINE s == caller[c].subject
             q == caller[c].request
             g == [subject |-> s, request |-> q, generation |-> workflow.generation]
  <2>3. ASSUME workflow.generation = s.generation, workflow.generation < MaxGeneration,
               workflow' = [generation |-> workflow.generation + 1,
                            stage |-> IF s.verb = "APPROVE" THEN "approved" ELSE "qualified"],
               grants' = grants \cup {g}
        PROVE  IInv' /\ StoreGrows
    <3>1. s \in Subjects /\ About(q, s) /\ Answered(q) /\ q \in Requests
      BY <1>0, <2>1 DEF CallerLinked, Deciding, About, Used
    <3>2. workflow.generation \in Generations /\ workflow.generation + 1 \in Generations
      BY <1>0, <2>3, BoundsAssumption DEF TypeOK, Generations
    <3>3. g \in Grants
      BY <3>1, <3>2 DEF Grants
    <3>4. TypeOK'
      BY <1>0, <1>1, <2>1, <2>3, <3>2, <3>3 DEF TypeOK, CallerRecords
    <3>5. \A h \in grants : /\ About(h.request, h.subject) /\ Answered(h.request)
                             /\ h.generation = h.subject.generation
                             /\ h.generation < workflow.generation /\ h.generation \in Nat
      BY <1>0 DEF GrantInv, GrantsLinked, TypeOK, Grants, Generations
    <3>6. GrantsLinked'
      <4> SUFFICES ASSUME NEW h \in grants'
                   PROVE  /\ About(h.request, h.subject)' /\ Answered(h.request)'
                          /\ h.generation = h.subject.generation
                          /\ h.generation < workflow'.generation
        BY DEF GrantsLinked
      <4>1. workflow'.generation = workflow.generation + 1 /\ workflow.generation \in Nat
        BY <2>3, <3>2 DEF Generations
      <4>2. CASE h \in grants
        BY <1>1, <3>5, <4>1, <4>2 DEF About, Answered, Used
      <4>3. CASE h = g
        BY <1>1, <2>3, <3>1, <4>1, <4>3 DEF About, Answered, Used
      <4> QED
        BY <2>3, <4>2, <4>3
    <3>7. OneReplyOneGrant'
      <4>1. \A h \in grants : h.generation # g.generation /\ h.request # g.request
        BY <2>3, <3>1, <3>2, <3>5 DEF About, Generations
      <4> QED
        BY <1>0, <2>3, <4>1 DEF GrantInv, OneReplyOneGrant
    <3> QED
      BY <1>1, <2>1, <3>4, <3>6, <3>7 DEF IInv, GrantInv
  <2> QED
    BY <1>4, <2>2, <2>3 DEF Commit
<1> QED
  BY <1>2, <1>3, <1>4 DEF Decides

\* Replies, deadlines and other operations leave the store and its callers alone.
LEMMA WorldStep ==
    ASSUME IInv, World
    PROVE  IInv' /\ StoreGrows
<1>0. /\ TypeOK /\ StoreInv /\ CallersLinked /\ GrantInv
      /\ thread \in [Requests -> Seq(Replies)]
  BY DEF IInv, TypeOK
<1>1. UNCHANGED <<requests, caller, grants>> /\ StoreGrows /\ StoreInv'
  <2>1. UNCHANGED <<requests, caller, grants>>
    BY DEF World, Reply, DeadlinePasses, OtherOperation
  <2> QED
    BY <1>0, <2>1, StoreUntouched
<1>2. CallersLinked'
  BY <1>0, <1>1 DEF CallersLinked, CallerLinked, About, Answered, Used
<1>3. ASSUME NEW r \in Requests, NEW answer \in Answers, Reply(r, answer)
      PROVE  IInv'
  <2>1. [text |-> answer.text, by |-> answer.by, late |-> r \in late] \in Replies
    BY DEF Answers, Replies
  <2>2. PICK reply \in Replies : thread' = [thread EXCEPT ![r] = Append(@, reply)]
    BY <1>3, <2>1 DEF Reply
  <2>3. Append(thread[r], reply) \in Seq(Replies)
    <3>1. thread[r] \in Seq(Replies)
      BY <1>0, <1>3 DEF Reply
    <3> QED
      BY <3>1
  <2>4. thread' \in [Requests -> Seq(Replies)]
    BY <1>0, <2>2, <2>3
  <2>5. TypeOK' /\ GrantInv'
    BY <1>0, <1>1, <1>3, <2>4, GrantsKept DEF Reply, TypeOK
  <2> QED
    BY <1>1, <1>2, <2>5 DEF IInv
<1>4. ASSUME NEW r \in Requests, DeadlinePasses(r)
      PROVE  IInv'
  <2>1. TypeOK' /\ GrantInv'
    BY <1>0, <1>1, <1>4, GrantsKept DEF DeadlinePasses, TypeOK
  <2> QED
    BY <1>1, <1>2, <2>1 DEF IInv
<1>5. CASE OtherOperation
  <2>1. PICK stage \in {"qualified", "elsewhere", "approved"} :
            workflow' = [generation |-> workflow.generation + 1, stage |-> stage]
    BY <1>5 DEF OtherOperation
  <2>2. workflow.generation \in Nat /\ workflow.generation + 1 \in Generations
    BY <1>0, <1>5, BoundsAssumption DEF OtherOperation, TypeOK, Generations
  <2>3. TypeOK'
    BY <1>0, <1>1, <1>5, <2>1, <2>2 DEF OtherOperation, TypeOK
  <2>4. \A g \in grants : g.generation \in Nat
    BY <1>0 DEF TypeOK, Grants, Generations
  <2>5. GrantInv'
    BY <1>0, <1>1, <2>1, <2>2, <2>4 DEF GrantInv, GrantsLinked, OneReplyOneGrant, About, Answered, Used
  <2> QED
    BY <1>1, <1>2, <2>3, <2>5 DEF IInv
<1> QED
  BY <1>1, <1>3, <1>4, <1>5 DEF World

-----------------------------------------------------------------------------
(* The invariant.                                                          *)

LEMMA InitIInv == Init => IInv
<1> SUFFICES ASSUME Init PROVE IInv
  OBVIOUS
<1>1. Used = {}
  BY DEF Init, Used
<1>2. Idle \in CallerRecords /\ Idle.at = "idle"
  <2>1. <<>> \in Seq(Replies)
    OBVIOUS
  <2> QED
    BY <2>1 DEF Idle, CallerRecords, Steps
<1>3. TypeOK
  <2>1. thread \in [Requests -> Seq(Replies)]
    BY DEF Init
  <2> QED
    BY <1>2, <2>1, BoundsAssumption DEF Init, TypeOK, Generations, CallerRecords
<1>4. CallersLinked
  BY <1>2 DEF Init, CallersLinked, CallerLinked, Waiting, Deciding
<1> QED
  BY <1>1, <1>3, <1>4 DEF Init, IInv, StoreInv, RowsFaithful, ChallengeConsumedOnce,
                          GrantInv, GrantsLinked, OneReplyOneGrant

LEMMA NextIInv ==
    ASSUME IInv, [Next]_vars
    PROVE  IInv' /\ StoreGrows
<1>1. CASE UNCHANGED vars
  BY <1>1 DEF vars, IInv, TypeOK, StoreInv, RowsFaithful, ChallengeConsumedOnce, Consumed, RowsOf, Used,
              CallersLinked, CallerLinked, About, Answered, GrantInv, GrantsLinked, OneReplyOneGrant,
              StoreGrows
<1>2. CASE Next
  BY <1>2, AskStep, PollStep, DecideStep, WorldStep DEF Next
<1> QED
  BY <1>1, <1>2

THEOREM Inductive == Spec => []IInv
BY InitIInv, NextIInv, PTL DEF Spec

-----------------------------------------------------------------------------
(* Lateness: what a thread holds stays there, and only a timely reply is   *)
(* ever taken from it.                                                     *)

Exact == [text |-> "exact", by |-> "owner", late |-> FALSE]

\* The reply stands in the thread of r.
Stands(reply, r) == \E i \in DOMAIN thread[r] : thread[r][i] = reply

\* A request that is not open yet has neither replies nor a deadline; one in the
\* session has no deadline, and only the owner's exact reply.
ThreadsFaithful ==
    /\ \A r \in Requests \ Used : DOMAIN thread[r] = {} /\ r \notin late
    /\ \A r \in Used : requests[r].channel = "chat" =>
          r \notin late /\ \A i \in DOMAIN thread[r] : thread[r][i] = Exact

AnswersTimely ==
    \A r \in Used : requests[r].status = "answered" /\ requests[r].response = "exact" => InTime(r)

\* What a caller has read still stands; it posts on the channel of its request.
CallerReads(c) ==
    /\ caller[c].at = "accepting" =>
          \A i \in DOMAIN caller[c].seen : Stands(caller[c].seen[i], caller[c].request)
    /\ caller[c].at = "posting" => requests[caller[c].request].channel = caller[c].channel

Timely == ThreadsFaithful /\ AnswersTimely /\ \A c \in Callers : CallerReads(c)

ThreadsGrow == \A r \in Requests, reply \in Replies : Stands(reply, r) => Stands(reply, r)'

\* No step but the acceptance of a reply answers a request.
NoNewAnswer ==
    \A r \in Used' : requests'[r].status = "answered" => r \in Used /\ requests'[r] = requests[r]

LEMMA TimelyReply ==
    ASSUME NEW reply \in Replies, reply.text = "exact", reply.by = "owner", ~reply.late
    PROVE  reply = Exact
BY DEF Replies, Exact

LEMMA ExactType == Exact \in Replies
BY DEF Exact, Replies

LEMMA Seen ==
    ASSUME TypeOK, NEW r \in Requests, NEW i \in DOMAIN thread[r]
    PROVE  thread[r][i] \in Replies
<1>1. thread[r] \in Seq(Replies)
  BY DEF TypeOK
<1> QED
  BY <1>1

\* Where no thread and no deadline changes, threads stay faithful.
LEMMA ThreadsUntouched ==
    ASSUME TypeOK, ThreadsFaithful, StoreGrows, UNCHANGED <<thread, late>>
    PROVE  ThreadsGrow /\ ThreadsFaithful'
<1>1. ThreadsGrow
  BY DEF ThreadsGrow, Stands
<1>2. \A r \in Used : r \in Used' /\ requests'[r].channel = requests[r].channel
  BY DEF StoreGrows, Used
<1>3. \A r \in Used' \ Used : DOMAIN thread[r] = {} /\ r \notin late
  BY DEF ThreadsFaithful, Used
<1>4. \A r \in Requests \ Used' : DOMAIN thread'[r] = {} /\ r \notin late'
  BY <1>2 DEF ThreadsFaithful
<1>5. \A r \in Used' : requests'[r].channel = "chat" =>
          r \notin late' /\ \A i \in DOMAIN thread'[r] : thread'[r][i] = Exact
  BY <1>2, <1>3 DEF ThreadsFaithful
<1> QED
  BY <1>1, <1>4, <1>5 DEF ThreadsFaithful

\* Posting leaves a Slack thread alone, and in session the reply given is in time.
LEMMA PostThreads ==
    ASSUME IInv, Timely, NEW c \in Callers, Post(c)
    PROVE  ThreadsGrow /\ ThreadsFaithful'
<1>1. PICK r : r = caller[c].request
  OBVIOUS
<1>2. /\ TypeOK /\ caller[c].at = "posting" /\ UNCHANGED <<requests, late>>
      /\ CallerLinked(c) /\ CallerReads(c) /\ ThreadsFaithful
  BY DEF Post, At, IInv, CallersLinked, Timely
<1>3. r \in Used /\ r \in Requests /\ requests[r].channel = caller[c].channel
      /\ caller[c].channel \in {"slack", "chat"}
  BY <1>1, <1>2 DEF CallerLinked, Waiting, About, Used, CallerReads, TypeOK
<1>4. thread' = [thread EXCEPT ![r] =
          IF caller[c].channel = "slack" THEN thread[r]
          ELSE <<[text |-> "exact", by |-> "owner", late |-> r \in late]>>]
  BY <1>1 DEF Post
<1>5. thread \in [Requests -> Seq(Replies)] /\ Used' = Used
  BY <1>2 DEF TypeOK, Used
<1>6. CASE caller[c].channel = "slack"
  <2>1. thread' = thread
    BY <1>3, <1>4, <1>5, <1>6
  <2> QED
    BY <1>2, <2>1, ThreadsUntouched DEF StoreGrows, Used
<1>7. CASE caller[c].channel = "chat"
  <2>1. r \notin late /\ \A i \in DOMAIN thread[r] : thread[r][i] = Exact
    BY <1>2, <1>3, <1>7 DEF ThreadsFaithful
  <2>a. [text |-> "exact", by |-> "owner", late |-> r \in late] = Exact
    <3>1. (r \in late) = FALSE
      BY <2>1
    <3> QED
      BY <3>1 DEF Exact
  <2>2. thread'[r] = <<Exact>> /\ \A q \in Requests \ {r} : thread'[q] = thread[q]
    BY <1>3, <1>4, <1>5, <1>7, <2>a
  <2>3. DOMAIN thread'[r] = {1} /\ thread'[r][1] = Exact
    BY <2>2
  <2>4. ThreadsGrow
    <3> SUFFICES ASSUME NEW q \in Requests, NEW reply, Stands(reply, q)
                 PROVE  \E i \in DOMAIN thread'[q] : thread'[q][i] = reply
      BY DEF ThreadsGrow, Stands
    <3>1. CASE q = r
      <4>1. reply = Exact
        BY <2>1, <3>1 DEF Stands
      <4> QED
        BY <2>3, <3>1, <4>1
    <3>2. CASE q # r
      BY <2>2, <3>2 DEF Stands
    <3> QED
      BY <3>1, <3>2
  <2>5. ThreadsFaithful'
    <3>a. \A q \in Requests \ Used' : DOMAIN thread'[q] = {} /\ q \notin late'
      BY <1>2, <1>3, <1>5, <2>2 DEF ThreadsFaithful
    <3>b. ASSUME NEW q \in Used', requests'[q].channel = "chat"
         PROVE  q \notin late' /\ \A i \in DOMAIN thread'[q] : thread'[q][i] = Exact
      <4>1. q \in Used /\ q \in Requests /\ requests[q].channel = "chat"
        BY <1>2, <1>3, <1>5, <2>2, <3>b DEF Used
      <4>2. CASE q = r
        BY <1>2, <2>1, <2>3, <4>1, <4>2
      <4>3. CASE q # r
        BY <1>2, <2>2, <4>1, <4>3 DEF ThreadsFaithful
      <4> QED
        BY <4>2, <4>3
    <3> QED
      BY <3>a, <3>b DEF ThreadsFaithful
  <2> QED
    BY <2>4, <2>5
<1> QED
  BY <1>3, <1>6, <1>7

\* A reply is appended to a Slack thread.
LEMMA ReplyThreads ==
    ASSUME IInv, Timely, NEW r \in Requests, NEW answer \in Answers, Reply(r, answer)
    PROVE  ThreadsGrow /\ ThreadsFaithful'
<1>1. PICK reply : thread' = [thread EXCEPT ![r] = Append(@, reply)]
  BY DEF Reply
<1>2. /\ thread \in [Requests -> Seq(Replies)] /\ UNCHANGED <<requests, late>> /\ Used' = Used
      /\ r \in Used /\ requests[r].channel = "slack" /\ ThreadsFaithful
  BY DEF Reply, IInv, TypeOK, Used, Timely
<1>3. thread'[r] = Append(thread[r], reply) /\ \A q \in Requests \ {r} : thread'[q] = thread[q]
  BY <1>1, <1>2
<1>4. \A i \in DOMAIN thread[r] : i \in DOMAIN thread'[r] /\ thread'[r][i] = thread[r][i]
  <2>1. thread[r] \in Seq(Replies)
    BY <1>2
  <2> QED
    BY <1>3, <2>1
<1>5. ThreadsGrow
  <2> SUFFICES ASSUME NEW q \in Requests, NEW x, Stands(x, q)
               PROVE  \E i \in DOMAIN thread'[q] : thread'[q][i] = x
    BY DEF ThreadsGrow, Stands
  <2>1. CASE q = r
    BY <1>4, <2>1 DEF Stands
  <2>2. CASE q # r
    BY <1>3, <2>2 DEF Stands
  <2> QED
    BY <2>1, <2>2
<1>6. ThreadsFaithful'
  <2>a. \A q \in Requests \ Used' : DOMAIN thread'[q] = {} /\ q \notin late'
    BY <1>2, <1>3 DEF ThreadsFaithful
  <2>b. ASSUME NEW q \in Used', requests'[q].channel = "chat"
       PROVE  q \notin late' /\ \A i \in DOMAIN thread'[q] : thread'[q][i] = Exact
    <3>1. q \in Used /\ q \in Requests /\ requests[q].channel = "chat"
      BY <1>2, <1>3, <2>b DEF Used
    <3>2. CASE q = r
      BY <1>2, <3>1, <3>2
    <3>3. CASE q # r
      BY <1>2, <1>3, <3>1, <3>3 DEF ThreadsFaithful
    <3> QED
      BY <3>2, <3>3
  <2> QED
    BY <2>a, <2>b DEF ThreadsFaithful
<1> QED
  BY <1>5, <1>6

LEMMA ThreadStep ==
    ASSUME IInv, Timely, [Next]_vars
    PROVE  ThreadsGrow /\ ThreadsFaithful'
<1>1. TypeOK /\ StoreGrows /\ ThreadsFaithful
  BY NextIInv DEF IInv, Timely
<1>2. CASE UNCHANGED <<thread, late>>
  BY <1>1, <1>2, ThreadsUntouched
<1>3. ASSUME NEW c \in Callers, Asks(c) \/ Polls(c) \/ Decides(c)
      PROVE  Post(c) \/ UNCHANGED <<thread, late>>
  BY <1>3 DEF Asks, Polls, Decides, Prepare, Look, Create, TransportFails, MarkDelivered,
              Read, Accept, Supersede, Fallback, Recheck, Commit, Crash
<1>4. ASSUME NEW r \in Requests, DeadlinePasses(r)
      PROVE  ThreadsGrow /\ ThreadsFaithful'
  <2>1. /\ UNCHANGED <<requests, thread>> /\ late' = late \cup {r} /\ Used' = Used
        /\ r \in Used /\ requests[r].channel = "slack"
    BY <1>4 DEF DeadlinePasses, Used
  <2> QED
    BY <1>1, <2>1 DEF ThreadsFaithful, ThreadsGrow, Stands
<1>5. CASE OtherOperation \/ UNCHANGED vars
  BY <1>2, <1>5 DEF OtherOperation, vars
<1> QED
  BY <1>2, <1>3, <1>4, <1>5, PostThreads, ReplyThreads DEF Next, World

\* An answer recorded before stays in time.
LEMMA AnswersKept ==
    ASSUME AnswersTimely, ThreadsGrow, NoNewAnswer
    PROVE  AnswersTimely'
<1> SUFFICES ASSUME NEW r \in Used', requests'[r].status = "answered", requests'[r].response = "exact"
             PROVE  InTime(r)'
  BY DEF AnswersTimely
<1>1. r \in Used /\ r \in Requests /\ requests[r] = requests'[r]
  BY DEF NoNewAnswer, Used
<1>2. Stands(Exact, r)
  BY <1>1 DEF AnswersTimely, InTime, Stands, Exact
<1>3. Stands(Exact, r)'
  BY <1>1, <1>2, ExactType DEF ThreadsGrow
<1> QED
  BY <1>3 DEF InTime, Stands, Exact

LEMMA StatusQuiet ==
    ASSUME TypeOK, NEW S \in SUBSET Used, NEW status, status # "answered", SetStatus(S, status)
    PROVE  NoNewAnswer
<1>1. \A r \in S : requests'[r].status = status
  <2> SUFFICES ASSUME NEW r \in S PROVE requests'[r].status = status
    OBVIOUS
  <2>1. requests[r] \in Rows /\ r \in Requests
    BY DEF TypeOK, Used
  <2>2. requests'[r] = [requests[r] EXCEPT !.status = status]
    BY <2>1 DEF SetStatus
  <2> QED
    BY <2>1, <2>2 DEF Rows
<1>2. \A r \in Requests \ S : requests'[r] = requests[r]
  BY DEF SetStatus
<1> QED
  BY <1>1, <1>2 DEF NoNewAnswer, Used

\* Every step but an acceptance leaves the answers as they are.
LEMMA Quiet ==
    ASSUME IInv, [Next]_vars, \A c \in Callers : ~Accept(c)
    PROVE  NoNewAnswer
<1>1. TypeOK /\ CallersLinked
  BY DEF IInv
<1>2. CASE UNCHANGED requests
  BY <1>2 DEF NoNewAnswer, Used
<1>3. ASSUME NEW c \in Callers, Create(c) PROVE NoNewAnswer
  <2>1. PICK r \in Requests \ Used : requests' = [requests EXCEPT ![r] =
              [shown |-> caller[c].subject, challenge |-> Challenge(c),
               channel |-> caller[c].channel, status |-> "created",
               response |-> None, by |-> None]]
    BY <1>3 DEF Create
  <2>2. requests'[r].status = "created" /\ \A q \in Requests \ {r} : requests'[q] = requests[q]
    BY <1>1, <2>1 DEF TypeOK
  <2> QED
    BY <2>2 DEF NoNewAnswer, Used
<1>4. ASSUME NEW c \in Callers, caller[c].at \in Waiting PROVE caller[c].request \in Used
  BY <1>1, <1>4 DEF CallersLinked, CallerLinked, About
<1>5. ASSUME NEW c \in Callers, TransportFails(c) PROVE NoNewAnswer
  <2>1. caller[c].request \in Used
    BY <1>4, <1>5 DEF TransportFails, At, Waiting
  <2> QED
    BY <1>1, <1>5, <2>1, StatusQuiet DEF TransportFails
<1>6. ASSUME NEW c \in Callers, MarkDelivered(c) PROVE NoNewAnswer
  <2>1. caller[c].request \in Used
    BY <1>4, <1>6 DEF MarkDelivered, At, Waiting
  <2> QED
    BY <1>1, <1>2, <1>6, <2>1, StatusQuiet DEF MarkDelivered
<1>7. ASSUME NEW c \in Callers, Supersede(c) PROVE NoNewAnswer
  <2>1. {r \in RowsOf(Challenge(c)) \ {caller[c].request} : OpenRow(r)} \in SUBSET Used
    BY DEF RowsOf
  <2> QED
    BY <1>1, <1>7, <2>1, StatusQuiet DEF Supersede
<1>8. ASSUME NEW c \in Callers, Prepare(c, "slack") \/ Prepare(c, "chat") \/ Look(c) \/ Post(c)
                 \/ Read(c) \/ Fallback(c) \/ Recheck(c) \/ Commit(c) \/ Crash(c)
      PROVE  UNCHANGED requests
  BY <1>8 DEF Prepare, Look, Post, Read, Fallback, Recheck, Commit, Crash
<1>9. World \/ UNCHANGED vars => UNCHANGED requests
  BY DEF World, Reply, DeadlinePasses, OtherOperation, vars
<1> QED
  BY <1>2, <1>3, <1>5, <1>6, <1>7, <1>8, <1>9 DEF Next, Asks, Polls, Decides

\* An accepted reply stands in the thread and came in time.
LEMMA AcceptTimely ==
    ASSUME IInv, Timely, ThreadsGrow, NEW c \in Callers, Accept(c)
    PROVE  AnswersTimely'
<1>1. PICK r : r = caller[c].request
  OBVIOUS
<1>2. TypeOK /\ AnswersTimely /\ CallerReads(c) /\ caller[c].at = "accepting" /\ thread' = thread
  BY DEF IInv, Timely, Accept, At
<1>3. r \in Used
  BY <1>1, <1>2 DEF IInv, CallersLinked, CallerLinked, Waiting, About
<1>4. ASSUME NEW i \in DOMAIN caller[c].seen, Accepts(r, caller[c].seen[i]),
             requests' = [requests EXCEPT ![r].status = "answered",
                 ![r].response = caller[c].seen[i].text, ![r].by = caller[c].seen[i].by]
      PROVE  AnswersTimely'
  <2>1. caller[c].seen \in Seq(Replies)
    BY <1>2 DEF TypeOK
  <2>2. PICK reply \in Replies : reply = caller[c].seen[i]
    BY <2>1
  <2>3. Stands(reply, r) /\ ~reply.late /\ reply.by = "owner"
    BY <1>1, <1>2, <1>4, <2>2 DEF CallerReads, Accepts
  <2>4. reply.text = "exact" => Stands(Exact, r)
    BY <2>2, <2>3, TimelyReply
  <2>5. requests[r] \in Rows /\ r \in Requests
    BY <1>2, <1>3 DEF TypeOK, Used
  <2>6. requests'[r].response = reply.text /\ \A q \in Requests \ {r} : requests'[q] = requests[q]
    BY <1>2, <1>4, <2>2, <2>5 DEF TypeOK, Rows
  <2>7. reply.text = "exact" => InTime(r)
    BY <2>4 DEF InTime, Stands, Exact
  <2> SUFFICES ASSUME NEW q \in Used', requests'[q].status = "answered", requests'[q].response = "exact"
               PROVE  InTime(q)'
    BY DEF AnswersTimely
  <2>8. CASE q = r
    BY <1>2, <2>6, <2>7, <2>8 DEF InTime
  <2>9. CASE q # r
    BY <1>2, <2>6, <2>9 DEF InTime, AnswersTimely, Used
  <2> QED
    BY <2>8, <2>9
<1>5. CASE SetStatus({r}, "expired")
  BY <1>2, <1>3, <1>5, StatusQuiet, AnswersKept
<1>6. CASE UNCHANGED requests
  BY <1>2, <1>6, AnswersKept DEF NoNewAnswer, Used
<1> QED
  BY <1>1, <1>4, <1>5, <1>6 DEF Accept

\* The outcome of a poll never leads a caller to read or to post.
LEMMA OutcomeMoves ==
    ASSUME TypeOK, NEW c \in Callers, NEW response,
           NEW status \in {"created", "pending", "answered", "expired", "failed", "superseded"},
           Outcome(c, status, response)
    PROVE  /\ caller'[c].at \notin {"accepting", "posting"}
           /\ \A d \in Callers \ {c} : caller'[d] = caller[d]
<1>0. caller[c] \in CallerRecords /\ caller \in [Callers -> CallerRecords]
  BY DEF TypeOK, CallerRecords
<1>1. \/ Goto(c, "superseding") \/ Return(c) \/ Goto(c, "fallback") \/ Goto(c, "reading")
  BY DEF Outcome
<1>2. ASSUME NEW step \in {"superseding", "fallback", "reading"}, Goto(c, step)
      PROVE  caller'[c].at = step /\ \A d \in Callers \ {c} : caller'[d] = caller[d]
  BY <1>0, <1>2 DEF Goto, CallerRecords
<1>3. Return(c) => caller'[c].at = "idle" /\ \A d \in Callers \ {c} : caller'[d] = caller[d]
  BY <1>0 DEF Return, Idle
<1> QED
  BY <1>1, <1>2, <1>3

\* A caller moves alone, and reads or posts only as it polls or opens a request.
LEMMA CallerMoves ==
    ASSUME IInv, NEW c \in Callers, Asks(c) \/ Polls(c) \/ Decides(c)
    PROVE  /\ \A d \in Callers \ {c} : caller'[d] = caller[d]
           /\ \/ caller'[c].at \notin {"accepting", "posting"}
              \/ Create(c)
              \/ /\ Read(c)
                 /\ caller' = [caller EXCEPT ![c].at = "accepting", ![c].seen = thread[caller[c].request]]
<1> USE DEF At
<1>0. /\ TypeOK /\ CallerLinked(c) /\ caller[c] \in CallerRecords
      /\ caller \in [Callers -> CallerRecords]
  BY DEF IInv, CallersLinked, TypeOK, CallerRecords
<1>1. ASSUME caller[c].at \in {"reading", "accepting"}
      PROVE  Row(c).status \in {"created", "pending", "answered", "expired", "failed", "superseded"}
  <2>1. caller[c].request \in Used
    BY <1>0, <1>1 DEF CallerLinked, Waiting, About
  <2>2. Row(c) \in Rows
    BY <1>0, <2>1 DEF Row, TypeOK, Used
  <2> QED
    BY <2>2 DEF Rows
<1>2. ASSUME NEW step \in Steps \ {"accepting", "posting"}, Goto(c, step)
      PROVE  caller'[c].at = step /\ \A d \in Callers \ {c} : caller'[d] = caller[d]
  BY <1>0, <1>2 DEF Goto, CallerRecords
<1>3. Return(c) => caller'[c].at = "idle" /\ \A d \in Callers \ {c} : caller'[d] = caller[d]
  BY <1>0 DEF Return, Idle
<1>4. ASSUME NEW r, UseReply(c, r)
      PROVE  caller'[c].at = "rechecking" /\ \A d \in Callers \ {c} : caller'[d] = caller[d]
  BY <1>0, <1>4 DEF UseReply, CallerRecords
<1>5. ASSUME NEW channel, Prepare(c, channel)
      PROVE  caller'[c].at = "looking" /\ \A d \in Callers \ {c} : caller'[d] = caller[d]
  BY <1>0, <1>5 DEF Prepare, Idle
<1>6. ASSUME Look(c)
      PROVE  caller'[c].at \notin {"accepting", "posting"} /\ \A d \in Callers \ {c} : caller'[d] = caller[d]
  <2>1. ASSUME NEW r, caller' = [caller EXCEPT ![c].at = "reading", ![c].request = r]
        PROVE  caller'[c].at = "reading" /\ \A d \in Callers \ {c} : caller'[d] = caller[d]
    BY <1>0, <2>1 DEF CallerRecords
  <2> QED
    BY <1>2, <1>4, <1>6, <2>1 DEF Look, Steps
<1>7. Create(c) => \A d \in Callers \ {c} : caller'[d] = caller[d]
  BY <1>0 DEF Create
<1>8. Post(c) \/ TransportFails(c) \/ MarkDelivered(c) \/ Supersede(c) \/ Fallback(c)
          \/ Recheck(c) \/ Commit(c) \/ Crash(c) =>
        \/ \E step \in Steps \ {"accepting", "posting"} : Goto(c, step)
        \/ Return(c)
        \/ \E r \in Requests : UseReply(c, r)
  BY DEF Post, TransportFails, MarkDelivered, Supersede, Fallback, Recheck, Commit, Crash, Steps,
         Consumed, RowsOf, Used
<1>9. ASSUME Read(c)
      PROVE  /\ \A d \in Callers \ {c} : caller'[d] = caller[d]
             /\ \/ caller'[c].at \notin {"accepting", "posting"}
                \/ caller' = [caller EXCEPT ![c].at = "accepting", ![c].seen = thread[caller[c].request]]
  <2>1. PICK status, response : status = Row(c).status /\ response = Row(c).response
    OBVIOUS
  <2>2. CASE Outcome(c, status, response)
    BY <1>0, <1>1, <1>9, <2>1, <2>2, OutcomeMoves DEF Read
  <2>3. CASE caller' = [caller EXCEPT ![c].at = "accepting", ![c].seen = thread[caller[c].request]]
    BY <1>0, <2>3
  <2> QED
    BY <1>9, <2>1, <2>2, <2>3 DEF Read
<1>10. ASSUME Accept(c)
       PROVE  caller'[c].at \notin {"accepting", "posting"} /\ \A d \in Callers \ {c} : caller'[d] = caller[d]
  <2>1. PICK status, response : /\ Outcome(c, status, response)
                                /\ status \in {"answered", "expired", Row(c).status}
    BY <1>10 DEF Accept
  <2> QED
    BY <1>0, <1>1, <1>10, <2>1, OutcomeMoves DEF Accept
<1> QED
  BY <1>2, <1>3, <1>4, <1>5, <1>6, <1>7, <1>8, <1>9, <1>10 DEF Asks, Polls, Decides

\* Whoever reads, what it read stands; whoever opens a request posts on its channel.
LEMMA ReadersStep ==
    ASSUME IInv, Timely, [Next]_vars, ThreadsGrow, StoreGrows, NEW d \in Callers
    PROVE  CallerReads(d)'
<1>0. /\ CallerReads(d) /\ CallerLinked(d) /\ TypeOK /\ caller[d] \in CallerRecords
      /\ caller \in [Callers -> CallerRecords]
  BY DEF Timely, IInv, CallersLinked, TypeOK, CallerRecords
<1>1. CASE caller'[d] = caller[d]
  <2>1. ASSUME caller[d].at = "accepting", NEW i \in DOMAIN caller[d].seen
        PROVE  \E k \in DOMAIN thread'[caller[d].request] :
                  thread'[caller[d].request][k] = caller[d].seen[i]
    <3>1. caller[d].seen[i] \in Replies
      <4>1. caller[d].seen \in Seq(Replies)
        BY <1>0 DEF CallerRecords
      <4> QED
        BY <2>1, <4>1
    <3>2. caller[d].request \in Requests
      BY <1>0, <2>1 DEF CallerLinked, Waiting, About, Used
    <3>3. PICK reply \in Replies, r \in Requests : reply = caller[d].seen[i] /\ r = caller[d].request
      BY <3>1, <3>2
    <3>4. Stands(reply, r)
      BY <1>0, <2>1, <3>3 DEF CallerReads
    <3>5. Stands(reply, r)'
      BY <3>4 DEF ThreadsGrow
    <3> QED
      BY <3>3, <3>5 DEF Stands
  <2>2. caller[d].at = "posting" =>
            requests'[caller[d].request].channel = caller[d].channel
    BY <1>0 DEF CallerReads, CallerLinked, Waiting, About, StoreGrows
  <2> QED
    BY <1>1, <2>1, <2>2 DEF CallerReads, Stands
<1>2. CASE caller'[d].at \notin {"accepting", "posting"}
  BY <1>2 DEF CallerReads
<1>3. CASE Create(d)
  <2>1. PICK r \in Requests \ Used :
          /\ requests' = [requests EXCEPT ![r] =
                [shown |-> caller[d].subject, challenge |-> Challenge(d),
                 channel |-> caller[d].channel, status |-> "created",
                 response |-> None, by |-> None]]
          /\ caller' = [caller EXCEPT ![d].at = "posting", ![d].request = r]
    BY <1>3 DEF Create
  <2>2. caller'[d].at = "posting" /\ caller'[d].request = r /\ caller'[d].channel = caller[d].channel
    BY <1>0, <2>1 DEF CallerRecords
  <2>3. requests'[r].channel = caller[d].channel
    BY <1>0, <2>1 DEF TypeOK
  <2> QED
    BY <2>2, <2>3 DEF CallerReads
<1>4. CASE /\ Read(d)
           /\ caller' = [caller EXCEPT ![d].at = "accepting", ![d].seen = thread[caller[d].request]]
  <2>1. /\ caller' = [caller EXCEPT ![d].at = "accepting", ![d].seen = thread[caller[d].request]]
        /\ thread' = thread
    BY <1>4 DEF Read
  <2>2. /\ caller'[d].seen = thread[caller[d].request] /\ caller'[d].request = caller[d].request
        /\ caller'[d].at = "accepting"
    BY <1>0, <2>1 DEF CallerRecords
  <2> QED
    BY <2>1, <2>2 DEF CallerReads, Stands
<1>5. World \/ UNCHANGED vars => caller' = caller
  BY DEF World, Reply, DeadlinePasses, OtherOperation, vars
<1>6. ASSUME NEW c \in Callers, Asks(c) \/ Polls(c) \/ Decides(c)
      PROVE  CallerReads(d)'
  BY <1>1, <1>2, <1>3, <1>4, <1>6, CallerMoves
<1> QED
  BY <1>1, <1>5, <1>6 DEF Next

LEMMA InitTimely == Init => Timely
<1> SUFFICES ASSUME Init PROVE Timely
  OBVIOUS
<1>1. Used = {}
  BY DEF Init, Used
<1>2. \A r \in Requests : thread[r] = <<>> /\ r \notin late
  BY DEF Init
<1>3. \A c \in Callers : CallerReads(c)
  BY DEF Init, Idle, CallerReads
<1> QED
  BY <1>1, <1>2, <1>3 DEF Timely, ThreadsFaithful, AnswersTimely

LEMMA NextTimely ==
    ASSUME IInv, Timely, [Next]_vars
    PROVE  Timely'
<1>1. ThreadsGrow /\ ThreadsFaithful' /\ StoreGrows
  BY ThreadStep, NextIInv
<1>2. AnswersTimely'
  BY <1>1, Quiet, AnswersKept, AcceptTimely DEF Timely
<1>3. \A c \in Callers : CallerReads(c)'
  BY <1>1, ReadersStep
<1> QED
  BY <1>1, <1>2, <1>3 DEF Timely

-----------------------------------------------------------------------------
(* The theorems.                                                           *)

\* The store, the threads and the callers have the shapes their readers rely on.
THEOREM TypeCorrect == Spec => []TypeOK
<1>1. IInv => TypeOK
  BY DEF IInv
<1> QED
  BY <1>1, Inductive, PTL

\* Of all the requests of one challenge _RequestStore.accept answers at most one
\* exactly, for any number of processes and channels that ask for it; how many are
\* declined is not limited.
THEOREM ConsumedOnce == Spec => []ChallengeConsumedOnce
<1>1. IInv => ChallengeConsumedOnce
  BY DEF IInv, StoreInv
<1> QED
  BY <1>1, Inductive, PTL

\* Every grant and revocation _owner_transition commits cites the owner's exact
\* answer to a message about that very subject, given before its deadline, at the
\* generation it named.
THEOREM CommitsWhatWasShown == Spec => []CommittedAsShown
<1>1. IInv /\ Timely => CommittedAsShown
  BY DEF IInv, GrantInv, GrantsLinked, CommittedAsShown, About, Answered, Used, Timely, AnswersTimely
<1> QED
  BY <1>1, InitIInv, NextIInv, InitTimely, NextTimely, PTL DEF Spec

\* No reply authorizes two transitions, and no generation is committed twice.
THEOREM OneGrantPerReply == Spec => []OneReplyOneGrant
<1>1. IInv => OneReplyOneGrant
  BY DEF IInv, GrantInv
<1> QED
  BY <1>1, Inductive, PTL

\* The conditional updates of the store never reopen or rewrite a settled request.
THEOREM StaysSettled == Spec => SettledForGood
<1>1. IInv /\ [Next]_vars => [\A r \in Used : ~OpenRow(r) => requests'[r] = requests[r]]_vars
  BY NextIInv DEF StoreGrows
<1> QED
  BY <1>1, Inductive, PTL DEF Spec, SettledForGood
=============================================================================
