---------------------------- MODULE OwnerApproval ----------------------------
(***************************************************************************)
(* How an owner's exact reply becomes a delivery grant or its revocation:  *)
(* the shared store of human_input.py, the protocol of owner_approval.py   *)
(* that opens, posts, polls and settles requests in it, and the caller in  *)
(* _workflow_delivery.py that prepares the subject, asks, prepares again   *)
(* and commits by compare-and-set.  Several callers, each a process of its *)
(* own, run these steps interleaved; a process may crash at any of them.   *)
(*                                                                         *)
(* The challenge is a digest of the subject and stands for it.  Of the     *)
(* subject only what can change between two challenges is kept: the verb   *)
(* and the generation of the workflow.  A reply the pollers' filter always *)
(* drops (a text that is neither the challenge nor DECLINE) is left out.   *)
(* The local dialog transport holds its caller until an answer and is not  *)
(* modelled; the Slack and the in-session channels are.                    *)
(***************************************************************************)
EXTENDS Integers, Sequences, FiniteSets

CONSTANTS
    Callers,         \* processes that ask the owner
    Requests,        \* request identifiers (uuid4), each used once
    MaxGeneration,   \* bound: the workflow makes at most this many transitions
    MaxReplies,      \* bound: replies in one Slack thread
    None

ASSUME BoundsAssumption == MaxGeneration \in Nat /\ MaxReplies \in Nat
ASSUME NoneAssumption   == None \notin Requests \cup {"exact", "DECLINE"}

VARIABLES
    workflow,  \* the generation of the workflow and the stage it is in
    requests,  \* the shared table human_input_requests
    thread,    \* the replies each request has received, in order
    late,      \* the requests whose deadline has passed
    caller,    \* where each caller is
    grants     \* the owner transitions committed so far, with the reply they cite

vars == <<workflow, requests, thread, late, caller, grants>>

Generations == 0..MaxGeneration
Subjects == [verb: {"APPROVE", "REVOKE"}, generation: Generations]
\* A reply by anyone else is refused whatever it says.
Answers  == [text: {"exact", "DECLINE"}, by: {"owner"}] \cup [text: {"exact"}, by: {"other"}]
Replies  == [text: {"exact", "DECLINE"}, by: {"owner", "other"}, late: BOOLEAN]
Rows     == [shown: Subjects, challenge: Subjects, channel: {"slack", "chat"},
             status: {"created", "pending", "answered", "expired", "failed", "superseded"},
             response: {"exact", "DECLINE", None}, by: {"owner", None}]
ASSUME RowAssumption == None \notin Rows

Steps    == {"idle", "looking", "creating", "posting", "marking", "reading", "accepting",
             "superseding", "fallback", "rechecking", "committing"}

Idle == [at |-> "idle", channel |-> "slack", subject |-> None, request |-> None, seen |-> <<>>]

-----------------------------------------------------------------------------
(* The store.                                                              *)

\* challenge_for: the challenge names the whole subject.
ChallengeFor(subject) == subject

Used     == {r \in Requests : requests[r] # None}
RowsOf(challenge) == {r \in Used : requests[r].challenge = challenge}
OpenRow(r) == requests[r].status \in {"created", "pending"}

\* _consumed: the requests answered with exactly their challenge.
Consumed(challenge) ==
    {r \in RowsOf(challenge) : requests[r].status = "answered" /\ requests[r].response = "exact"}

\* accept: one conditional UPDATE.  A challenge already consumed refuses every
\* further reply, on any channel.
\* Seeded fault: the other requests of the challenge are not consulted.
AcceptsEveryRequest(r, reply) ==
    requests[r].status = "pending" /\ ~reply.late /\ reply.by = "owner"

\* Seeded fault: a reply that arrived past the deadline is taken like any other.
AcceptsLate(r, reply) ==
    /\ requests[r].status = "pending"
    /\ reply.by = "owner"
    /\ Consumed(requests[r].challenge) = {}

Accepts(r, reply) ==
    /\ requests[r].status = "pending"
    /\ ~reply.late
    /\ reply.by = "owner"
    /\ Consumed(requests[r].challenge) = {}

\* fail, expire and supersede leave a settled request alone.
SetStatus(S, status) ==
    requests' = [r \in Requests |->
                    IF r \in S THEN [requests[r] EXCEPT !.status = status] ELSE requests[r]]

-----------------------------------------------------------------------------
(* A caller.                                                               *)

At(c, step)   == caller[c].at = step
Goto(c, step) == caller' = [caller EXCEPT ![c].at = step, ![c].seen = <<>>]
Return(c)     == caller' = [caller EXCEPT ![c] = Idle]
Row(c)        == requests[caller[c].request]
Challenge(c)  == ChallengeFor(caller[c].subject)

\* prepare_delivery and prepare_revocation: the subject at this generation.  A
\* refusal of either leaves no trace.
CurrentSubject == [verb |-> IF workflow.stage = "approved" THEN "REVOKE" ELSE "APPROVE",
                   generation |-> workflow.generation]
Preparable == workflow.stage \in {"qualified", "approved"}

Prepare(c, channel) ==
    /\ At(c, "idle")
    /\ Preparable
    /\ caller' = [caller EXCEPT ![c] = [Idle EXCEPT !.at = "looking", !.channel = channel,
                                                    !.subject = CurrentSubject]]
    /\ UNCHANGED <<workflow, requests, thread, late, grants>>

\* A reply recorded for this challenge before, by whichever process, counts.
UseReply(c, r) == caller' = [caller EXCEPT ![c].at = "rechecking", ![c].request = r]

\* _consumed, then open_human_input_request: without such a reply a pending Slack
\* request of the challenge is reused, and a new one is opened otherwise.
Look(c) ==
    LET consumed == Consumed(Challenge(c))
        pending == {r \in RowsOf(Challenge(c)) : /\ requests[r].status = "pending"
                                                 /\ requests[r].channel = "slack"
                                                 /\ caller[c].channel = "slack"}
    IN  /\ At(c, "looking")
        /\ \/ \E r \in consumed : UseReply(c, r)
           \/ /\ consumed = {}
              /\ \E r \in pending : caller' = [caller EXCEPT ![c].at = "reading", ![c].request = r]
           \/ consumed = {} /\ pending = {} /\ Goto(c, "creating")
        /\ UNCHANGED <<workflow, requests, thread, late, grants>>

Create(c) ==
    /\ At(c, "creating")
    /\ \E r \in Requests \ Used :
        /\ requests' = [requests EXCEPT ![r] =
              [shown |-> caller[c].subject, challenge |-> Challenge(c),
               channel |-> caller[c].channel, status |-> "created",
               response |-> None, by |-> None]]
        /\ caller' = [caller EXCEPT ![c].at = "posting", ![c].request = r]
    /\ UNCHANGED <<workflow, thread, late, grants>>

\* transport.deliver: in session, the reply the caller passed in is the thread.
Post(c) ==
    /\ At(c, "posting")
    /\ thread' = [thread EXCEPT ![caller[c].request] =
          IF caller[c].channel = "slack" THEN @
          ELSE <<[text |-> "exact", by |-> "owner", late |-> caller[c].request \in late]>>]
    /\ Goto(c, "marking")
    /\ UNCHANGED <<workflow, requests, late, grants>>

\* Delivery or polling raises: the request fails unless it is settled already.
TransportFails(c) ==
    /\ At(c, "posting") \/ At(c, "reading")
    /\ SetStatus({r \in {caller[c].request} : OpenRow(r)}, "failed")
    /\ Return(c)
    /\ UNCHANGED <<workflow, thread, late, grants>>

\* mark_delivered: raises unless the request still awaits delivery.
MarkDelivered(c) ==
    /\ At(c, "marking")
    /\ \/ /\ Row(c).status = "created"
          /\ SetStatus({caller[c].request}, "pending")
          /\ Goto(c, "reading")
       \/ Row(c).status # "created" /\ UNCHANGED requests /\ Return(c)
    /\ UNCHANGED <<workflow, thread, late, grants>>

\* poll_human_input_request: what the current record of the request leads to.
Outcome(c, status, response) ==
    CASE status = "answered" /\ response = "exact" -> Goto(c, "superseding")
      [] (status = "answered" /\ response # "exact") \/ status = "expired" ->
             IF caller[c].channel = "slack" THEN Return(c) ELSE Goto(c, "fallback")
      [] status \in {"failed", "superseded"} -> Goto(c, "fallback")
      [] status \in {"created", "pending"} -> Goto(c, "reading") \/ Goto(c, "fallback")

Read(c) ==
    /\ At(c, "reading")
    /\ IF Row(c).status = "pending"
       THEN caller' = [caller EXCEPT ![c].at = "accepting", ![c].seen = thread[caller[c].request]]
       ELSE Outcome(c, Row(c).status, Row(c).response)
    /\ UNCHANGED <<workflow, requests, thread, late, grants>>

\* The store takes the first of the replies read that it accepts.  Without one
\* a pending request expires past its deadline; before it the caller polls again
\* or stops waiting.
Accept(c) ==
    LET r == caller[c].request
        seen == caller[c].seen
        taken == {i \in DOMAIN seen : Accepts(r, seen[i])}
    IN  /\ At(c, "accepting")
        /\ \/ \E i \in taken :
                /\ \A j \in taken : i <= j
                /\ requests' = [requests EXCEPT ![r].status = "answered",
                                    ![r].response = seen[i].text, ![r].by = seen[i].by]
                /\ Outcome(c, "answered", seen[i].text)
           \/ /\ taken = {} /\ Row(c).status = "pending" /\ r \in late
              /\ SetStatus({r}, "expired")
              /\ Outcome(c, "expired", None)
           \/ /\ taken = {} /\ ~(Row(c).status = "pending" /\ r \in late)
              /\ UNCHANGED requests
              /\ Outcome(c, Row(c).status, Row(c).response)
        /\ UNCHANGED <<workflow, thread, late, grants>>

\* The answer of a challenge closes the other open requests for it.
Supersede(c) ==
    /\ At(c, "superseding")
    /\ SetStatus({r \in RowsOf(Challenge(c)) \ {caller[c].request} : OpenRow(r)}, "superseded")
    /\ Goto(c, "rechecking")
    /\ UNCHANGED <<workflow, thread, late, grants>>

\* A reply recorded on another channel meanwhile still counts.
Fallback(c) ==
    /\ At(c, "fallback")
    /\ \/ \E r \in Consumed(Challenge(c)) : UseReply(c, r)
       \/ Consumed(Challenge(c)) = {} /\ Return(c)
    /\ UNCHANGED <<workflow, requests, thread, late, grants>>

\* The subject must be preparable again, unchanged, after the owner answered.
Recheck(c) ==
    /\ At(c, "rechecking")
    /\ IF Preparable /\ CurrentSubject = caller[c].subject THEN Goto(c, "committing") ELSE Return(c)
    /\ UNCHANGED <<workflow, requests, thread, late, grants>>

\* transition_workflow compares the subject's generation in its transaction.
\* Seeded fault: the generation is compared before the transaction only.
CommitUnchecked(c) ==
    /\ At(c, "committing")
    /\ workflow.generation < MaxGeneration
    /\ workflow' = [generation |-> workflow.generation + 1,
                    stage |-> IF caller[c].subject.verb = "APPROVE" THEN "approved" ELSE "qualified"]
    /\ grants' = grants \cup {[subject |-> caller[c].subject, request |-> caller[c].request,
                               generation |-> workflow.generation]}
    /\ Return(c)
    /\ UNCHANGED <<requests, thread, late>>

Commit(c) ==
    LET subject == caller[c].subject
    IN  /\ At(c, "committing")
        /\ IF workflow.generation = subject.generation
           THEN /\ workflow.generation < MaxGeneration
                /\ workflow' = [generation |-> workflow.generation + 1,
                                stage |-> IF subject.verb = "APPROVE" THEN "approved" ELSE "qualified"]
                /\ grants' = grants \cup {[subject |-> subject, request |-> caller[c].request,
                                           generation |-> workflow.generation]}
           ELSE UNCHANGED <<workflow, grants>>
        /\ Return(c)
        /\ UNCHANGED <<requests, thread, late>>

Crash(c) ==
    /\ ~At(c, "idle")
    /\ Return(c)
    /\ UNCHANGED <<workflow, requests, thread, late, grants>>

-----------------------------------------------------------------------------
(* The surroundings: the owner and others reply, deadlines pass, and other *)
(* operations move the workflow on.                                        *)

Posted(r) == \/ requests[r].status = "pending"
             \/ \E c \in Callers : At(c, "marking") /\ caller[c].request = r

Reply(r, answer) ==
    /\ r \in Used
    /\ requests[r].channel = "slack" /\ Posted(r) /\ OpenRow(r)
    /\ Len(thread[r]) < MaxReplies
    /\ thread' = [thread EXCEPT ![r] = Append(@, [text |-> answer.text, by |-> answer.by,
                                                  late |-> r \in late])]
    /\ UNCHANGED <<workflow, requests, late, caller, grants>>

DeadlinePasses(r) ==
    /\ r \in Used \ late
    /\ requests[r].channel = "slack" /\ requests[r].status = "pending"
    /\ late' = late \cup {r}
    /\ UNCHANGED <<workflow, requests, thread, caller, grants>>

\* No operation but an owner's puts a workflow under a grant.
OtherOperation ==
    /\ workflow.generation < MaxGeneration
    /\ \E stage \in {"qualified", "elsewhere"} \cup ({"approved"} \cap {workflow.stage}) :
          workflow' = [generation |-> workflow.generation + 1, stage |-> stage]
    /\ UNCHANGED <<requests, thread, late, caller, grants>>

-----------------------------------------------------------------------------

Init == /\ workflow = [generation |-> 0, stage |-> "qualified"]
        /\ requests = [r \in Requests |-> None]
        /\ thread = [r \in Requests |-> <<>>]
        /\ late = {}
        /\ caller = [c \in Callers |-> Idle]
        /\ grants = {}

Asks(c) == \/ \E channel \in {"slack", "chat"} : Prepare(c, channel)
           \/ Look(c) \/ Create(c) \/ Post(c)
           \/ TransportFails(c) \/ MarkDelivered(c)

Polls(c) == Read(c) \/ Accept(c) \/ Supersede(c) \/ Fallback(c)

Decides(c) == Recheck(c) \/ Commit(c) \/ Crash(c)

World == \/ \E r \in Requests, answer \in Answers : Reply(r, answer)
         \/ \E r \in Requests : DeadlinePasses(r)
         \/ OtherOperation

Next == World \/ \E c \in Callers : Asks(c) \/ Polls(c) \/ Decides(c)

Spec == Init /\ [][Next]_vars

-----------------------------------------------------------------------------
(* Properties.                                                             *)

Grants == [subject: Subjects, request: Requests, generation: Generations]

\* The store, the threads and the callers have the shapes their readers rely on.
TypeOK ==
    /\ workflow \in [generation: Generations, stage: {"qualified", "approved", "elsewhere"}]
    /\ requests \in [Requests -> Rows \cup {None}]
    /\ thread \in [Requests -> Seq(Replies)]
    /\ late \subseteq Requests
    /\ caller \in [Callers -> [at: Steps, channel: {"slack", "chat"}, subject: Subjects \cup {None},
                               request: Requests \cup {None}, seen: Seq(Replies)]]
    /\ grants \subseteq Grants

\* However many channels and processes ask for the same decision, one reply at
\* most is ever recorded as its exact answer.
ChallengeConsumedOnce ==
    \A r, q \in Used :
        /\ r \in Consumed(requests[r].challenge)
        /\ q \in Consumed(requests[r].challenge)
        => r = q

\* The owner's exact reply came to request r before its deadline.
InTime(r) ==
    \E i \in DOMAIN thread[r] : thread[r][i] = [text |-> "exact", by |-> "owner", late |-> FALSE]

\* What was committed is what the owner was shown: every grant and revocation
\* cites the owner's exact answer to a message about that very subject, in whose
\* thread the owner's exact reply came before the deadline, and was committed at the
\* generation the message named.  A reply that came late authorizes nothing, whenever
\* and by whichever process it is polled (human_input.py:269-297).
CommittedAsShown ==
    \A g \in grants :
        /\ requests[g.request] # None
        /\ requests[g.request].shown = g.subject
        /\ requests[g.request].status = "answered"
        /\ requests[g.request].response = "exact"
        /\ requests[g.request].by = "owner"
        /\ InTime(g.request)
        /\ g.generation = g.subject.generation

\* One reply authorizes one transition: a revoked grant is not revived by the
\* answer that once gave it, whichever process still holds that answer.
OneReplyOneGrant ==
    \A g, h \in grants : g.request = h.request \/ g.generation = h.generation => g = h

\* A settled request stays settled: what was answered, declined, expired, failed
\* or superseded is never open again and never changes its answer.
SettledForGood ==
    [][\A r \in Used : ~OpenRow(r) => requests'[r] = requests[r]]_vars
=============================================================================
