------------------------- MODULE LiveSessionProofs -------------------------
(***************************************************************************)
(* Theorems about a live-mode session, for any number of sessions, steer   *)
(* messages, agents and faults.                                            *)
(*                                                                         *)
(* A step of the session takes at most one step of the queue, so what      *)
(* LiveQueueProofs proves of the queue holds in the session.  The rest of  *)
(* the invariant relates the queue to the journal and the source to what   *)
(* the agents report of it.                                                *)
(***************************************************************************)
EXTENDS LiveSession, LiveQueueProofs

-----------------------------------------------------------------------------
(* The invariant                                                           *)

CheckpointPhases ==
    {"picking", "generating", "cycling", "saving", "confirmed", "idle", "steer"}
RequestPhases ==
    {"generate_requested", "accept_requested", "discard_requested",
     "steer_requested"}
SettledPhases ==
    {"variants_ready", "carbonize_required", "steer_done", "discarded",
     "completed", "agent_error"}
Phases == {"new"} \cup CheckpointPhases \cup RequestPhases \cup SettledPhases

\* Steer events carry the id of a steer message, the others that of a session.
AgentEvents ==
    {e \in [id : Ids, type : Types] : e.type = "steer" <=> e.id \in Steers}

Given == AgentEvents \cup {Exit, NoEvent}

QueueProper ==
    /\ \A e \in pendingEvents : e.event \in AgentEvents \cup {Exit}
    /\ \A p \in Pollers : answer[p] \in Given

\* Every process of the helper has a token of its own.
HelperInv ==
    /\ up \in BOOLEAN /\ exitTimer \in BOOLEAN
    /\ stream \in {"open", "retrying", "closed"}
    /\ faults \in 0..MaxFaults
    /\ token \in Nat \ {0}
    /\ token =< faults + 1
    /\ ~up => token =< faults /\ pendingEvents = {} /\ pendingPolls = <<>>

Waiting == {i \in Ids : journal[i].pending # None}

\* Every restart finds a pending request among the sessions it looks through.
JournalInv ==
    /\ journal \in [Ids -> [phase : Phases, pending : AgentEvents \cup {None},
                            revision : 0..MaxRevision]]
    /\ \A i \in Waiting : /\ journal[i].pending.id = i
                          /\ journal[i].phase \notin Terminal \cup {"new"}
    /\ IsFiniteSet(Waiting)

GoodCall(c) ==
    /\ c \in [type : Types \cup {"checkpoint"}, id : Ids,
              phase : CheckpointPhases \cup {""}, revision : 0..MaxRevision,
              token : Nat, mine : BOOLEAN, stage : {"sent", "ok", "failed"}]
    /\ IF c.type = "checkpoint"
       THEN c.phase \in CheckpointPhases
       ELSE [id |-> c.id, type |-> c.type] \in AgentEvents

CallsInv == \A c \in calls : GoodCall(c)

Replies == {"done", "error", "steer_done", "complete", "carbonize",
            "agent_done", "discarded"}

Messages == [type : {"connected"} \cup Replies, id : Ids \cup {NoId},
             active : SUBSET Ids, open : SUBSET Ids]

\* "complete" is broadcast once the accepted variant is in the source.
IsClean(i) == i \in Sessions /\ source[i] = "clean"

InboxInv ==
    /\ inbox \in Seq(Messages)
    /\ \A k \in 1..Len(inbox) :
          inbox[k].type = "complete" => IsClean(inbox[k].id)

JobInv ==
    /\ job \in [Pollers -> [stage : {"idle", "replying", "carbonize",
                                     "completing"},
                            event : AgentEvents \cup {NoEvent},
                            reply : Replies \cup {""}, token : Nat]]
    /\ \A p \in Pollers : job[p].stage # "idle" =>
          /\ job[p].event \in AgentEvents
          /\ job[p].stage = "replying" =>
                /\ job[p].reply \in Replies
                /\ job[p].reply = "carbonize" => job[p].event.id \in Sessions
                /\ job[p].reply = "complete" => IsClean(job[p].event.id)
          /\ job[p].stage = "carbonize" => job[p].event.id \in Sessions
          /\ job[p].stage = "completing" => IsClean(job[p].event.id)

SourceInv ==
    /\ source \in [Sessions -> Blocks] /\ dom \in [Sessions -> Blocks]
    /\ finishing # None => source[finishing] = "clean"

SavedSessions == [id : Sessions, state : Bars, arrived : BOOLEAN,
                  revision : 0..MaxRevision]

TabInv ==
    /\ bar \in Bars /\ current \in Sessions \cup {None} /\ arrived \in BOOLEAN
    /\ accepting \in Sessions \cup {None} /\ finishing \in Sessions \cup {None}
    /\ observer \in BOOLEAN /\ capturing \subseteq Sessions
    /\ steering \in Steers \cup {None} /\ checkpointDue \in BOOLEAN
    /\ revision \in 0..MaxRevision /\ pageToken \in Nat
    /\ saved \in SavedSessions \cup {None}
    /\ handled \in Sessions \cup {None}

SessionInv ==
    /\ QueueProper /\ HelperInv /\ JournalInv /\ CallsInv /\ InboxInv
    /\ JobInv /\ SourceInv /\ TabInv /\ PendingIsQueued
-----------------------------------------------------------------------------
(* What the queue's operations keep and hand out                           *)

\* The entries of q that an agent must answer are in the queue after a step.
KeptNext(q) ==
    \A e \in q : e.event.id # NoId =>
        \E f \in pendingEvents' : f.event = e.event

\* Entries and answers after a step were there before, or come from q.
DrawnNext(q) ==
    /\ \A f \in pendingEvents' : \E e \in q : f.event = e.event
    /\ \A p \in Pollers : \/ answer'[p] = answer[p] \/ answer'[p] = NoEvent
                          \/ \E e \in q : answer'[p] = e.event

LEMMA LeasedKeeps ==
    ASSUME NEW q, q \subseteq Entry, NEW taken \in SUBSET q
    PROVE  /\ \A e \in q : e.event.id # NoId =>
                 \E f \in Leased(q, taken) : f.event = e.event
           /\ \A f \in Leased(q, taken) : \E e \in q : f.event = e.event
<1>1. \A e \in taken : [e EXCEPT !.lease = "live"].event = e.event
  BY DEF Entry
<1> QED BY <1>1 DEF Leased

LEMMA FlushKeeps ==
    ASSUME NEW q, q \subseteq Entry, FlushPendingPolls(q)
    PROVE  KeptNext(q) /\ DrawnNext(q)
<1>1. PICK taken \in SUBSET Available(q) :
        /\ pendingEvents' = Leased(q, taken)
        /\ answer' = [p \in Pollers |->
              IF \E e \in taken : pendingPolls[Rank(e, taken)] = p
              THEN (CHOOSE e \in taken : pendingPolls[Rank(e, taken)] = p).event
              ELSE answer[p]]
  BY DEF FlushPendingPolls
<1>2. taken \in SUBSET q BY DEF Available
<1>3. \A p \in Pollers :
         (\E e \in taken : pendingPolls[Rank(e, taken)] = p) =>
            (CHOOSE e \in taken : pendingPolls[Rank(e, taken)] = p) \in taken
  OBVIOUS
<1>4. \A p \in Pollers : answer'[p] = answer[p]
                         \/ \E e \in q : answer'[p] = e.event
  BY <1>1, <1>2, <1>3
<1>5. /\ \A e \in q : e.event.id # NoId =>
            \E f \in pendingEvents' : f.event = e.event
      /\ \A f \in pendingEvents' : \E e \in q : f.event = e.event
  BY <1>1, <1>2, LeasedKeeps
<1> QED BY <1>4, <1>5 DEF KeptNext, DrawnNext

\* The queue that enqueueEvent flushes.
Extended(event) ==
    pendingEvents \cup
        {[event |-> event, lease |-> "none", seq |-> Newest(pendingEvents) + 1]}

LEMMA EnqueueKeeps ==
    ASSUME QueueInv, NEW event \in Events, EnqueueEvent(event)
    PROVE  /\ KeptNext(pendingEvents) /\ DrawnNext(Extended(event))
           /\ event.id # NoId => \E f \in pendingEvents' : f.event = event
<1>1. CASE Duplicate(event)
  BY <1>1 DEF EnqueueEvent, Duplicate, KeptNext, DrawnNext, Extended, queueVars
<1>2. CASE ~Duplicate(event)
  <2>1. FlushPendingPolls(Extended(event))
    BY <1>2 DEF EnqueueEvent, Extended
  <2>2. GoodQueue(Extended(event))
    BY <1>2, InvIsGood, EnqueuedIsGood DEF Duplicate, Extended
  <2>3. KeptNext(Extended(event)) /\ DrawnNext(Extended(event))
    BY <2>1, <2>2, FlushKeeps DEF GoodQueue
  <2>4. \E e \in Extended(event) : e.event = event
    <3> DEFINE x == [event |-> event, lease |-> "none",
                     seq |-> Newest(pendingEvents) + 1]
    <3>1. x \in Extended(event) BY DEF Extended
    <3>2. x.event = event OBVIOUS
    <3> HIDE DEF x
    <3> QED BY <3>1, <3>2
  <2>5. pendingEvents \subseteq Extended(event) BY DEF Extended
  <2> QED BY <2>3, <2>4, <2>5 DEF KeptNext
<1> QED BY <1>1, <1>2

\* An acknowledgement removes an event of its id, and none of another.
LEMMA AcknowledgeKeeps ==
    ASSUME QueueInv, NEW id, AcknowledgePendingEvent(id)
    PROVE  /\ KeptNext({e \in pendingEvents : e.event.id # id})
           /\ WithId(id) = {} => KeptNext(pendingEvents)
           /\ DrawnNext(pendingEvents)
<1> DEFINE gone == Oldest(WithId(id))
           q == IF WithId(id) = {} THEN pendingEvents ELSE pendingEvents \ {gone}
<1>1. pendingEvents \subseteq Entry BY DEF QueueInv, QueueTypeOK
<1>2. q \subseteq pendingEvents OBVIOUS
<1>3. WithId(id) # {} => gone \in WithId(id)
  BY <1>1, OldestIsOne DEF WithId
<1>4. {e \in pendingEvents : e.event.id # id} \subseteq q
  BY <1>3 DEF WithId
<1>5. WithId(id) = {} => q = pendingEvents OBVIOUS
<1>6. FlushPendingPolls(q) BY DEF AcknowledgePendingEvent
<1> HIDE DEF q
<1>7. KeptNext(q) /\ DrawnNext(q) BY <1>1, <1>2, <1>6, FlushKeeps
<1> QED BY <1>2, <1>4, <1>5, <1>7 DEF KeptNext, DrawnNext

LEMMA PollKeeps ==
    ASSUME QueueInv, NEW p \in Pollers, HandlePollGet(p)
    PROVE  KeptNext(pendingEvents) /\ DrawnNext(pendingEvents)
<1>t. pendingEvents \subseteq Entry /\ answer \in [Pollers -> Events \cup {NoEvent}]
  BY DEF QueueInv, QueueTypeOK
<1>1. CASE Available(pendingEvents) = {}
  BY <1>t, <1>1 DEF HandlePollGet, KeptNext, DrawnNext
<1>2. CASE Available(pendingEvents) # {}
  <2> DEFINE e == Oldest(Available(pendingEvents))
  <2>1. e \in pendingEvents
    BY <1>t, <1>2, OldestIsOne DEF Available
  <2>2. /\ pendingEvents' = Leased(pendingEvents, {e})
        /\ answer' = [answer EXCEPT ![p] = e.event]
    BY <1>2 DEF HandlePollGet
  <2> HIDE DEF e
  <2>3. {e} \in SUBSET pendingEvents BY <2>1
  <2>4. /\ \A g \in pendingEvents : g.event.id # NoId =>
              \E f \in pendingEvents' : f.event = g.event
        /\ \A f \in pendingEvents' : \E g \in pendingEvents : f.event = g.event
    BY <1>t, <2>2, <2>3, LeasedKeeps
  <2>5. \A r \in Pollers : answer'[r] = answer[r] \/ answer'[r] = e.event
    BY <1>t, <2>2
  <2> QED BY <2>1, <2>4, <2>5 DEF KeptNext, DrawnNext
<1> QED BY <1>1, <1>2

LEMMA ExpiryKeeps ==
    ASSUME QueueInv, NEW e \in pendingEvents, LeaseExpires(e)
    PROVE  KeptNext(pendingEvents) /\ DrawnNext(pendingEvents)
<1>1. [e EXCEPT !.lease = "expired"].event = e.event
  BY DEF QueueInv, QueueTypeOK, Entry
<1> QED BY <1>1 DEF LeaseExpires, KeptNext, DrawnNext

LEMMA CancelKeeps ==
    ASSUME CancelQueuedAnonymousExitEvents
    PROVE  KeptNext(pendingEvents) /\ DrawnNext(pendingEvents)
BY DEF CancelQueuedAnonymousExitEvents, KeptNext, DrawnNext, Exit

-----------------------------------------------------------------------------
(* The queue in the session                                                *)

\* Steps that leave the queue and the journal alone.
Aside ==
    \/ User \/ TabStep \/ Disconnect \/ ServerLost \/ Reload
    \/ \E c \in calls : RequestFails(c)
    \/ \E p \in Pollers : \/ Wrap(p) \/ WriteVariants(p) \/ Carbonize(p)
                          \/ \E s \in Sessions : Resume(p, s)

\* Steps that move events between the queue and the agents.
Turning ==
    \/ Connect \/ TimerFires
    \/ \E e \in pendingEvents : LeaseRunsOut(e)
    \/ \E p \in Pollers : \/ Poll(p) \/ FinishGenerate(p) \/ FinishSteer(p)
                          \/ RunAccept(p) \/ RunDiscard(p) \/ AgentDies(p)

\* Steps of a request of the tab, and of an agent's answer.
Posting == \E c \in calls : RequestArrives(c) \/ ResponseLost(c)
Answering == \E p \in Pollers : Reply(p) \/ Complete(p)

LEMMA StepKinds ==
    Next => \/ Aside \/ Turning \/ Posting \/ Answering
            \/ ExitTimerFires \/ Crash \/ Restart
BY DEF Next, Network, Helper, Agent, Work, Aside, Turning, Posting, Answering

LEMMA AsideLeavesQueue ==
    Aside => UNCHANGED <<queueVars, journal, up, token>>
<1>1. User => UNCHANGED <<queueVars, journal, up, token>>
  BY DEF User, Go, SelectVariant, HandleAccept, HandleDiscard, SubmitSteer, helper
<1>2. TabStep => UNCHANGED <<queueVars, journal, up, token>>
  BY DEF TabStep, EmitGenerate, Refresh, VariantsArrive, CheckpointTimer,
     AcceptCleanup, SteerTimeout, AcceptFailed, DiscardAnswered, SteerFailed,
     OnConnected, OnDone, OnComplete, OnDiscarded, OnSteerOrAgentDone, OnError,
     helper
<1>3. Disconnect \/ ServerLost \/ Reload \/ (\E c \in calls : RequestFails(c))
      => UNCHANGED <<queueVars, journal, up, token>>
  BY DEF Disconnect, ServerLost, Reload, RequestFails, helper
<1>4. ASSUME NEW p \in Pollers,
             \/ Wrap(p) \/ WriteVariants(p) \/ Carbonize(p)
             \/ \E s \in Sessions : Resume(p, s)
      PROVE  UNCHANGED <<queueVars, journal, up, token>>
  BY <1>4 DEF Wrap, WriteVariants, Carbonize, Resume, helper
<1> QED BY <1>1, <1>2, <1>3, <1>4 DEF Aside

\* A poller that has an event, or had one, is not parked.
LEMMA BusyIsUnparked ==
    ASSUME QueueInv, NEW p \in Pollers, answer[p] # NoEvent
    PROVE  ~Parked(p)
BY DEF QueueInv, QueueInvariant, ParkedOnce, Parked

\* An agent gives its event up.
GivesUp(p) ==
    /\ ~Parked(p)
    /\ answer' = [answer EXCEPT ![p] = NoEvent]
    /\ UNCHANGED <<pendingEvents, pendingPolls, leaseTimer>>

LEMMA GivesUpIsStep ==
    ASSUME QueueInv, NEW p \in Pollers, GivesUp(p)
    PROVE  QueueNext /\ KeptNext(pendingEvents) /\ DrawnNext(pendingEvents)
<1>1. QueueNext BY DEF QueueNext, GivesUp
<1>2. KeptNext(pendingEvents) /\ DrawnNext(pendingEvents)
  BY DEF GivesUp, KeptNext, DrawnNext, QueueInv, QueueTypeOK
<1> QED BY <1>1, <1>2

LEMMA FinishIsStep ==
    ASSUME QueueInv, NEW p \in Pollers, NEW type \in Types,
           Working(p, type), NEW reply, Finish(p, reply)
    PROVE  GivesUp(p)
<1>1. answer[p] # NoEvent
  <2>1. answer[p] \in [id : Ids, type : Types] BY DEF Working
  <2> QED BY <2>1, QueueAssumption DEF Events
<1> QED BY <1>1, BusyIsUnparked DEF Finish, GivesUp

LEMMA TurningSteps ==
    ASSUME QueueInv, Turning
    PROVE  /\ QueueNext /\ KeptNext(pendingEvents) /\ DrawnNext(pendingEvents)
           /\ UNCHANGED <<journal, up, token>>
<1>t. pendingEvents \subseteq Entry BY DEF QueueInv, QueueTypeOK
<1>1. CASE Connect
  BY <1>1, CancelKeeps DEF Connect, QueueNext
<1>2. CASE TimerFires
  BY <1>t, <1>2, FlushKeeps DEF TimerFires, LeaseTimerFires, QueueNext, helper
<1>3. ASSUME NEW e \in pendingEvents, LeaseRunsOut(e)
      PROVE  /\ QueueNext /\ KeptNext(pendingEvents) /\ DrawnNext(pendingEvents)
             /\ UNCHANGED <<journal, up, token>>
  BY <1>3, ExpiryKeeps DEF LeaseRunsOut, QueueNext, helper
<1>4. ASSUME NEW p \in Pollers, Poll(p)
      PROVE  /\ QueueNext /\ KeptNext(pendingEvents) /\ DrawnNext(pendingEvents)
             /\ UNCHANGED <<journal, up, token>>
  BY <1>4, PollKeeps DEF Poll, Free, QueueNext, helper
<1>5. ASSUME NEW p \in Pollers,
             FinishGenerate(p) \/ FinishSteer(p) \/ RunAccept(p) \/ RunDiscard(p)
      PROVE  /\ QueueNext /\ KeptNext(pendingEvents) /\ DrawnNext(pendingEvents)
             /\ UNCHANGED <<journal, up, token>>
  <2>1. \E type \in Types : Working(p, type) /\ \E reply : Finish(p, reply)
    BY <1>5, SessionAssumption
    DEF FinishGenerate, FinishSteer, RunAccept, RunDiscard
  <2>2. UNCHANGED <<journal, up, token>>
    BY <1>5 DEF FinishGenerate, FinishSteer, RunAccept, RunDiscard, helper
  <2> QED BY <2>1, <2>2, FinishIsStep, GivesUpIsStep
<1>6. ASSUME NEW p \in Pollers, AgentDies(p)
      PROVE  /\ QueueNext /\ KeptNext(pendingEvents) /\ DrawnNext(pendingEvents)
             /\ UNCHANGED <<journal, up, token>>
  <2>1. CASE Parked(p)
    <3>1. PICK k \in 1..Len(pendingPolls) : DropPoll(k)
      BY <1>6, <2>1 DEF AgentDies
    <3>2. KeptNext(pendingEvents) /\ DrawnNext(pendingEvents)
      BY <3>1 DEF DropPoll, KeptNext, DrawnNext
    <3> QED BY <1>6, <3>1, <3>2 DEF AgentDies, QueueNext, helper
  <2>2. CASE ~Parked(p)
    <3>1. GivesUp(p) BY <1>6, <2>2 DEF AgentDies, GivesUp
    <3> QED BY <1>6, <3>1, GivesUpIsStep DEF AgentDies, helper
  <2> QED BY <2>1, <2>2
<1> QED BY <1>1, <1>2, <1>3, <1>4, <1>5, <1>6 DEF Turning

-----------------------------------------------------------------------------
(* The journal                                                             *)

\* A request of the tab is journaled and queued, or nothing happens to it.
LEMMA PostingIs ==
    ASSUME Posting
    PROVE  /\ UNCHANGED <<up, token>>
           /\ \E c \in calls : /\ up
                               /\ \/ UNCHANGED <<queueVars, journal>>
                                  \/ HandlePostEvent(c)
BY DEF Posting, RequestArrives, ResponseLost

Logged == {"agent_done", "carbonize", "steer_done", "discarded", "complete",
           "agent_error"}

\* The journal has the answer to id, and the session waits for no other.
Journaled(id) ==
    \E type \in Logged :
        journal' = [journal EXCEPT ![id] = ApplyReply(@, type)]

\* An answer is journaled and acknowledged, or only one of the two.
LEMMA AnsweringIs ==
    ASSUME JobInv, Answering
    PROVE  /\ UNCHANGED <<up, token>>
           /\ \E id \in Ids :
                 \/ UNCHANGED <<queueVars, journal>>
                 \/ UNCHANGED queueVars /\ Journaled(id)
                 \/ /\ up /\ AcknowledgePendingEvent(id)
                    /\ \/ Journaled(id)
                       \/ UNCHANGED journal /\ WithId(id) = {}
<1>1. ASSUME NEW id, NEW type \in Replies \ {"carbonize"},
             NEW carbonize, HandlePollPost(id, type, carbonize)
      PROVE  /\ AcknowledgePendingEvent(id) /\ UNCHANGED <<up, token>>
             /\ \/ Journaled(id)
                \/ UNCHANGED journal /\ WithId(id) = {}
  <2>1. (CASE type \in {"done", "agent_done"} ->
                 IF carbonize THEN "carbonize" ELSE "agent_done"
           [] type = "error" -> "agent_error"
           [] OTHER -> type) \in Logged
    BY DEF Replies, Logged
  <2> QED BY <1>1, <2>1 DEF HandlePollPost, Journaled
<1>2. ASSUME NEW p \in Pollers, Reply(p)
      PROVE  /\ UNCHANGED <<up, token>> /\ job[p].event.id \in Ids
             /\ \/ UNCHANGED <<queueVars, journal>>
                \/ /\ up /\ AcknowledgePendingEvent(job[p].event.id)
                   /\ \/ Journaled(job[p].event.id)
                      \/ /\ UNCHANGED journal
                         /\ WithId(job[p].event.id) = {}
  <2>1. job[p].event \in AgentEvents /\ job[p].reply \in Replies
    BY <1>2 DEF Reply, JobInv
  <2>2. job[p].event.id \in Ids BY <2>1 DEF AgentEvents
  <2>3. CompletionType(job[p].reply) \in Replies \ {"carbonize"}
    BY <2>1 DEF CompletionType, Replies
  <2>4. \/ UNCHANGED <<queueVars, helper>>
        \/ up /\ HandlePollPost(job[p].event.id, CompletionType(job[p].reply),
                                job[p].reply = "carbonize")
    BY <1>2 DEF Reply, ReplyReaches
  <2> QED BY <1>1, <2>2, <2>3, <2>4 DEF helper
<1>3. ASSUME NEW p \in Pollers, Complete(p)
      PROVE  /\ UNCHANGED <<up, token>> /\ job[p].event.id \in Ids
             /\ \/ UNCHANGED queueVars /\ Journaled(job[p].event.id)
                \/ /\ up /\ AcknowledgePendingEvent(job[p].event.id)
                   /\ \/ Journaled(job[p].event.id)
                      \/ /\ UNCHANGED journal
                         /\ WithId(job[p].event.id) = {}
  <2>1. job[p].event \in AgentEvents BY <1>3 DEF Complete, JobInv
  <2>2. job[p].event.id \in Ids BY <2>1 DEF AgentEvents
  <2>3. \/ /\ journal' = [journal EXCEPT ![job[p].event.id] =
                             ApplyReply(@, "complete")]
           /\ UNCHANGED <<queueVars, up, token>>
        \/ up /\ HandlePollPost(job[p].event.id, "complete", FALSE)
    BY <1>3 DEF Complete
  <2>4. "complete" \in Replies \ {"carbonize"} /\ "complete" \in Logged
    BY DEF Replies, Logged
  <2> QED BY <1>1, <2>2, <2>3, <2>4 DEF Journaled
<1> QED BY <1>2, <1>3 DEF Answering

\* A restarted helper queues what the journal owes.
LEMMA RestartIs ==
    ASSUME QueueInv, HelperInv, JournalInv, Restart
    PROVE  /\ QueueNext /\ UNCHANGED <<journal, answer>> /\ up'
           /\ {e.event : e \in pendingEvents'} = Owed
           /\ \A i \in Waiting : journal[i].pending \in Owed
<1>1. Owed = {journal[i].pending : i \in Waiting}
  BY DEF Owed, Active, Waiting, JournalInv
<1>2. Owed \subseteq [id : Ids, type : Types]
  BY <1>1 DEF JournalInv, Waiting, AgentEvents
<1>3. IsFiniteSet(Owed)
  <2> DEFINE f == [i \in Waiting |-> journal[i].pending]
  <2>1. f \in Surjection(Waiting, Owed) BY <1>1 DEF Surjection
  <2>2. IsFiniteSet(Waiting) BY DEF JournalInv
  <2> HIDE DEF f
  <2> QED BY <2>1, <2>2, FS_Surjection
<1>4. {e.event : e \in pendingEvents'} = Owed
  <2>1. PICK order \in [Owed -> 1..Cardinality(Owed)] :
           pendingEvents' = {[event |-> e, lease |-> "none", seq |-> order[e]] :
                                e \in Owed}
    BY DEF Restart, RestorePendingEvents
  <2> DEFINE entry(e) == [event |-> e, lease |-> "none", seq |-> order[e]]
  <2>2. \A e \in Owed : entry(e) \in pendingEvents' BY <2>1
  <2>3. \A e \in Owed : entry(e).event = e OBVIOUS
  <2>4. \A g \in pendingEvents' : \E e \in Owed : g = entry(e) BY <2>1
  <2> HIDE DEF entry
  <2> QED BY <2>2, <2>3, <2>4
<1>5. QueueNext
  <2>1. pendingPolls = <<>> BY DEF HelperInv, Restart
  <2>2. RestorePendingEvents(Owed) BY DEF Restart
  <2> HIDE DEF Owed
  <2> DEFINE restored == {e.event : e \in pendingEvents'}
  <2>3. restored = Owed BY <1>4
  <2> HIDE DEF restored
  <2>4. /\ restored \subseteq [id : Ids, type : Types] /\ IsFiniteSet(restored)
        /\ RestorePendingEvents(restored)
    BY <1>2, <1>3, <2>2, <2>3
  <2> QED BY <2>1, <2>4 DEF QueueNext, restored
<1> QED BY <1>1, <1>4, <1>5 DEF Restart, RestorePendingEvents

LEMMA QueueStep ==
    ASSUME QueueInv, HelperInv, JournalInv, CallsInv, JobInv, [Next]_vars
    PROVE  [QueueNext]_queueVars
<1>1. CASE Aside BY <1>1, AsideLeavesQueue
<1>2. CASE Turning BY <1>2, TurningSteps
<1>3. CASE Posting
  <2>1. ASSUME NEW c \in calls, HandlePostEvent(c) PROVE [QueueNext]_queueVars
    <3>1. CASE c.type = "checkpoint" BY <2>1, <3>1 DEF HandlePostEvent
    <3>2. CASE c.type # "checkpoint"
      <4>1. [id |-> c.id, type |-> c.type] \in Events
        BY <3>2 DEF CallsInv, GoodCall, AgentEvents, Events
      <4>2. EnqueueEvent([id |-> c.id, type |-> c.type])
        BY <2>1, <3>2 DEF HandlePostEvent
      <4> QED BY <4>1, <4>2 DEF QueueNext
    <3> QED BY <3>1, <3>2
  <2> QED BY <1>3, <2>1, PostingIs
<1>4. CASE Answering BY <1>4, AnsweringIs DEF QueueNext
<1>5. CASE ExitTimerFires BY <1>5 DEF ExitTimerFires, QueueNext, Events
<1>6. CASE Crash BY <1>6 DEF Crash, QueueNext
<1>7. CASE Restart BY <1>7, RestartIs
<1>8. CASE UNCHANGED vars BY <1>8 DEF vars
<1> QED BY <1>1, <1>2, <1>3, <1>4, <1>5, <1>6, <1>7, <1>8, StepKinds

LEMMA QueueProperStep ==
    ASSUME QueueInv, QueueProper, HelperInv, JournalInv, CallsInv, JobInv,
           [Next]_vars
    PROVE  QueueProper'
<1>1. ASSUME DrawnNext(pendingEvents) PROVE QueueProper'
  BY <1>1 DEF DrawnNext, QueueProper, Given
<1>2. ASSUME NEW event \in AgentEvents \cup {Exit}, EnqueueEvent(event)
      PROVE  QueueProper'
  <2>1. event \in Events BY DEF AgentEvents, Events
  <2>2. DrawnNext(Extended(event)) BY <1>2, <2>1, EnqueueKeeps
  <2>3. \A e \in Extended(event) : e.event \in AgentEvents \cup {Exit}
    <3> DEFINE x == [event |-> event, lease |-> "none",
                     seq |-> Newest(pendingEvents) + 1]
    <3>1. x.event = event OBVIOUS
    <3>2. \A e \in Extended(event) : e \in pendingEvents \/ e = x
      BY DEF Extended
    <3> HIDE DEF x
    <3> QED BY <3>1, <3>2 DEF QueueProper
  <2> QED BY <2>2, <2>3 DEF DrawnNext, QueueProper, Given
<1>3. UNCHANGED queueVars => QueueProper' BY DEF queueVars, QueueProper
<1>4. CASE Aside BY <1>3, <1>4, AsideLeavesQueue
<1>5. CASE Turning BY <1>1, <1>5, TurningSteps
<1>6. CASE Posting
  <2>1. ASSUME NEW c \in calls, HandlePostEvent(c) PROVE QueueProper'
    BY <1>2, <1>3, <2>1 DEF HandlePostEvent, CallsInv, GoodCall
  <2> QED BY <1>3, <1>6, <2>1, PostingIs
<1>7. CASE Answering BY <1>1, <1>3, <1>7, AnsweringIs, AcknowledgeKeeps
<1>8. CASE ExitTimerFires BY <1>2, <1>8 DEF ExitTimerFires
<1>9. CASE Crash BY <1>9 DEF Crash, QueueLost, QueueProper
<1>10. CASE Restart
  <2>1. \A e \in pendingEvents' : e.event \in Owed BY <1>10, RestartIs
  <2>2. Owed \subseteq AgentEvents BY DEF Owed, Active, JournalInv
  <2>3. UNCHANGED answer BY <1>10, RestartIs
  <2> QED BY <2>1, <2>2, <2>3 DEF QueueProper
<1>11. CASE UNCHANGED vars BY <1>3, <1>11 DEF vars
<1> QED BY <1>4, <1>5, <1>6, <1>7, <1>8, <1>9, <1>10, <1>11, StepKinds

\* The phases of a request and of an answer are those of the journal.
LEMMA JournalPhases ==
    /\ \A type \in Types : Requested[type] \in RequestPhases
    /\ \A type \in Logged : Settled[type] \in SettledPhases
<1>1. \A type \in Types : Requested[type] \in RequestPhases
  BY SessionAssumption DEF Requested, RequestPhases
<1>2. \A type \in Logged : Settled[type] \in SettledPhases
  BY DEF Logged, Settled, SettledPhases
<1> QED BY <1>1, <1>2

JournalEntry == [phase : Phases, pending : AgentEvents \cup {None},
                 revision : 0..MaxRevision]

\* A session that gets a well-formed entry leaves a well-formed journal.
LEMMA EntryIsGood ==
    ASSUME JournalInv, NEW i \in Ids, NEW s \in JournalEntry,
           journal' = [journal EXCEPT ![i] = s],
           s.pending # None =>
              s.pending.id = i /\ s.phase \notin Terminal \cup {"new"}
    PROVE  JournalInv'
<1>1. journal' \in [Ids -> JournalEntry] BY DEF JournalInv, JournalEntry
<1>2. \A j \in Ids : journal'[j] = IF j = i THEN s ELSE journal[j]
  BY DEF JournalInv
<1>3. Waiting' \in SUBSET (Waiting \cup {i}) BY <1>2 DEF Waiting
<1>4. IsFiniteSet(Waiting)'
  BY <1>3, FS_AddElement, FS_Subset DEF JournalInv
<1>5. \A j \in Waiting' : /\ journal'[j].pending.id = j
                          /\ journal'[j].phase \notin Terminal \cup {"new"}
  BY <1>2 DEF JournalInv, Waiting
<1> QED BY <1>1, <1>4, <1>5 DEF JournalInv, JournalEntry

LEMMA PostedEntry ==
    ASSUME JournalInv, CallsInv, NEW c \in calls, HandlePostEvent(c)
    PROVE  JournalInv'
<1>0. /\ c.id \in Ids /\ journal[c.id] \in JournalEntry
      /\ journal[c.id].pending # None =>
            /\ journal[c.id].pending.id = c.id
            /\ journal[c.id].phase \notin Terminal \cup {"new"}
  BY DEF CallsInv, GoodCall, JournalInv, Waiting, JournalEntry
<1>1. CASE c.type = "checkpoint"
  <2> DEFINE s == ApplyCheckpoint(journal[c.id], c.phase, c.revision)
  <2>1. c.phase \in CheckpointPhases /\ c.revision \in 0..MaxRevision
    BY <1>1 DEF CallsInv, GoodCall
  <2>2. c.phase \in Phases /\ c.phase \notin Terminal \cup {"new"}
    BY <2>1 DEF CheckpointPhases, Phases, Terminal
  <2>3. \/ s = journal[c.id]
        \/ s = [journal[c.id] EXCEPT !.phase = c.phase, !.revision = c.revision]
    BY DEF ApplyCheckpoint
  <2>4. s \in JournalEntry /\ s.pending = journal[c.id].pending
        /\ (s.phase = journal[c.id].phase \/ s.phase = c.phase)
    BY <1>0, <2>1, <2>2, <2>3 DEF JournalEntry
  <2>5. journal' = [journal EXCEPT ![c.id] = s]
    BY <1>1 DEF HandlePostEvent
  <2> HIDE DEF s
  <2> QED BY <1>0, <2>2, <2>4, <2>5, EntryIsGood
<1>2. CASE c.type # "checkpoint"
  <2> DEFINE event == [id |-> c.id, type |-> c.type]
             s == ApplyRequest(journal[c.id], event)
  <2>1. event \in AgentEvents /\ event.id = c.id /\ event.type \in Types
    BY <1>2 DEF CallsInv, GoodCall, AgentEvents
  <2>2. Requested[event.type] \in RequestPhases BY <2>1, JournalPhases
  <2>3. journal' = [journal EXCEPT ![c.id] = s]
    BY <1>2 DEF HandlePostEvent
  <2> HIDE DEF event
  <2>4. s \in JournalEntry /\ s.pending = event
        /\ s.phase = Requested[event.type]
    BY <1>0, <2>1, <2>2 DEF ApplyRequest, JournalEntry, Phases
  <2>5. s.phase \notin Terminal \cup {"new"}
    BY <2>2, <2>4 DEF RequestPhases, Terminal
  <2> HIDE DEF s
  <2> QED BY <1>0, <2>1, <2>3, <2>4, <2>5, EntryIsGood
<1> QED BY <1>1, <1>2

LEMMA JournaledEntry ==
    ASSUME JournalInv, NEW id \in Ids, Journaled(id)
    PROVE  /\ JournalInv' /\ journal'[id].pending = None
           /\ \A i \in Ids \ {id} : journal'[i] = journal[i]
<1>1. PICK type \in Logged :
         journal' = [journal EXCEPT ![id] = ApplyReply(journal[id], type)]
  BY DEF Journaled, JournalInv
<1> DEFINE s == ApplyReply(journal[id], type)
<1>2. journal[id] \in JournalEntry BY DEF JournalInv, JournalEntry
<1>3. s \in JournalEntry /\ s.pending = None
  BY <1>2, JournalPhases DEF ApplyReply, JournalEntry, Phases
<1>4. journal' = [journal EXCEPT ![id] = s] BY <1>1
<1> HIDE DEF s
<1>5. JournalInv' BY <1>3, <1>4, EntryIsGood
<1>6. journal'[id] = s /\ \A i \in Ids \ {id} : journal'[i] = journal[i]
  BY <1>4 DEF JournalInv
<1> QED BY <1>3, <1>5, <1>6

LEMMA JournalStep ==
    ASSUME QueueInv, HelperInv, JournalInv, CallsInv, JobInv, [Next]_vars
    PROVE  JournalInv'
<1>1. UNCHANGED journal => JournalInv' BY DEF JournalInv, Waiting
<1>2. CASE Aside BY <1>1, <1>2, AsideLeavesQueue
<1>3. CASE Turning BY <1>1, <1>3, TurningSteps
<1>4. CASE Posting BY <1>1, <1>4, PostingIs, PostedEntry
<1>5. CASE Answering BY <1>1, <1>5, AnsweringIs, JournaledEntry
<1>6. CASE ExitTimerFires \/ Crash \/ Restart \/ UNCHANGED vars
  BY <1>1, <1>6 DEF ExitTimerFires, Crash, Restart, vars, helper
<1> QED BY <1>2, <1>3, <1>4, <1>5, <1>6, StepKinds

-----------------------------------------------------------------------------
(* What the journal owes is queued                                         *)

\* The entries of an id that a session waits for are events with an id.
LEMMA PendingHasId ==
    ASSUME JournalInv, NEW i \in Ids, journal[i].pending # None
    PROVE  journal[i].pending.id = i /\ i # NoId
BY QueueAssumption DEF JournalInv, Waiting

LEMMA PendingKept ==
    ASSUME JournalInv, PendingIsQueued, up, KeptNext(pendingEvents),
           NEW i \in Ids, journal[i].pending # None
    PROVE  \E f \in pendingEvents' : f.event = journal[i].pending
BY PendingHasId DEF PendingIsQueued, KeptNext

LEMMA PendingStep ==
    ASSUME QueueInv, HelperInv, JournalInv, CallsInv, JobInv, PendingIsQueued,
           [Next]_vars
    PROVE  PendingIsQueued'
<1>1. UNCHANGED <<queueVars, journal, up>> => PendingIsQueued'
  BY DEF PendingIsQueued, queueVars
<1>2. ASSUME UNCHANGED <<journal, up>>, KeptNext(pendingEvents)
      PROVE  PendingIsQueued'
  BY <1>2, PendingKept DEF PendingIsQueued
<1>3. CASE Aside BY <1>1, <1>3, AsideLeavesQueue
<1>4. CASE Turning BY <1>2, <1>4, TurningSteps
<1>5. ASSUME NEW c \in calls, up, HandlePostEvent(c), c.type = "checkpoint"
      PROVE  PendingIsQueued'
  <2>1. /\ \A i \in Ids : journal'[i].pending = journal[i].pending
        /\ pendingEvents' = pendingEvents
    <3>1. journal' = [journal EXCEPT ![c.id] =
                         ApplyCheckpoint(journal[c.id], c.phase, c.revision)]
          /\ pendingEvents' = pendingEvents
      BY <1>5 DEF HandlePostEvent, queueVars, JournalInv
    <3>2. \A i \in Ids : journal[i] \in JournalEntry
      BY DEF JournalInv, JournalEntry
    <3>3. \A s \in JournalEntry :
             ApplyCheckpoint(s, c.phase, c.revision).pending = s.pending
      BY DEF ApplyCheckpoint, JournalEntry
    <3> QED BY <3>1, <3>2, <3>3 DEF JournalInv
  <2> QED BY <1>5, <2>1 DEF PendingIsQueued
<1>6. ASSUME NEW c \in calls, up, HandlePostEvent(c), c.type # "checkpoint"
      PROVE  PendingIsQueued'
  <2> DEFINE event == [id |-> c.id, type |-> c.type]
  <2>1. event \in AgentEvents /\ event.id = c.id
    BY <1>6 DEF CallsInv, GoodCall
  <2>2. c.id \in Ids /\ c.id # NoId /\ event \in Events
    BY <2>1, QueueAssumption DEF AgentEvents, Events
  <2>3. journal' = [journal EXCEPT ![c.id] = ApplyRequest(journal[c.id], event)]
        /\ EnqueueEvent(event)
    BY <1>6, <2>2 DEF HandlePostEvent, JournalInv
  <2>4. journal[c.id] \in JournalEntry BY <2>2 DEF JournalInv, JournalEntry
  <2> HIDE DEF event
  <2>5. /\ journal'[c.id].pending = event
        /\ \A i \in Ids \ {c.id} : journal'[i] = journal[i]
    BY <2>2, <2>3, <2>4 DEF ApplyRequest, JournalInv, JournalEntry
  <2>6. KeptNext(pendingEvents) /\ \E f \in pendingEvents' : f.event = event
    BY <2>1, <2>2, <2>3, EnqueueKeeps
  <2>7. ASSUME NEW i \in Ids, journal'[i].pending # None
        PROVE  \E f \in pendingEvents' : f.event = journal'[i].pending
    BY <1>6, <2>5, <2>6, <2>7, PendingKept
  <2> QED BY <2>7 DEF PendingIsQueued
<1>7. CASE Posting BY <1>1, <1>5, <1>6, <1>7, PostingIs
<1>8. ASSUME NEW id \in Ids, Journaled(id), UNCHANGED <<queueVars, up>>
      PROVE  PendingIsQueued'
  BY <1>8, JournaledEntry DEF PendingIsQueued, queueVars
<1>9. ASSUME NEW id \in Ids, Journaled(id), up, AcknowledgePendingEvent(id)
      PROVE  PendingIsQueued'
  <2> SUFFICES ASSUME NEW i \in Ids, journal'[i].pending # None
               PROVE  \E f \in pendingEvents' : f.event = journal'[i].pending
    BY DEF PendingIsQueued
  <2>1. i # id /\ journal'[i] = journal[i] BY <1>9, JournaledEntry
  <2>2. journal[i].pending.id = i /\ i # NoId BY <2>1, PendingHasId
  <2>3. PICK e \in pendingEvents : e.event = journal[i].pending
    BY <1>9, <2>1 DEF PendingIsQueued
  <2>4. e \in {g \in pendingEvents : g.event.id # id}
    BY <2>1, <2>2, <2>3
  <2>5. KeptNext({g \in pendingEvents : g.event.id # id})
    BY <1>9, AcknowledgeKeeps
  <2> QED BY <2>1, <2>2, <2>3, <2>4, <2>5 DEF KeptNext
<1>10. CASE Answering
  BY <1>1, <1>2, <1>8, <1>9, <1>10, AnsweringIs, AcknowledgeKeeps
<1>11. CASE ExitTimerFires
  <2>1. Exit \in Events BY DEF Events
  <2> QED BY <1>2, <1>11, <2>1, EnqueueKeeps DEF ExitTimerFires
<1>12. CASE Crash BY <1>12 DEF Crash, PendingIsQueued
<1>13. CASE Restart
  <2>1. /\ \A i \in Waiting : journal[i].pending \in Owed
        /\ {e.event : e \in pendingEvents'} = Owed /\ UNCHANGED journal
    BY <1>13, RestartIs
  <2> QED BY <2>1 DEF PendingIsQueued, Waiting
<1>14. CASE UNCHANGED vars BY <1>1, <1>14 DEF vars, helper
<1> QED BY <1>3, <1>4, <1>7, <1>10, <1>11, <1>12, <1>13, <1>14, StepKinds

\* The helper's tokens and its queue while it is down.
LEMMA FaultsRise ==
    ASSUME HelperInv, [Next]_vars
    PROVE  faults' \in 0..MaxFaults /\ faults =< faults'
                                    /\ (Crash => faults' = faults + 1)
<1> USE SessionAssumption DEF HelperInv
<1>1. ASSUME NEW kind, Happens(kind)
      PROVE  faults' \in 0..MaxFaults /\ faults' = faults + 1
  BY <1>1 DEF Happens
<1> DEFINE Fine == UNCHANGED faults \/ \E kind : Happens(kind)
<1>2. User \/ TabStep => Fine
  <2>1. User => UNCHANGED faults
    BY DEF User, Go, SelectVariant, HandleAccept, HandleDiscard, SubmitSteer,
       Decides, bounds
  <2>2. TabStep => UNCHANGED faults
    BY DEF TabStep, EmitGenerate, Refresh, VariantsArrive, CheckpointTimer,
       AcceptCleanup, SteerTimeout, AcceptFailed, DiscardAnswered,
       SteerFailed, OnConnected, OnDone, OnComplete, OnDiscarded,
       OnSteerOrAgentDone, OnError, bounds
  <2> QED BY <2>1, <2>2
<1>3. Network => Fine
  BY DEF Network, RequestArrives, RequestFails, ResponseLost, Connect,
     Disconnect, ServerLost, Reload, bounds
<1>4. Helper => Fine
  BY DEF Helper, ExitTimerFires, TimerFires, Crash, Restart, LeaseRunsOut,
     bounds
<1>5. ASSUME NEW p \in Pollers, Agent(p) PROVE Fine
  <2>1. CASE AgentDies(p) BY <2>1 DEF AgentDies
  <2>2. CASE RunAccept(p)
    <3>1. UNCHANGED bounds \/ Happens("crash") BY <2>2 DEF RunAccept
    <3> QED BY <3>1 DEF bounds
  <2>3. CASE Work(p) /\ ~RunAccept(p)
    BY <2>3 DEF Work, Poll, Wrap, WriteVariants, FinishGenerate, FinishSteer,
       RunDiscard, Reply, Carbonize, Complete, Resume, bounds
  <2> QED BY <1>5, <2>1, <2>2, <2>3 DEF Agent
<1>6. UNCHANGED vars => Fine BY DEF vars, bounds
<1>7. Fine BY <1>2, <1>3, <1>4, <1>5, <1>6 DEF Next
<1>8. Crash => faults' = faults + 1 BY <1>1 DEF Crash
<1> QED BY <1>1, <1>7, <1>8

\* While the helper is down, its queue is empty.
LEMMA DownIsEmpty ==
    ASSUME HelperInv, JobInv, ~up, [Next]_vars
    PROVE  Restart \/ UNCHANGED <<up, token, pendingEvents, pendingPolls>>
<1>1. CASE Aside BY <1>1, AsideLeavesQueue DEF queueVars
<1>2. CASE Turning
  <2>1. ASSUME NEW p \in Pollers,
               FinishGenerate(p) \/ FinishSteer(p) \/ RunAccept(p)
                  \/ RunDiscard(p)
        PROVE  UNCHANGED <<up, token, pendingEvents, pendingPolls>>
    BY <2>1 DEF FinishGenerate, FinishSteer, RunAccept, RunDiscard, Finish,
       helper
  <2>2. ASSUME NEW p \in Pollers, AgentDies(p)
        PROVE  UNCHANGED <<up, token, pendingEvents, pendingPolls>>
    <3>1. ~Parked(p)
      <4>1. Len(pendingPolls) = 0 BY DEF HelperInv
      <4> QED BY <4>1 DEF Parked
    <3> QED BY <2>2, <3>1 DEF AgentDies, helper
  <2> QED BY <1>2, <2>1, <2>2
          DEF Turning, Connect, TimerFires, LeaseRunsOut, Poll
<1>3. CASE Posting BY <1>3, PostingIs
<1>4. CASE Answering BY <1>4, AnsweringIs DEF queueVars
<1>5. CASE UNCHANGED vars BY <1>5 DEF vars, queueVars, helper
<1> QED BY <1>1, <1>2, <1>3, <1>4, <1>5, StepKinds DEF ExitTimerFires, Crash

\* A token that grows no faster than the faults.
LEMMA StaysBelow ==
    ASSUME NEW x \in Nat, NEW f \in Nat, NEW g \in Nat, f =< g
    PROVE  /\ x =< f => x =< g /\ x + 1 =< g + 1
           /\ x =< f + 1 => x =< g + 1
OBVIOUS

LEMMA HelperStep ==
    ASSUME QueueInv, HelperInv, JobInv, [Next]_vars
    PROVE  HelperInv'
<1>1. faults' \in 0..MaxFaults /\ faults =< faults'
      /\ (Crash => faults' = faults + 1)
  BY FaultsRise
<1>2. /\ up' \in BOOLEAN /\ token' \in Nat \ {0} /\ token' =< faults' + 1
      /\ ~up' => token' =< faults' /\ pendingEvents' = {} /\ pendingPolls' = <<>>
  <2>0. /\ faults \in Nat /\ faults' \in Nat /\ faults =< faults'
        /\ token \in Nat \ {0} /\ token =< faults + 1
    BY <1>1, SessionAssumption DEF HelperInv
  <2>1. CASE Crash
    <3>1. up /\ ~up' /\ token' = token /\ pendingEvents' = {}
          /\ pendingPolls' = <<>> /\ up' \in BOOLEAN
      BY <2>1 DEF Crash, QueueLost
    <3>2. faults' = faults + 1 /\ token' = token BY <1>1, <2>1, <3>1
    <3>3. token' \in Nat \ {0} /\ token' =< faults' + 1 /\ token' =< faults'
      BY ONLY <2>0, <3>2
    <3> QED BY <3>1, <3>3
  <2>2. CASE Restart
    <3>1. ~up /\ up' /\ up' \in BOOLEAN /\ token' = token + 1
      BY <2>2 DEF Restart
    <3>2. token =< faults BY <3>1 DEF HelperInv
    <3>4. token' = token + 1 BY <3>1
    <3>5. token + 1 =< faults' + 1 BY ONLY <2>0, <3>2, StaysBelow
    <3>6. token + 1 \in Nat \ {0} BY ONLY <2>0
    <3>3. token' \in Nat \ {0} /\ token' =< faults' + 1
      BY ONLY <3>4, <3>5, <3>6
    <3> QED BY <3>1, <3>3
  <2>3. CASE UNCHANGED <<up, token>>
    <3>0. token' = token BY <2>3
    <3>1. token' \in Nat \ {0} /\ token' =< faults' + 1
          /\ (token =< faults => token' =< faults')
      BY ONLY <2>0, <3>0, StaysBelow
    <3>2. up \in BOOLEAN BY DEF HelperInv
    <3>3. ~up => /\ token =< faults /\ pendingEvents = {}
                 /\ pendingPolls = <<>>
      BY DEF HelperInv
    <3>4. CASE ~up
      <4>1. ~Restart
        <5>1. up' = up BY <2>3
        <5> QED BY <3>4, <5>1 DEF Restart
      <4>2. UNCHANGED <<pendingEvents, pendingPolls>>
        BY <3>4, <4>1, DownIsEmpty
      <4>3. token' =< faults' /\ pendingEvents' = {} /\ pendingPolls' = <<>>
        BY <3>1, <3>3, <3>4, <4>2
      <4>4. up' \in BOOLEAN BY <2>3, <3>2
      <4> QED BY <3>1, <4>3, <4>4
    <3>5. CASE up
      <4>1. up' /\ up' \in BOOLEAN BY <2>3, <3>2, <3>5
      <4> QED BY <3>1, <4>1
    <3> QED BY <3>4, <3>5
  <2>4. CASE ~Crash /\ ~Restart
    <3>1. CASE Aside BY <2>3, <3>1, AsideLeavesQueue
    <3>2. CASE Turning BY <2>3, <3>2, TurningSteps
    <3>3. CASE Posting BY <2>3, <3>3, PostingIs
    <3>4. CASE Answering BY <2>3, <3>4, AnsweringIs
    <3>5. CASE ExitTimerFires \/ UNCHANGED vars
      <4>1. UNCHANGED <<up, token>>
        BY <3>5 DEF ExitTimerFires, vars, helper
      <4> QED BY <2>3, <4>1
    <3> QED BY <2>4, <3>1, <3>2, <3>3, <3>4, <3>5, StepKinds
  <2> QED BY <2>1, <2>2, <2>4
<1>3. exitTimer' \in BOOLEAN /\ stream' \in {"open", "retrying", "closed"}
  <2> USE DEF HelperInv
  <2>1. User \/ TabStep => UNCHANGED <<exitTimer, stream>>
    <3>1. User => UNCHANGED <<exitTimer, stream>>
      BY DEF User, Go, SelectVariant, HandleAccept, HandleDiscard,
         SubmitSteer, helper, link
    <3>2. TabStep => UNCHANGED <<exitTimer, stream>>
      BY DEF TabStep, EmitGenerate, Refresh, VariantsArrive, CheckpointTimer,
         AcceptCleanup, SteerTimeout, AcceptFailed, DiscardAnswered,
         SteerFailed, OnConnected, OnDone, OnComplete, OnDiscarded,
         OnSteerOrAgentDone, OnError, helper, link
    <3> QED BY <3>1, <3>2
  <2>2. Network => exitTimer' \in BOOLEAN
                   /\ stream' \in {"open", "retrying", "closed"}
    BY DEF Network, RequestArrives, RequestFails, ResponseLost, Connect,
       Disconnect, ServerLost, Reload, helper, link
  <2>3. Helper => exitTimer' \in BOOLEAN
                  /\ stream' \in {"open", "retrying", "closed"}
    BY DEF Helper, ExitTimerFires, TimerFires, Crash, Restart, LeaseRunsOut,
       helper, link
  <2>4. ASSUME NEW p \in Pollers, Agent(p)
        PROVE  UNCHANGED <<exitTimer, stream>>
    BY <2>4 DEF Agent, AgentDies, Work, Poll, Wrap, WriteVariants,
       FinishGenerate, FinishSteer, RunAccept, RunDiscard, Reply, Carbonize,
       Complete, Resume, HandlePollPost, helper, link
  <2>5. UNCHANGED vars => UNCHANGED <<exitTimer, stream>>
    BY DEF vars, helper, link
  <2> QED BY <2>1, <2>2, <2>3, <2>4, <2>5 DEF Next
<1> QED BY <1>1, <1>2, <1>3 DEF HelperInv

-----------------------------------------------------------------------------
(* The tab                                                                 *)

LEMMA NextRevisionIsBounded ==
    TabInv => NextRevision \in 0..MaxRevision
              /\ (revision < MaxRevision => revision + 1 \in 0..MaxRevision)
BY SessionAssumption DEF TabInv, NextRevision

LEMMA RequestIsGood ==
    ASSUME TabInv, NEW id \in Ids, NEW type \in Types,
           type = "steer" <=> id \in Steers
    PROVE  GoodCall(Request(type, id))
<1> DEFINE c == Request(type, id)
<1>1. 0 \in 0..MaxRevision BY SessionAssumption
<1>2. pageToken \in Nat BY DEF TabInv
<1>3. /\ c \in [type : Types \cup {"checkpoint"}, id : Ids,
                phase : CheckpointPhases \cup {""}, revision : 0..MaxRevision,
                token : Nat, mine : BOOLEAN, stage : {"sent", "ok", "failed"}]
      /\ c.id = id /\ c.type = type
  BY <1>1, <1>2 DEF Request, Call
<1>4. [id |-> id, type |-> type] \in AgentEvents BY DEF AgentEvents
<1>5. type # "checkpoint" BY SessionAssumption
<1> HIDE DEF c
<1> QED BY <1>3, <1>4, <1>5 DEF GoodCall, c

LEMMA CheckpointIsGood ==
    ASSUME TabInv, NEW id \in Ids, NEW phase \in CheckpointPhases
    PROVE  \A c \in Checkpoint(id, phase) : GoodCall(c)
<1> SUFFICES ASSUME revision < MaxRevision
             PROVE  GoodCall(Call("checkpoint", id, phase, revision + 1))
  BY DEF Checkpoint
<1>1. revision + 1 \in 0..MaxRevision /\ pageToken \in Nat
  BY NextRevisionIsBounded DEF TabInv
<1> QED BY <1>1 DEF GoodCall, Call

\* A promise that comes back, and a request whose page is gone.
LEMMA ReturnIsGood ==
    ASSUME NEW c, GoodCall(c), NEW ok
    PROVE  \A d \in Answered(c, ok) : GoodCall(d)
BY DEF Answered, GoodCall

LEMMA OrphanIsGood ==
    ASSUME NEW c, GoodCall(c)
    PROVE  GoodCall([c EXCEPT !.mine = FALSE])
BY DEF GoodCall

LEMMA PhaseOfBar == \A b \in Bars : Phase(b) \in CheckpointPhases
BY DEF Bars, Phase, CheckpointPhases

\* The calls after a step were there before, are new and good, are answers to
\* calls, or are calls of a page that is gone.
LEMMA CallsStep ==
    ASSUME TabInv, CallsInv, [Next]_vars
    PROVE  CallsInv'
<1> SUFFICES \A d \in calls' : GoodCall(d)'
  BY DEF CallsInv
<1>0. \A d : GoodCall(d)' <=> GoodCall(d) BY DEF GoodCall
<1> SUFFICES \A d \in calls' : GoodCall(d)
  BY <1>0
<1>1. \A s \in Sessions : s \in Ids /\ s \notin Steers
  BY SessionAssumption
<1>2. \A m \in Steers : m \in Ids BY SessionAssumption
<1>3. {"generate", "accept", "discard", "steer"} = Types
  BY SessionAssumption
<1>4. \A s \in Sessions : \A type \in {"generate", "accept", "discard"} :
         GoodCall(Request(type, s))
  BY <1>1, <1>3, RequestIsGood
<1>5. \A m \in Steers : GoodCall(Request("steer", m))
  BY <1>2, <1>3, RequestIsGood
<1>6. \A id \in Ids : \A phase \in CheckpointPhases :
         \A d \in Checkpoint(id, phase) : GoodCall(d)
  BY CheckpointIsGood
<1>7. \A m \in Steers : \A d \in SteerCheckpoint(m) : GoodCall(d)
  BY <1>2, <1>6 DEF SteerCheckpoint, CheckpointPhases
<1>8. \A s \in Sessions : \A d \in Checkpoint(s, "generating") : GoodCall(d)
  BY <1>1, <1>6 DEF CheckpointPhases
<1>9. CASE User
  <2>1. ASSUME NEW s \in Sessions, Go(s) PROVE \A d \in calls' : GoodCall(d)
    <3>1. calls' = calls \cup Checkpoint(s, "generating") BY <2>1 DEF Go
    <3> QED BY <1>8, <3>1 DEF CallsInv
  <2>2. CASE SelectVariant
    <3>1. calls' = calls BY <2>2 DEF SelectVariant
    <3> QED BY <3>1 DEF CallsInv
  <2>3. CASE HandleAccept
    <3>1. calls' = calls \cup {Request("accept", current)} /\ current # None
      BY <2>3 DEF HandleAccept
    <3> QED BY <1>4, <3>1 DEF CallsInv, TabInv
  <2>4. CASE HandleDiscard
    <3>1. calls' = calls \cup {Request("discard", current)} /\ current # None
      BY <2>4 DEF HandleDiscard
    <3> QED BY <1>4, <3>1 DEF CallsInv, TabInv
  <2>5. ASSUME NEW m \in Steers, SubmitSteer(m)
        PROVE  \A d \in calls' : GoodCall(d)
    <3>1. calls' = calls \cup SteerCheckpoint(m) \cup {Request("steer", m)}
      BY <2>5 DEF SubmitSteer
    <3> QED BY <1>5, <1>7, <3>1 DEF CallsInv
  <2> QED BY <1>9, <2>1, <2>2, <2>3, <2>4, <2>5 DEF User
<1>10. CheckpointTimer => \A d \in calls' : GoodCall(d)
  <2>1. Phase(bar) \in CheckpointPhases BY PhaseOfBar DEF TabInv
  <2>2. current # None => \A d \in Checkpoint(current, Phase(bar)) : GoodCall(d)
    BY <1>1, <1>6, <2>1 DEF TabInv
  <2> QED BY <2>2 DEF CheckpointTimer, CallsInv
<1>11. ASSUME TabStep, ~CheckpointTimer PROVE \A d \in calls' : GoodCall(d)
  <2>1. ASSUME NEW s \in Sessions, EmitGenerate(s)
        PROVE  \A d \in calls' : GoodCall(d)
    <3>1. calls' = calls \cup {Request("generate", s)}
      BY <2>1 DEF EmitGenerate
    <3> QED BY <1>4, <3>1 DEF CallsInv
  <2>2. CASE Refresh \/ VariantsArrive \/ AcceptCleanup \/ OnConnected \/ OnDone
             \/ OnComplete \/ OnDiscarded
    <3>1. calls' = calls
      BY <2>2 DEF Refresh, VariantsArrive, AcceptCleanup, OnConnected, OnDone,
         OnComplete, OnDiscarded
    <3> QED BY <3>1 DEF CallsInv
  <2>3. ASSUME NEW c \in calls, AcceptFailed(c) \/ DiscardAnswered(c)
        PROVE  \A d \in calls' : GoodCall(d)
    <3>1. calls' = calls \ {c} BY <2>3 DEF AcceptFailed, DiscardAnswered
    <3> QED BY <3>1 DEF CallsInv
  <2>4. ASSUME calls' \in SUBSET (calls \cup (IF steering = None THEN {}
                                              ELSE SteerCheckpoint(steering)))
        PROVE  \A d \in calls' : GoodCall(d)
    BY <1>7, <2>4 DEF CallsInv, TabInv
  <2>5. ASSUME NEW c \in calls, SteerFailed(c)
        PROVE  \A d \in calls' : GoodCall(d)
    <3>1. calls' = (calls \ {c}) \cup (IF steering = None THEN {}
                                        ELSE SteerCheckpoint(steering))
      BY <2>5 DEF SteerFailed
    <3> QED BY <2>4, <3>1
  <2>6. CASE SteerTimeout
    <3>1. steering # None /\ calls' = calls \cup SteerCheckpoint(steering)
      BY <2>6 DEF SteerTimeout
    <3> QED BY <2>4, <3>1
  <2>7. CASE OnSteerOrAgentDone \/ OnError
    <3>1. \/ calls' = calls
          \/ steering # None /\ calls' = calls \cup SteerCheckpoint(steering)
      BY <2>7 DEF OnSteerOrAgentDone, OnError, IsSteer
    <3> QED BY <2>4, <3>1
  <2> QED BY <1>11, <2>1, <2>2, <2>3, <2>5, <2>6, <2>7 DEF TabStep
<1>12. ASSUME NEW c \in calls, NEW ok, Return(c, ok)
       PROVE  \A d \in calls' : GoodCall(d)
  BY <1>12, ReturnIsGood DEF Return, CallsInv
<1>13. ASSUME NEW c \in calls,
              RequestArrives(c) \/ RequestFails(c) \/ ResponseLost(c)
       PROVE  \A d \in calls' : GoodCall(d)
  BY <1>12, <1>13 DEF RequestArrives, RequestFails, ResponseLost
<1>14. Reload => \A d \in calls' : GoodCall(d)
  BY OrphanIsGood DEF Reload, Orphaned, CallsInv
<1>15. Connect \/ Disconnect \/ ServerLost \/ Helper => UNCHANGED calls
  BY DEF Connect, Disconnect, ServerLost, Helper, ExitTimerFires, TimerFires,
     Crash, Restart, LeaseRunsOut
<1>16. ASSUME NEW p \in Pollers, Agent(p) PROVE UNCHANGED calls
  BY <1>16 DEF Agent, AgentDies, Work, Poll, Wrap, WriteVariants,
     FinishGenerate, FinishSteer, RunAccept, RunDiscard, Reply, Carbonize,
     Complete, Resume
<1>17. UNCHANGED calls => \A d \in calls' : GoodCall(d) BY DEF CallsInv
<1> QED BY <1>9, <1>10, <1>11, <1>13, <1>14, <1>15, <1>16, <1>17
        DEF Next, Network, vars

LEMMA SavedIsGood ==
    /\ \A s \in Sessions, b \in Bars, a \in BOOLEAN, r \in 0..MaxRevision :
          Saved(s, b, a, r) \in SavedSessions
    /\ \A t \in SavedSessions : /\ t.id \in Sessions /\ t.state \in Bars
                                /\ t.arrived \in BOOLEAN
                                /\ t.revision \in 0..MaxRevision
    /\ \A t \in SavedSessions, r \in 0..MaxRevision :
          [t EXCEPT !.revision = r] \in SavedSessions
    /\ \A t \in SavedSessions, b \in Bars : [t EXCEPT !.state = b] \in SavedSessions
BY DEF Saved, SavedSessions

\* What a step of the user may do to the tab.
LEMMA UserTab ==
    ASSUME TabInv, User
    PROVE  TabInv'
<1> USE NextRevisionIsBounded, SavedIsGood DEF TabInv
<1>0. {"PICKING", "GENERATING", "CYCLING", "SAVING", "CONFIRMED", "IDLE"} = Bars
  BY DEF Bars
<1>1. ASSUME NEW s \in Sessions, Go(s) PROVE TabInv'
  BY <1>0, <1>1 DEF Go
<1>2. CASE SelectVariant BY <1>0, <1>2 DEF SelectVariant
<1>3. CASE HandleAccept BY <1>0, <1>3 DEF HandleAccept
<1>4. CASE HandleDiscard BY <1>4 DEF HandleDiscard, tab
<1>5. ASSUME NEW m \in Steers, SubmitSteer(m) PROVE TabInv'
  BY <1>5 DEF SubmitSteer
<1> QED BY <1>1, <1>2, <1>3, <1>4, <1>5 DEF User

\* A message "complete" names a session.
LEMMA CompleteIsClean ==
    InboxInv /\ Receive("complete") => IsClean(Head(inbox).id)
BY DEF InboxInv, Receive

LEMMA MessagesTab ==
    ASSUME TabInv, InboxInv,
           OnConnected \/ OnDone \/ OnComplete \/ OnDiscarded
              \/ OnSteerOrAgentDone \/ OnError
    PROVE  TabInv'
<1> USE NextRevisionIsBounded, SavedIsGood DEF TabInv
<1>0. {"PICKING", "GENERATING", "CYCLING", "SAVING", "CONFIRMED", "IDLE"} = Bars
  BY DEF Bars
<1>1. CASE OnConnected
  <2>1. UNCHANGED <<accepting, finishing, capturing, steering, pageToken,
                    handled>>
    BY <1>1 DEF OnConnected, Restore
  <2>2. CASE Restore /\ saved # None
    BY <1>0, <2>1, <2>2 DEF Restore
  <2>3. CASE ~(Restore /\ saved # None)
    BY <1>0, <1>1, <2>1, <2>3 DEF OnConnected, Restorable
  <2> QED BY <2>2, <2>3
<1>2. CASE OnDone BY <1>0, <1>2 DEF OnDone
<1>3. CASE OnComplete
  <2>1. Head(inbox).id \in Sessions
    BY <1>3, CompleteIsClean DEF OnComplete, IsClean
  <2> QED BY <1>0, <1>3, <2>1 DEF OnComplete, MarkHandled, tab
<1>4. CASE OnDiscarded BY <1>0, <1>4 DEF OnDiscarded, MarkHandled, Forget
<1>5. CASE OnSteerOrAgentDone BY <1>5 DEF OnSteerOrAgentDone, UnlockSteer
<1>6. CASE OnError
  <2>1. UNCHANGED <<current, arrived, finishing, observer, capturing,
                    checkpointDue, pageToken, handled>>
    BY <1>6 DEF OnError
  <2>2. bar' \in Bars BY <1>0, <1>6 DEF OnError
  <2>3. accepting' \in {None, accepting} BY <1>6 DEF OnError
  <2>4. \/ UNCHANGED <<steering, revision, saved>> \/ UnlockSteer
    BY <1>6 DEF OnError
  <2>5. steering' \in {None, steering} /\ revision' \in 0..MaxRevision
    BY <2>4 DEF UnlockSteer
  <2>6. saved' \in SavedSessions \cup {None} BY <2>4 DEF UnlockSteer
  <2> QED BY <2>1, <2>2, <2>3, <2>5, <2>6
<1> QED BY <1>1, <1>2, <1>3, <1>4, <1>5, <1>6

LEMMA TimersTab ==
    ASSUME TabInv, InboxInv, TabStep
    PROVE  TabInv'
<1> USE NextRevisionIsBounded, SavedIsGood DEF TabInv
<1>0. {"PICKING", "GENERATING", "CYCLING", "SAVING", "CONFIRMED", "IDLE"} = Bars
  BY DEF Bars
<1>1. ASSUME NEW s \in Sessions, EmitGenerate(s) PROVE TabInv'
  BY <1>1 DEF EmitGenerate
<1>2. CASE Refresh BY <1>2 DEF Refresh, tab
<1>3. CASE VariantsArrive BY <1>0, <1>3 DEF VariantsArrive
<1>4. CASE CheckpointTimer BY <1>4 DEF CheckpointTimer
<1>5. CASE AcceptCleanup BY <1>0, <1>5 DEF AcceptCleanup, Forget
<1>6. CASE SteerTimeout BY <1>6 DEF SteerTimeout, UnlockSteer
<1>7. ASSUME NEW c \in calls, AcceptFailed(c) PROVE TabInv'
  BY <1>0, <1>7 DEF AcceptFailed
<1>8. ASSUME NEW c \in calls, DiscardAnswered(c) PROVE TabInv'
  BY <1>0, <1>8 DEF DiscardAnswered, MarkHandled, Forget
<1>9. ASSUME NEW c \in calls, SteerFailed(c) PROVE TabInv'
  BY <1>9 DEF SteerFailed, UnlockSteer
<1> QED BY <1>1, <1>2, <1>3, <1>4, <1>5, <1>6, <1>7, <1>8, <1>9, MessagesTab
        DEF TabStep

LEMMA ReloadTab ==
    ASSUME TabInv, HelperInv, Reload
    PROVE  TabInv'
<1> USE SavedIsGood DEF TabInv
<1>0. {"PICKING", "GENERATING", "CYCLING", "SAVING", "CONFIRMED", "IDLE"} = Bars
  BY DEF Bars
<1>1. 0 \in 0..MaxRevision BY SessionAssumption
<1>2. /\ accepting' = None /\ finishing' = None /\ steering' = None
      /\ capturing' = {} /\ pageToken' = token
  BY DEF Reload
<1>3. token \in Nat BY DEF HelperInv
<1> SUFFICES /\ bar' \in Bars /\ current' \in Sessions \cup {None}
             /\ arrived' \in BOOLEAN /\ observer' \in BOOLEAN
             /\ checkpointDue' \in BOOLEAN /\ revision' \in 0..MaxRevision
             /\ saved' \in SavedSessions \cup {None}
             /\ handled' \in Sessions \cup {None}
  BY <1>2, <1>3
<1>4. ASSUME NEW s \in Sessions, ResumeFromWrapper(s)
      PROVE  /\ bar' \in Bars /\ current' \in Sessions \cup {None}
             /\ arrived' \in BOOLEAN /\ observer' \in BOOLEAN
             /\ checkpointDue' \in BOOLEAN /\ revision' \in 0..MaxRevision
             /\ saved' \in SavedSessions \cup {None}
             /\ handled' \in Sessions \cup {None}
  <2>1. /\ bar' \in Bars /\ current' = s /\ arrived' \in BOOLEAN
        /\ observer' = TRUE /\ checkpointDue' = TRUE /\ handled' = handled
    BY <1>0, <1>4 DEF ResumeFromWrapper
  <2>2. revision' \in 0..MaxRevision
    BY <1>1, <1>4 DEF ResumeFromWrapper
  <2>3. saved' = Saved(s, bar', arrived', revision')
    BY <1>4 DEF ResumeFromWrapper
  <2> QED BY <2>1, <2>2, <2>3
<1>5. CASE ResumeFromStorage
  BY <1>0, <1>1, <1>5 DEF ResumeFromStorage, Restorable
<1>6. CASE NoResume BY <1>0, <1>1, <1>6 DEF NoResume
<1> QED BY <1>4, <1>5, <1>6 DEF Reload

\* Only the tab itself changes the tab.
LEMMA OthersLeaveTab ==
    ASSUME [Next]_vars, ~User, ~TabStep, ~Reload, ~ServerLost
    PROVE  UNCHANGED tab
<1>1. ASSUME NEW c \in calls,
              RequestArrives(c) \/ RequestFails(c) \/ ResponseLost(c)
      PROVE  UNCHANGED tab
  BY <1>1 DEF RequestArrives, RequestFails, ResponseLost
<1>2. Connect \/ Disconnect => UNCHANGED tab BY DEF Connect, Disconnect
<1>3. Helper => UNCHANGED tab
  BY DEF Helper, ExitTimerFires, TimerFires, Crash, Restart, LeaseRunsOut
<1>4. ASSUME NEW p \in Pollers, Agent(p) PROVE UNCHANGED tab
  BY <1>4 DEF Agent, AgentDies, Work, Poll, Wrap, WriteVariants,
     FinishGenerate, FinishSteer, RunAccept, RunDiscard, Reply, Carbonize,
     Complete, Resume
<1>5. UNCHANGED vars => UNCHANGED tab BY DEF vars
<1> QED BY <1>1, <1>2, <1>3, <1>4, <1>5 DEF Next, Network

LEMMA TabInvStep ==
    ASSUME TabInv, HelperInv, InboxInv, [Next]_vars
    PROVE  TabInv'
<1>1. CASE ServerLost
  <2>1. "IDLE" \in Bars BY DEF Bars
  <2> QED BY <1>1, <2>1, SavedIsGood DEF ServerLost, TabInv
<1>2. UNCHANGED tab => TabInv' BY DEF tab, TabInv
<1> QED BY <1>1, <1>2, UserTab, TimersTab, ReloadTab, OthersLeaveTab

-----------------------------------------------------------------------------
(* The source and what is said of it                                       *)

\* An agent works on an event of the tab; only a steer is not for a session.
LEMMA WorkIsForSession ==
    ASSUME QueueProper, NEW p \in Pollers, NEW type \in Types,
           Working(p, type)
    PROVE  /\ answer[p] \in AgentEvents /\ job[p].stage = "idle"
           /\ type # "steer" => answer[p].id \in Sessions
<1>1. answer[p] \in [id : Ids, type : {type}] /\ job[p].stage = "idle"
  BY DEF Working
<1>2. answer[p] # NoEvent
  BY <1>1, QueueAssumption DEF Events
<1>3. answer[p] # Exit
  BY <1>1, QueueAssumption DEF Exit
<1>4. answer[p] \in AgentEvents
  BY <1>2, <1>3 DEF QueueProper, Given
<1>5. type # "steer" => answer[p].id \in Sessions
  BY <1>1, <1>4, SessionAssumption DEF AgentEvents
<1> QED BY <1>1, <1>4, <1>5

\* One session's block may change, but never away from the accepted variant.
Rewrites(s, b) ==
    /\ source' = [source EXCEPT ![s] = b]
    /\ source[s] = "clean" => b = "clean"

LEMMA SourceChanges ==
    ASSUME QueueProper, JobInv, SourceInv, [Next]_vars
    PROVE  \/ UNCHANGED source
           \/ \E s \in Sessions, b \in Blocks : Rewrites(s, b)
<1> DEFINE Fine == \/ UNCHANGED source
                   \/ \E s \in Sessions, b \in Blocks : Rewrites(s, b)
<1>0. {"original", "wrapped", "variants", "carbonize", "clean"} = Blocks
  BY DEF Blocks
<1>1. User => UNCHANGED source
  BY DEF User, Go, SelectVariant, HandleAccept, HandleDiscard, SubmitSteer,
     project
<1>2. TabStep => UNCHANGED source
  BY DEF TabStep, EmitGenerate, Refresh, VariantsArrive, CheckpointTimer,
     AcceptCleanup, SteerTimeout, AcceptFailed, DiscardAnswered, SteerFailed,
     OnConnected, OnDone, OnComplete, OnDiscarded, OnSteerOrAgentDone, OnError,
     project
<1>3. Network => UNCHANGED source
  BY DEF Network, RequestArrives, RequestFails, ResponseLost, Connect,
     Disconnect, ServerLost, Reload, project
<1>4. Helper => UNCHANGED source
  BY DEF Helper, ExitTimerFires, TimerFires, Crash, Restart, LeaseRunsOut,
     project
<1>5. ASSUME NEW p \in Pollers, Agent(p) PROVE Fine
  <2>1. \A type \in {"generate", "accept", "discard"} :
           Working(p, type) => answer[p].id \in Sessions
    BY WorkIsForSession, SessionAssumption
  <2>2. CASE Wrap(p)
    <3>1. /\ Working(p, "generate") /\ source[answer[p].id] = "original"
          /\ source' = [source EXCEPT ![answer[p].id] = "wrapped"]
      BY <2>2 DEF Wrap, Event
    <3> QED BY <1>0, <2>1, <3>1 DEF Rewrites
  <2>3. CASE WriteVariants(p)
    <3>1. /\ Working(p, "generate") /\ source[answer[p].id] = "wrapped"
          /\ source' = [source EXCEPT ![answer[p].id] = "variants"]
      BY <2>3 DEF WriteVariants, Event
    <3> QED BY <1>0, <2>1, <3>1 DEF Rewrites
  <2>4. CASE FinishGenerate(p)
    <3>1. /\ Working(p, "generate")
          /\ \/ UNCHANGED source
             \/ /\ source[answer[p].id] \in {"original", "wrapped"}
                /\ source' = [source EXCEPT ![answer[p].id] = "original"]
      BY <2>4 DEF FinishGenerate, Event
    <3> QED BY <1>0, <2>1, <3>1 DEF Rewrites
  <2>5. CASE RunAccept(p)
    <3>1. /\ Working(p, "accept")
          /\ \/ UNCHANGED source
             \/ /\ HasMarkers(answer[p].id)
                /\ \E b \in {"clean", "carbonize"} :
                      source' = [source EXCEPT ![answer[p].id] = b]
      BY <2>5 DEF RunAccept, Event
    <3> QED BY <1>0, <2>1, <3>1 DEF Rewrites, HasMarkers
  <2>6. CASE RunDiscard(p)
    <3>1. /\ Working(p, "discard")
          /\ \/ UNCHANGED source
             \/ /\ HasMarkers(answer[p].id)
                /\ source' = [source EXCEPT ![answer[p].id] = "original"]
      BY <2>6 DEF RunDiscard, Event
    <3> QED BY <1>0, <2>1, <3>1 DEF Rewrites, HasMarkers
  <2>7. CASE Carbonize(p)
    <3>1. job[p].event.id \in Sessions
      BY <2>7 DEF Carbonize, JobInv
    <3>2. source' = [source EXCEPT ![job[p].event.id] = "clean"]
      BY <2>7 DEF Carbonize
    <3> QED BY <1>0, <3>1, <3>2 DEF Rewrites
  <2>8. Poll(p) \/ FinishSteer(p) \/ Reply(p) \/ Complete(p) \/ AgentDies(p)
           \/ (\E s \in Sessions : Resume(p, s))
        => UNCHANGED source
    BY DEF Poll, FinishSteer, Reply, Complete, AgentDies, Resume, project
  <2> QED BY <1>5, <2>2, <2>3, <2>4, <2>5, <2>6, <2>7, <2>8 DEF Agent, Work
<1>6. UNCHANGED vars => UNCHANGED source BY DEF vars, project
<1> QED BY <1>1, <1>2, <1>3, <1>4, <1>5, <1>6 DEF Next

CleanNext(i) == i \in Sessions /\ source'[i] = "clean"

LEMMA CleanStays ==
    ASSUME QueueProper, JobInv, SourceInv, [Next]_vars
    PROVE  /\ source' \in [Sessions -> Blocks]
           /\ \A i : IsClean(i) => CleanNext(i)
BY SourceChanges DEF SourceInv, Rewrites, IsClean, CleanNext

\* The tab schedules the cleanup of an accept it was told is complete.
LEMMA SourceInvStep ==
    ASSUME QueueProper, JobInv, InboxInv, SourceInv, TabInv, [Next]_vars
    PROVE  SourceInv'
<1>1. source' \in [Sessions -> Blocks] BY CleanStays
<1>2. dom' \in [Sessions -> Blocks]
  <2> DEFINE Shown == dom' = dom \/ dom' = source
  <2>1. User => Shown
    BY DEF User, Go, SelectVariant, HandleAccept, HandleDiscard, SubmitSteer,
       project
  <2>2. TabStep => Shown
    BY DEF TabStep, EmitGenerate, Refresh, VariantsArrive, CheckpointTimer,
       AcceptCleanup, SteerTimeout, AcceptFailed, DiscardAnswered,
       SteerFailed, OnConnected, OnDone, OnComplete, OnDiscarded,
       OnSteerOrAgentDone, OnError, project
  <2>3. Network => Shown
    BY DEF Network, RequestArrives, RequestFails, ResponseLost, Connect,
       Disconnect, ServerLost, Reload, project
  <2>4. Helper => Shown
    BY DEF Helper, ExitTimerFires, TimerFires, Crash, Restart, LeaseRunsOut,
       project
  <2>5. ASSUME NEW p \in Pollers, Agent(p) PROVE Shown
    BY <2>5 DEF Agent, AgentDies, Work, Poll, Wrap, WriteVariants,
       FinishGenerate, FinishSteer, RunAccept, RunDiscard, Reply, Carbonize,
       Complete, Resume, project
  <2>6. UNCHANGED vars => Shown BY DEF vars, project
  <2>7. Shown BY <2>1, <2>2, <2>3, <2>4, <2>5, <2>6 DEF Next
  <2> QED BY <2>7 DEF SourceInv
<1>3. finishing' # None => CleanNext(finishing')
  <2> DEFINE Told == \/ finishing' = finishing \/ finishing' = None
                     \/ finishing' # None /\ IsClean(finishing')
  <2>1. User => Told
    BY DEF User, Go, SelectVariant, HandleAccept, HandleDiscard, SubmitSteer,
       tab
  <2>2. ASSUME OnComplete PROVE Told
    <3>1. IsClean(Head(inbox).id)
      BY <2>2, CompleteIsClean DEF OnComplete
    <3>2. finishing' = finishing \/ finishing' = Head(inbox).id
      BY <2>2 DEF OnComplete, tab
    <3>3. Head(inbox).id # None BY <3>1, SessionAssumption DEF IsClean
    <3> QED BY <3>1, <3>2, <3>3 DEF IsClean
  <2>3. ASSUME TabStep, ~OnComplete PROVE Told
    <3>1. OnConnected => finishing' = finishing BY DEF OnConnected, Restore
    <3>2. OnDone \/ OnDiscarded \/ OnSteerOrAgentDone \/ OnError
          => finishing' = finishing
      BY DEF OnDone, OnDiscarded, OnSteerOrAgentDone, OnError
    <3>3. Refresh \/ VariantsArrive \/ CheckpointTimer \/ SteerTimeout
          => finishing' = finishing
      BY DEF Refresh, VariantsArrive, CheckpointTimer, SteerTimeout, tab
    <3>4. AcceptCleanup => finishing' = None BY DEF AcceptCleanup
    <3>5. (\E s \in Sessions : EmitGenerate(s)) => finishing' = finishing
      BY DEF EmitGenerate
    <3>6. (\E c \in calls : AcceptFailed(c) \/ DiscardAnswered(c)
                              \/ SteerFailed(c))
          => finishing' = finishing
      BY DEF AcceptFailed, DiscardAnswered, SteerFailed
    <3> QED BY <2>3, <3>1, <3>2, <3>3, <3>4, <3>5, <3>6 DEF TabStep
  <2>4. Reload \/ ServerLost => Told BY DEF Reload, ServerLost
  <2>5. ASSUME ~User, ~TabStep, ~Reload, ~ServerLost PROVE Told
    <3>1. UNCHANGED tab BY <2>5, OthersLeaveTab
    <3> QED BY <3>1 DEF tab
  <2>6. Told BY <2>1, <2>2, <2>3, <2>4, <2>5
  <2>7. finishing # None => IsClean(finishing)
    BY DEF SourceInv, TabInv, IsClean
  <2>8. finishing' # None => IsClean(finishing') BY <2>6, <2>7
  <2>9. \A i : IsClean(i) => CleanNext(i) BY CleanStays
  <2> QED BY <2>8, <2>9
<1> QED BY <1>1, <1>2, <1>3 DEF SourceInv, CleanNext

-----------------------------------------------------------------------------
(* What the agents do and the tab is told                                  *)

JobRecord == [stage : {"idle", "replying", "carbonize", "completing"},
              event : AgentEvents \cup {NoEvent},
              reply : Replies \cup {""}, token : Nat]

\* A job an agent may be left with: what it says of the source will be so.
JobNext(j) ==
    /\ j \in JobRecord
    /\ j.stage # "idle" => j.event \in AgentEvents
    /\ j.stage = "replying" =>
          /\ j.reply \in Replies
          /\ j.reply = "carbonize" => j.event.id \in Sessions
          /\ j.reply = "complete" => CleanNext(j.event.id)
    /\ j.stage = "carbonize" => j.event.id \in Sessions
    /\ j.stage = "completing" => CleanNext(j.event.id)

LEMMA JobsAreGood ==
    ASSUME QueueProper, JobInv, SourceInv, [Next]_vars
    PROVE  \A p \in Pollers : JobNext(job[p])
<1> SUFFICES ASSUME NEW p \in Pollers PROVE JobNext(job[p])
  OBVIOUS
<1>1. \A i : IsClean(i) => CleanNext(i) BY CleanStays
<1> QED BY <1>1 DEF JobInv, JobNext, JobRecord

LEMMA JobChange ==
    ASSUME JobInv, \A p \in Pollers : JobNext(job[p]),
           NEW p \in Pollers, NEW j, JobNext(j), job' = [job EXCEPT ![p] = j]
    PROVE  JobInv'
<1>1. \A q \in Pollers : JobNext(job'[q]) BY DEF JobInv
<1>2. job' \in [Pollers -> JobRecord] BY DEF JobInv, JobNext, JobRecord
<1> QED BY <1>1, <1>2 DEF JobInv, JobNext, JobRecord, CleanNext, IsClean

LEMMA IdleIsGood == JobNext(Idle)
BY DEF JobNext, JobRecord, Idle

\* An agent that is done with its event is left with the answer.
LEMMA FinishIsGood ==
    ASSUME QueueProper, JobInv, NEW p \in Pollers, NEW type \in Types,
           Working(p, type), NEW reply \in Replies,
           reply = "carbonize" => type # "steer",
           reply = "complete" => CleanNext(answer[p].id),
           Finish(p, reply), \A q \in Pollers : JobNext(job[q])
    PROVE  JobInv'
<1> DEFINE j == [job[p] EXCEPT !.stage = "replying", !.event = answer[p],
                               !.reply = reply]
<1>1. job[p] \in JobRecord BY DEF JobNext
<1>2. /\ answer[p] \in AgentEvents
      /\ type # "steer" => answer[p].id \in Sessions
  BY WorkIsForSession
<1>3. /\ j \in JobRecord /\ j.stage = "replying" /\ j.event = answer[p]
      /\ j.reply = reply
  BY <1>1, <1>2 DEF JobRecord
<1>4. job' = [job EXCEPT ![p] = j] BY DEF Finish, JobInv
<1> HIDE DEF j
<1>5. JobNext(j) BY <1>2, <1>3 DEF JobNext
<1> QED BY <1>4, <1>5, JobChange

LEMMA JobInvStep ==
    ASSUME QueueProper, HelperInv, JobInv, SourceInv, [Next]_vars
    PROVE  JobInv'
<1>0. \A p \in Pollers : JobNext(job[p]) BY JobsAreGood
<1>s. \A i : IsClean(i) => CleanNext(i) BY CleanStays
<1>u. ASSUME UNCHANGED job PROVE JobInv'
  BY <1>0, <1>u DEF JobInv, JobNext, JobRecord, CleanNext, IsClean
<1>t. {"generate", "accept", "discard", "steer"} = Types BY SessionAssumption
<1>r. {"done", "error", "steer_done", "complete", "carbonize", "agent_done",
       "discarded"} = Replies
  BY DEF Replies
<1>1. User \/ TabStep => UNCHANGED job
  <2>1. User => UNCHANGED job
    BY DEF User, Go, SelectVariant, HandleAccept, HandleDiscard, SubmitSteer
  <2>2. TabStep => UNCHANGED job
    BY DEF TabStep, EmitGenerate, Refresh, VariantsArrive, CheckpointTimer,
       AcceptCleanup, SteerTimeout, AcceptFailed, DiscardAnswered,
       SteerFailed, OnConnected, OnDone, OnComplete, OnDiscarded,
       OnSteerOrAgentDone, OnError
  <2> QED BY <2>1, <2>2
<1>2. Network \/ Helper => UNCHANGED job
  BY DEF Network, RequestArrives, RequestFails, ResponseLost, Connect,
     Disconnect, ServerLost, Reload, Helper, ExitTimerFires, TimerFires,
     Crash, Restart, LeaseRunsOut
<1>3. ASSUME NEW p \in Pollers, Agent(p) PROVE JobInv'
  <2>0. job[p] \in JobRecord BY <1>0 DEF JobNext
  <2>1. CASE Poll(p)
    <3> DEFINE j == [job[p] EXCEPT !.token = token]
    <3>1. job' = [job EXCEPT ![p] = j] BY <2>1 DEF Poll, JobInv
    <3>2. j \in JobRecord /\ j.stage = job[p].stage /\ job[p].stage = "idle"
      BY <2>0, <2>1 DEF JobRecord, HelperInv, Poll, Free
    <3> HIDE DEF j
    <3>3. JobNext(j) BY <3>2 DEF JobNext
    <3> QED BY <1>0, <3>1, <3>3, JobChange
  <2>2. CASE Wrap(p) \/ WriteVariants(p)
    BY <1>u, <2>2 DEF Wrap, WriteVariants
  <2>3. CASE FinishGenerate(p)
    <3>1. Working(p, "generate") /\ \E reply \in {"done", "error"} : Finish(p, reply)
      BY <2>3 DEF FinishGenerate
    <3> QED BY <1>0, <1>t, <1>r, <3>1, FinishIsGood
  <2>4. CASE FinishSteer(p)
    <3>1. Working(p, "steer")
          /\ \E reply \in {"steer_done", "error"} : Finish(p, reply)
      BY <2>4 DEF FinishSteer
    <3> QED BY <1>0, <1>t, <1>r, <3>1, FinishIsGood
  <2>5. CASE RunAccept(p)
    <3>1. /\ Working(p, "accept")
          /\ \E reply \in {"complete", "carbonize", "agent_done", "error"} :
                /\ Finish(p, reply)
                /\ reply = "complete" =>
                      source' = [source EXCEPT ![answer[p].id] = "clean"]
      BY <2>5 DEF RunAccept, Event
    <3>2. answer[p].id \in Sessions BY <1>t, <3>1, WorkIsForSession
    <3>3. source' = [source EXCEPT ![answer[p].id] = "clean"]
          => CleanNext(answer[p].id)
      BY <3>2 DEF CleanNext, SourceInv
    <3> QED BY <1>0, <1>t, <1>r, <3>1, <3>3, FinishIsGood
  <2>6. CASE RunDiscard(p)
    <3>1. Working(p, "discard")
          /\ \E reply \in {"discarded", "error"} : Finish(p, reply)
      BY <2>6 DEF RunDiscard
    <3> QED BY <1>0, <1>t, <1>r, <3>1, FinishIsGood
  <2>7. CASE Reply(p)
    <3>1. CASE job[p].reply = "carbonize"
      <4> DEFINE j == [job[p] EXCEPT !.stage = "carbonize"]
      <4>1. job' = [job EXCEPT ![p] = j] BY <2>7, <3>1 DEF Reply, JobInv
      <4>2. /\ j \in JobRecord /\ j.stage = "carbonize"
            /\ j.event = job[p].event
        BY <2>0 DEF JobRecord
      <4>3. job[p].event \in AgentEvents /\ job[p].event.id \in Sessions
        BY <2>7, <3>1 DEF Reply, JobInv
      <4> HIDE DEF j
      <4>4. JobNext(j) BY <4>2, <4>3 DEF JobNext
      <4> QED BY <1>0, <4>1, <4>4, JobChange
    <3>2. CASE job[p].reply # "carbonize"
      <4>1. job' = [job EXCEPT ![p] = Idle] BY <2>7, <3>2 DEF Reply
      <4> QED BY <1>0, <4>1, IdleIsGood, JobChange
    <3> QED BY <3>1, <3>2
  <2>8. CASE Carbonize(p)
    <3> DEFINE j == [job[p] EXCEPT !.stage = "completing"]
    <3>1. job' = [job EXCEPT ![p] = j] BY <2>8 DEF Carbonize, JobInv
    <3>2. job[p].event \in AgentEvents /\ job[p].event.id \in Sessions
      BY <2>8 DEF Carbonize, JobInv
    <3>3. CleanNext(job[p].event.id)
      BY <2>8, <3>2 DEF Carbonize, SourceInv, CleanNext
    <3>4. j \in JobRecord /\ j.stage = "completing" /\ j.event = job[p].event
      BY <2>0 DEF JobRecord
    <3> HIDE DEF j
    <3>5. JobNext(j) BY <3>2, <3>3, <3>4 DEF JobNext
    <3> QED BY <1>0, <3>1, <3>5, JobChange
  <2>9. CASE Complete(p) \/ AgentDies(p)
    <3>1. job' = [job EXCEPT ![p] = Idle] BY <2>9 DEF Complete, AgentDies
    <3> QED BY <1>0, <3>1, IdleIsGood, JobChange
  <2>10. ASSUME NEW s \in Sessions, Resume(p, s) PROVE JobInv'
    <3> DEFINE e == [id |-> s, type |-> "accept"]
               j == [stage |-> "carbonize", reply |-> "", token |-> token,
                     event |-> e]
    <3>1. job' = [job EXCEPT ![p] = j] BY <2>10 DEF Resume
    <3>2. e \in AgentEvents /\ e.id \in Sessions
      BY SessionAssumption DEF AgentEvents
    <3> HIDE DEF e
    <3>3. j \in JobRecord /\ j.stage = "carbonize" /\ j.event = e
      BY <3>2 DEF JobRecord, HelperInv
    <3> HIDE DEF j
    <3>4. JobNext(j) BY <3>2, <3>3 DEF JobNext
    <3> QED BY <1>0, <3>1, <3>4, JobChange
  <2> QED BY <1>3, <2>1, <2>2, <2>3, <2>4, <2>5, <2>6, <2>7, <2>8, <2>9, <2>10
          DEF Agent, Work
<1>4. UNCHANGED vars => UNCHANGED job BY DEF vars
<1> QED BY <1>u, <1>1, <1>2, <1>3, <1>4 DEF Next

\* The stream loses its messages, gives one to the tab, or gets a good one.
LEMMA InboxIsGood ==
    ASSUME InboxInv, \A i : IsClean(i) => CleanNext(i),
           \/ inbox' = inbox \/ inbox' = <<>>
           \/ inbox # <<>> /\ inbox' = Tail(inbox)
    PROVE  InboxInv'
<1> USE DEF InboxInv
<1>1. inbox' \in Seq(Messages)
  <2>1. \A q \in Seq(Messages) : q # <<>> => Tail(q) \in Seq(Messages)
    OBVIOUS
  <2>2. <<>> \in Seq(Messages) /\ inbox \in Seq(Messages) OBVIOUS
  <2> QED BY ONLY <2>1, <2>2, \/ inbox' = inbox \/ inbox' = <<>>
                              \/ inbox # <<>> /\ inbox' = Tail(inbox)
<1>2. \A k \in 1..Len(inbox') : \E l \in 1..Len(inbox) : inbox'[k] = inbox[l]
  <2>1. CASE inbox' = inbox BY <2>1
  <2>2. CASE inbox' = <<>> BY <2>2
  <2>3. CASE inbox # <<>> /\ inbox' = Tail(inbox)
    <3>1. \A k \in 1..Len(inbox') : k + 1 \in 1..Len(inbox)
                                    /\ inbox'[k] = inbox[k + 1]
      BY <2>3
    <3> QED BY <3>1
  <2> QED BY <2>1, <2>2, <2>3
<1>3. \A k \in 1..Len(inbox') :
         inbox'[k].type = "complete" => CleanNext(inbox'[k].id)
  BY <1>2
<1>4. Messages' = Messages BY DEF Messages
<1> QED BY <1>1, <1>3 DEF IsClean, CleanNext

LEMMA BroadcastIsGood ==
    ASSUME InboxInv, \A i : IsClean(i) => CleanNext(i),
           NEW type \in Replies, NEW id \in Ids,
           type = "complete" => CleanNext(id), Broadcast(Message(type, id))
    PROVE  InboxInv'
<1> DEFINE m == Message(type, id)
<1>1. m \in Messages /\ m.type = type /\ m.id = id
  BY DEF Message, Messages
<1>2. CASE inbox' = inbox BY <1>2, InboxIsGood
<1>3. CASE inbox' = Append(inbox, m)
  <2> HIDE DEF m
  <2>0. inbox \in Seq(Messages) BY DEF InboxInv
  <2>1. inbox' \in Seq(Messages) BY <1>1, <1>3, <2>0
  <2>2. \A k \in 1..Len(inbox') :
           inbox'[k] = m \/ \E l \in 1..Len(inbox) : inbox'[k] = inbox[l]
    BY <1>1, <1>3, <2>0
  <2>3. \A k \in 1..Len(inbox') :
           inbox'[k].type = "complete" => CleanNext(inbox'[k].id)
    BY <1>1, <2>2 DEF InboxInv
  <2> QED BY <2>1, <2>3 DEF InboxInv, IsClean, CleanNext
<1> QED BY <1>2, <1>3 DEF Broadcast

LEMMA InboxInvStep ==
    ASSUME QueueProper, JobInv, InboxInv, SourceInv, [Next]_vars
    PROVE  InboxInv'
<1>s. \A i : IsClean(i) => CleanNext(i) BY CleanStays
<1> DEFINE Dropped == \/ inbox' = inbox \/ inbox' = <<>>
                      \/ inbox # <<>> /\ inbox' = Tail(inbox)
<1>d. Dropped => InboxInv' BY <1>s, InboxIsGood
<1>1. ASSUME User PROVE Dropped
  BY <1>1 DEF User, Go, SelectVariant, HandleAccept, HandleDiscard, SubmitSteer,
     link
<1>2. ASSUME TabStep PROVE Dropped
  <2>1. \A type : Receive(type) => Dropped BY DEF Receive
  <2>2. OnConnected \/ OnDone \/ OnComplete \/ OnDiscarded
           \/ OnSteerOrAgentDone \/ OnError => Dropped
    BY <2>1 DEF OnConnected, OnDone, OnComplete, OnDiscarded,
       OnSteerOrAgentDone, OnError
  <2>3. Refresh \/ VariantsArrive \/ CheckpointTimer \/ AcceptCleanup
           \/ SteerTimeout => inbox' = inbox
    BY DEF Refresh, VariantsArrive, CheckpointTimer, AcceptCleanup,
       SteerTimeout, link
  <2>4. (\E s \in Sessions : EmitGenerate(s)) => inbox' = inbox
    BY DEF EmitGenerate, link
  <2>5. (\E c \in calls : AcceptFailed(c) \/ DiscardAnswered(c)
                          \/ SteerFailed(c))
        => inbox' = inbox
    BY DEF AcceptFailed, DiscardAnswered, SteerFailed, link
  <2> QED BY <1>2, <2>2, <2>3, <2>4, <2>5 DEF TabStep
<1>3. ASSUME Network, ~Connect PROVE Dropped
  BY <1>3 DEF Network, RequestArrives, RequestFails, ResponseLost, Disconnect,
     ServerLost, Reload, link
<1>4. CASE Connect
  <2> DEFINE m == [type |-> "connected", id |-> NoId, active |-> Active,
                   open |-> {i \in Active : journal[i].phase \notin Closed}]
  <2>1. inbox' = <<m>> BY <1>4 DEF Connect
  <2>2. m \in Messages /\ m.type # "complete" BY DEF Messages, Active
  <2> HIDE DEF m
  <2> QED BY <2>1, <2>2 DEF InboxInv
<1>5. ASSUME Helper PROVE Dropped
  BY <1>5 DEF Helper, ExitTimerFires, TimerFires, Crash, Restart, LeaseRunsOut,
     link
<1>6. ASSUME NEW p \in Pollers, Agent(p) PROVE InboxInv'
  <2>1. CASE Reply(p)
    <3>1. /\ job[p].event.id \in Ids
          /\ job[p].reply \in Replies
          /\ job[p].reply = "complete" => CleanNext(job[p].event.id)
      BY <1>s, <2>1 DEF Reply, JobInv, AgentEvents
    <3>2. /\ CompletionType(job[p].reply) \in Replies
          /\ CompletionType(job[p].reply) = "complete"
             => job[p].reply = "complete"
      BY <3>1 DEF CompletionType, Replies
    <3>3. \/ inbox' = inbox
          \/ Broadcast(Message(CompletionType(job[p].reply), job[p].event.id))
      BY <2>1 DEF Reply, HandlePollPost, link
    <3> QED BY <1>s, <1>d, <3>1, <3>2, <3>3, BroadcastIsGood
  <2>2. CASE Complete(p)
    <3>1. /\ job[p].event.id \in Ids /\ CleanNext(job[p].event.id)
      BY <1>s, <2>2 DEF Complete, JobInv, AgentEvents
    <3>2. \/ inbox' = inbox
          \/ Broadcast(Message("complete", job[p].event.id))
      BY <2>2 DEF Complete, HandlePollPost, link
    <3>3. "complete" \in Replies BY DEF Replies
    <3> QED BY <1>s, <1>d, <3>1, <3>2, <3>3, BroadcastIsGood
  <2>3. ASSUME ~Reply(p), ~Complete(p) PROVE Dropped
    BY <1>6, <2>3 DEF Agent, AgentDies, Work, Poll, Wrap, WriteVariants,
       FinishGenerate, FinishSteer, RunAccept, RunDiscard, Carbonize, Resume,
       link
  <2> QED BY <1>d, <2>1, <2>2, <2>3
<1>7. UNCHANGED vars => inbox' = inbox BY DEF vars, link
<1> QED BY <1>d, <1>1, <1>2, <1>3, <1>4, <1>5, <1>6, <1>7 DEF Next

-----------------------------------------------------------------------------
(* The theorems                                                            *)

LEMMA SessionInit == Init => QueueInit /\ SessionInv
<1> SUFFICES ASSUME Init PROVE QueueInit /\ SessionInv
  OBVIOUS
<1> USE SessionAssumption
<1>1. QueueInit BY DEF Init
<1>2. QueueProper /\ HelperInv /\ CallsInv /\ PendingIsQueued
  <2>1. QueueProper BY DEF Init, QueueInit, QueueProper, Given
  <2>2. HelperInv
    <3>1. up = TRUE /\ token = 1 /\ exitTimer = FALSE /\ stream = "retrying"
          /\ faults = 0
      BY DEF Init
    <3>2. 0 \in 0..MaxFaults OBVIOUS
    <3>3. token \in Nat \ {0} /\ token =< faults + 1 BY ONLY <3>1
    <3>4. up \in BOOLEAN /\ exitTimer \in BOOLEAN BY <3>1
    <3> QED BY <3>1, <3>2, <3>3, <3>4 DEF HelperInv
  <2>3. CallsInv /\ PendingIsQueued
    BY DEF Init, CallsInv, PendingIsQueued, Blank
  <2> QED BY <2>1, <2>2, <2>3
<1>3. JournalInv
  <2>1. \A i \in Ids : journal[i] = Blank BY DEF Init
  <2>2. Waiting = {} BY <2>1 DEF Waiting, Blank
  <2>3. Blank \in JournalEntry BY DEF Blank, JournalEntry, Phases
  <2>4. journal \in [Ids -> JournalEntry] BY <2>3 DEF Init
  <2> QED BY <2>2, <2>4, FS_EmptySet DEF JournalInv, JournalEntry
<1>4. JobInv
  <2>1. Idle \in JobRecord /\ Idle.stage = "idle" BY DEF Idle, JobRecord
  <2>2. job = [p \in Pollers |-> Idle] BY DEF Init
  <2> QED BY <2>1, <2>2 DEF JobInv, JobRecord
<1>5. InboxInv BY DEF Init, InboxInv
<1>6. SourceInv BY DEF Init, SourceInv, Blocks
<1>7. TabInv
  <2>1. 0 \in 0..MaxRevision /\ 1 \in Nat OBVIOUS
  <2>2. /\ bar = "PICKING" /\ current = None /\ arrived = FALSE
        /\ accepting = None /\ finishing = None /\ observer = FALSE
        /\ capturing = {} /\ steering = None /\ checkpointDue = FALSE
        /\ revision = 0 /\ pageToken = 1 /\ saved = None /\ handled = None
    BY DEF Init
  <2> QED BY <2>1, <2>2 DEF TabInv, Bars
<1> QED BY <1>1, <1>2, <1>3, <1>4, <1>5, <1>6, <1>7 DEF SessionInv

LEMMA SessionStep ==
    ASSUME QueueInv, SessionInv, [Next]_vars
    PROVE  QueueInv' /\ SessionInv'
<1> USE DEF SessionInv
<1>1. [QueueNext]_queueVars BY QueueStep
<1>2. QueueInv' BY <1>1, QueueStepIsSafe
<1>3. QueueProper' /\ HelperInv' /\ JournalInv' /\ CallsInv'
  BY QueueProperStep, HelperStep, JournalStep, CallsStep
<1>4. InboxInv' /\ JobInv' /\ SourceInv' /\ TabInv'
  BY InboxInvStep, JobInvStep, SourceInvStep, TabInvStep
<1>5. PendingIsQueued' BY PendingStep
<1> QED BY <1>2, <1>3, <1>4, <1>5

LEMMA SessionInvariant == Spec => [](QueueInv /\ SessionInv)
<1>1. Init => QueueInv /\ SessionInv BY SessionInit, QueueInitIsSafe
<1>2. QueueInv /\ SessionInv /\ [Next]_vars => (QueueInv /\ SessionInv)'
  BY SessionStep
<1> QED BY <1>1, <1>2, PTL DEF Spec

\* Type correctness of a session from the tab to the source: the queue's
\* entries, the journal's pending events, one token per process of the helper,
\* the blocks of source and document, and the state of the tab.
THEOREM SessionTypeCorrect == Spec => []TypeOK
<1>1. QueueInv => QueueTypeOK BY DEF QueueInv
<1>2. JournalInv => \A i \in Ids : journal[i].pending \in Events \cup {None}
  BY DEF JournalInv, AgentEvents, Events
<1>3. HelperInv => token \in 1..(MaxFaults + 1)
  BY SessionAssumption DEF HelperInv
<1>4. QueueInv /\ SessionInv => TypeOK
  BY <1>1, <1>2, <1>3 DEF SessionInv, TypeOK, HelperInv, SourceInv, TabInv
<1> QED BY <1>4, SessionInvariant, PTL

\* Whatever the tab, the agents and the journal do, and however often the
\* helper starts again, the helper's queue takes the steps of its own
\* specification only: no request of a stale page, reply of a stale agent or
\* restored journal calls an operation of the queue where it may not be called
\* (handleRequest and restorePendingEventsFromStore of live-server.mjs).
THEOREM SessionImplementsQueue == Spec => QueueSpec
<1>1. Init => QueueInit BY SessionInit
<1>2. QueueInv /\ SessionInv /\ [Next]_vars => [QueueNext]_queueVars
  BY QueueStep DEF SessionInv
<1> QED BY <1>1, <1>2, SessionInvariant, PTL DEF Spec, QueueSpec

\* So in a session, too, an event is queued once, in a total order, and no poll
\* stays parked beside an event it could have.
THEOREM SessionQueueIsSafe == Spec => []QueueInvariant
<1>1. QueueInv => QueueInvariant BY DEF QueueInv
<1> QED BY <1>1, SessionInvariant, PTL

\* What the durable journal says is still to be answered is in the queue of the
\* running helper, through lost responses, stale tokens, answers that race with
\* new requests, and restarts (the order of appendEvent, enqueueEvent and
\* acknowledgePendingEvent in live-server.mjs, and its startup).
THEOREM RequestsAreQueued == Spec => []PendingIsQueued
<1>1. SessionInv => PendingIsQueued BY DEF SessionInv
<1> QED BY <1>1, SessionInvariant, PTL

\* The tab says "confirmed" only for a session whose accepted variant is in the
\* source: a chain from live-accept.mjs through the agent's reply, the
\* broadcast and the order of the messages in the stream to the tab's timer.
THEOREM ConfirmedIsInSource == Spec => []ConfirmedIsWritten
<1>1. SessionInv => ConfirmedIsWritten
  BY DEF SessionInv, SourceInv, ConfirmedIsWritten
<1> QED BY <1>1, SessionInvariant, PTL
=============================================================================
