------------------------------ MODULE LiveQueue ------------------------------
(***************************************************************************)
(* The event queue of the live-mode helper (live-server.mjs): events of    *)
(* the browser wait for a polling agent, a delivered event is leased until *)
(* the agent acknowledges it, and an expired lease makes it deliverable    *)
(* again.                                                                  *)
(*                                                                         *)
(* The helper is one Node process, so a request handler or a timer         *)
(* callback is one action; LiveSession composes these actions with the     *)
(* journal, the browser tab and the agents.                                *)
(***************************************************************************)
EXTENDS Integers, Sequences, FiniteSets

CONSTANTS
    Ids,            \* ids of sessions and of steer messages
    NoId,           \* the id of an event without one
    Types,          \* types of the events that carry an id
    Pollers,        \* live-poll.mjs processes
    NoEvent         \* "the poll has no answer yet"

Exit == [id |-> NoId, type |-> "exit"]
Events == [id : Ids, type : Types] \cup {Exit}

ASSUME QueueAssumption ==
    /\ NoId \notin Ids
    /\ NoEvent \notin Events

VARIABLES
    pendingEvents,  \* state.pendingEvents: set of [event, lease, seq]
    pendingPolls,   \* state.pendingPolls: pollers parked in GET /poll
    leaseTimer,     \* "off", "armed", or "due": the lease it waits for ran out
    answer          \* what the last GET /poll of a poller returned

queueVars == <<pendingEvents, pendingPolls, leaseTimer, answer>>

Leases == {"none", "live", "expired"}
Entry == [event : Events, lease : Leases, seq : Nat \ {0}]

QueueInit ==
    /\ pendingEvents = {}
    /\ pendingPolls = <<>>
    /\ leaseTimer = "off"
    /\ answer = [p \in Pollers |-> NoEvent]

-----------------------------------------------------------------------------

\* Mutant: an event is delivered once, an expired lease is not looked at.
DeliveredOnce(q) == {e \in q : e.lease = "none"}

\* findAvailablePendingEvent: entries whose lease is absent or over.
Available(q) == {e \in q : e.lease # "live"}
Oldest(S) == CHOOSE e \in S : \A f \in S : e.seq =< f.seq

\* Mutant: the sequence starts below zero.
NewestFromZero(q) ==
    IF q = {} THEN -1 ELSE (CHOOSE e \in q : \A f \in q : f.seq =< e.seq).seq

\* state.nextEventSeq only orders the entries: one more than the newest does.
Newest(q) == IF q = {} THEN 0 ELSE (CHOOSE e \in q : \A f \in q : f.seq =< e.seq).seq

\* leaseEvent: an event with an id stays queued under a lease, an anonymous
\* one leaves the queue as soon as it is handed out.
Leased(q, taken) ==
    (q \ taken) \cup {[e EXCEPT !.lease = "live"] : e \in {f \in taken : f.event.id # NoId}}

\* Mutant: the timer is armed only while somebody waits.
TimerForWaiting(q) ==
    IF pendingPolls # <<>> /\ \E e \in q : e.lease = "live" THEN "armed" ELSE "off"

\* scheduleLeaseFlush: rearm for the earliest lease that is still running.
TimerFor(q) == IF \E e \in q : e.lease = "live" THEN "armed" ELSE "off"

\* flushPendingPolls on queue q: as long as there are both, the next parked
\* poll gets the next available event.
Rank(e, S) == Cardinality({f \in S : f.seq =< e.seq})

FlushPendingPolls(q) ==
    \E taken \in SUBSET Available(q) :
        /\ \A e \in taken, f \in Available(q) : f.seq < e.seq => f \in taken
        /\ \/ taken = Available(q) /\ Cardinality(taken) =< Len(pendingPolls)
           \/ Cardinality(taken) = Len(pendingPolls)
        /\ pendingEvents' = Leased(q, taken)
        /\ pendingPolls' = SubSeq(pendingPolls, Cardinality(taken) + 1, Len(pendingPolls))
        /\ answer' = [p \in Pollers |->
              IF \E e \in taken : pendingPolls[Rank(e, taken)] = p
              THEN (CHOOSE e \in taken : pendingPolls[Rank(e, taken)] = p).event
              ELSE answer[p]]
        /\ leaseTimer' = TimerFor(Leased(q, taken))

\* Mutant: any event of the same session counts as a duplicate.
DuplicateId(event) == event.id # NoId /\ \E e \in pendingEvents : e.event.id = event.id

\* enqueueEvent: an event with an id is queued once per id and type.
Duplicate(event) == event.id # NoId /\ \E e \in pendingEvents : e.event = event

EnqueueEvent(event) ==
    IF Duplicate(event)
    THEN UNCHANGED queueVars
    ELSE FlushPendingPolls(pendingEvents \cup
            {[event |-> event, lease |-> "none", seq |-> Newest(pendingEvents) + 1]})

\* acknowledgePendingEvent and the flush of its caller: the reply names an
\* id, so the first entry of that id goes, whatever its type.
WithId(id) == {e \in pendingEvents : e.event.id = id}

AcknowledgePendingEvent(id) ==
    FlushPendingPolls(IF WithId(id) = {} THEN pendingEvents
                      ELSE pendingEvents \ {Oldest(WithId(id))})

\* cancelQueuedAnonymousExitEvents: a browser is back, so the exit that its
\* absence queued is withdrawn; the timer is rearmed only if one was there.
CancelQueuedAnonymousExitEvents ==
    LET kept == {e \in pendingEvents : e.event # Exit} IN
    /\ pendingEvents' = kept
    /\ leaseTimer' = IF kept # pendingEvents THEN TimerFor(kept) ELSE leaseTimer
    /\ UNCHANGED <<pendingPolls, answer>>

\* handlePollGet: lease what is available, or park the request.
HandlePollGet(p) ==
    IF Available(pendingEvents) # {}
    THEN LET e == Oldest(Available(pendingEvents)) IN
         /\ pendingEvents' = Leased(pendingEvents, {e})
         /\ answer' = [answer EXCEPT ![p] = e.event]
         /\ leaseTimer' = IF e.event.id = NoId THEN leaseTimer
                          ELSE TimerFor(Leased(pendingEvents, {e}))
         /\ UNCHANGED pendingPolls
    ELSE /\ pendingPolls' = Append(pendingPolls, p)
         /\ answer' = [answer EXCEPT ![p] = NoEvent]
         /\ leaseTimer' = TimerFor(pendingEvents)
         /\ UNCHANGED pendingEvents

\* The timer of the parked poll k fires, or its client closes the connection;
\* a poller that timed out asks again.
DropPoll(k) ==
    /\ pendingPolls' = [i \in 1..(Len(pendingPolls) - 1) |->
                           pendingPolls[IF i < k THEN i ELSE i + 1]]
    /\ UNCHANGED <<pendingEvents, leaseTimer, answer>>

\* Time passes the end of a lease.  The timer waits for the lease that ends
\* first, so it is due as soon as one has ended; it fires a little later.
LeaseExpires(e) ==
    /\ e.lease = "live"
    /\ pendingEvents' = (pendingEvents \ {e}) \cup {[e EXCEPT !.lease = "expired"]}
    /\ leaseTimer' = IF leaseTimer = "off" THEN "off" ELSE "due"
    /\ UNCHANGED <<pendingPolls, answer>>

LeaseTimerFires ==
    /\ leaseTimer = "due"
    /\ FlushPendingPolls(pendingEvents)

\* Mutant: the parked connections outlive the process.
PollsKept == pendingEvents' = {} /\ leaseTimer' = "off" /\ UNCHANGED <<pendingPolls, answer>>

\* The process is gone: queue, timer and parked connections with it.
QueueLost ==
    /\ pendingEvents' = {}
    /\ pendingPolls' = <<>>
    /\ leaseTimer' = "off"
    /\ UNCHANGED answer

\* restorePendingEventsFromStore: what the journal still owes an agent, into
\* the empty queue of a new process.
RestorePendingEvents(restored) ==
    \E order \in [restored -> 1..Cardinality(restored)] :
        /\ \A e, f \in restored : order[e] = order[f] => e = f
        /\ pendingEvents' = {[event |-> e, lease |-> "none", seq |-> order[e]] : e \in restored}
        /\ UNCHANGED <<pendingPolls, leaseTimer, answer>>

-----------------------------------------------------------------------------

\* The queue alone, under any browser and any agents.
Parked(p) == \E k \in 1..Len(pendingPolls) : pendingPolls[k] = p

QueueNext ==
    \/ \E event \in Events : EnqueueEvent(event)
    \/ \E id \in Ids : AcknowledgePendingEvent(id)
    \/ CancelQueuedAnonymousExitEvents
    \/ \E p \in Pollers : ~Parked(p) /\ HandlePollGet(p)
    \/ \E k \in 1..Len(pendingPolls) : DropPoll(k)
    \/ \E e \in pendingEvents : LeaseExpires(e)
    \/ LeaseTimerFires
    \/ QueueLost
    \/ /\ pendingPolls = <<>>
       /\ LET restored == {e.event : e \in pendingEvents'} IN
          /\ restored \subseteq [id : Ids, type : Types] /\ IsFiniteSet(restored)
          /\ RestorePendingEvents(restored)
    \/ \E p \in Pollers : /\ ~Parked(p)
                          /\ answer' = [answer EXCEPT ![p] = NoEvent]
                          /\ UNCHANGED <<pendingEvents, pendingPolls, leaseTimer>>

QueueSpec == QueueInit /\ [][QueueNext]_queueVars

-----------------------------------------------------------------------------

\* Type correctness of the queue.
QueueTypeOK ==
    /\ pendingEvents \subseteq Entry
    /\ IsFiniteSet(pendingEvents)
    /\ pendingPolls \in Seq(Pollers)
    /\ leaseTimer \in {"off", "armed", "due"}
    /\ answer \in [Pollers -> Events \cup {NoEvent}]

\* enqueueEvent's test and the removals keep an event with an id in the queue
\* at most once, however often it is posted, redelivered or restored.
OneEntryPerEvent ==
    \A e, f \in pendingEvents : e.event = f.event /\ e.event.id # NoId => e = f

\* No poll is left parked beside an event it could have: whenever both exist,
\* the lease timer is set and its callback will bring them together.
NoStrandedPoll ==
    pendingPolls # <<>> /\ Available(pendingEvents) # {} => leaseTimer # "off"

\* A running lease has its timer, and a parked poll beside an available event
\* means that this event's lease has run out.
LeaseHasTimer == (\E e \in pendingEvents : e.lease = "live") => leaseTimer # "off"
ParkedOnlyBesideLeased ==
    pendingPolls # <<>> => \A e \in pendingEvents : e.lease # "none"

\* The order of the queue is total, so the agents see events as they came.
TotalOrder == \A e, f \in pendingEvents : e.seq = f.seq => e = f

\* A poller is parked at most once, and a parked poll has no answer.
ParkedOnce ==
    /\ \A i, j \in 1..Len(pendingPolls) : pendingPolls[i] = pendingPolls[j] => i = j
    /\ \A k \in 1..Len(pendingPolls) : answer[pendingPolls[k]] = NoEvent

\* Only an event with an id is ever leased.
AnonymousUnleased == \A e \in pendingEvents : e.event.id = NoId => e.lease = "none"

QueueInvariant ==
    /\ OneEntryPerEvent /\ NoStrandedPoll /\ LeaseHasTimer
    /\ ParkedOnlyBesideLeased /\ TotalOrder /\ ParkedOnce /\ AnonymousUnleased
=============================================================================
