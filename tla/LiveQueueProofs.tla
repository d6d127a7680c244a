--------------------------- MODULE LiveQueueProofs ---------------------------
(***************************************************************************)
(* Theorems about the event queue of the live-mode helper, for every set   *)
(* of ids, event types and pollers.                                        *)
(***************************************************************************)
EXTENDS LiveQueue, FiniteSetTheorems, SequenceTheorems,
        WellFoundedInduction, TLAPS

\* What every queue must satisfy that a handler builds, before the parked
\* polls are served from it.
GoodQueue(q) ==
    /\ q \subseteq Entry /\ IsFiniteSet(q)
    /\ \A e, f \in q : e.event = f.event /\ e.event.id # NoId => e = f
    /\ \A e, f \in q : e.seq = f.seq => e = f
    /\ \A e \in q : e.event.id = NoId => e.lease = "none"
    /\ \E b \in Nat : \A e \in q : e.seq =< b

\* The inductive invariant: that there is a newest entry needs a bound.
Bounded == \E b \in Nat : \A e \in pendingEvents : e.seq =< b
QueueInv == QueueTypeOK /\ QueueInvariant /\ Bounded

\* The state's queue is a good one.
LEMMA InvIsGood == QueueInv => GoodQueue(pendingEvents)
BY DEF QueueInv, QueueTypeOK, QueueInvariant, GoodQueue, OneEntryPerEvent, TotalOrder,
       AnonymousUnleased, Bounded

\* Handing out entries of a good queue leaves a good one; what is unleased in
\* it was not handed out.
LEMMA LeasedIsGood ==
    ASSUME NEW q, GoodQueue(q), NEW taken \in SUBSET q
    PROVE  /\ GoodQueue(Leased(q, taken))
           /\ \A g \in Leased(q, taken) : g.lease # "live" => g \in q \ taken
<1> DEFINE mark(e) == [e EXCEPT !.lease = "live"]
           kept == {f \in taken : f.event.id # NoId}
<1>0. Leased(q, taken) = (q \ taken) \cup {mark(e) : e \in kept}
  BY DEF Leased
<1>1. \A e \in q : /\ mark(e) \in Entry
                   /\ mark(e).event = e.event /\ mark(e).seq = e.seq /\ mark(e).lease = "live"
  BY DEF GoodQueue, Entry, Leases
<1>2. \A g \in Leased(q, taken) :
        \E e \in q : /\ g.event = e.event /\ g.seq = e.seq
                     /\ \/ e \in q \ taken /\ g = e
                        \/ e \in kept /\ g = mark(e)
  BY <1>0, <1>1
<1>3. Leased(q, taken) \subseteq Entry
  BY <1>0, <1>1 DEF GoodQueue
<1>4. IsFiniteSet(Leased(q, taken))
  <2>1. IsFiniteSet(kept) /\ IsFiniteSet(q \ taken)
    <3>1. IsFiniteSet(q)
      BY DEF GoodQueue
    <3>2. kept \subseteq q /\ q \ taken \subseteq q
      OBVIOUS
    <3> QED BY <3>1, <3>2, FS_Subset
  <2>2. IsFiniteSet({mark(e) : e \in kept})
    <3> DEFINE marked == {mark(e) : e \in kept}
               m == [e \in kept |-> mark(e)]
    <3>1. m \in Surjection(kept, marked)
      BY DEF Surjection
    <3> HIDE DEF m, marked, kept
    <3>2. IsFiniteSet(marked)
      BY <2>1, <3>1, FS_Surjection
    <3> QED BY <3>2 DEF marked
  <2> HIDE DEF mark, kept
  <2>3. IsFiniteSet((q \ taken) \cup {mark(e) : e \in kept})
    BY <2>1, <2>2, FS_Union
  <2> QED BY <1>0, <2>3
<1>5. \A e, f \in Leased(q, taken) : e.event = f.event /\ e.event.id # NoId => e = f
  BY <1>2 DEF GoodQueue
<1>6. \A e, f \in Leased(q, taken) : e.seq = f.seq => e = f
  BY <1>2 DEF GoodQueue
<1>7. \A e \in Leased(q, taken) : e.event.id = NoId => e.lease = "none"
  BY <1>2 DEF GoodQueue
<1>8. \A g \in Leased(q, taken) : g.lease # "live" => g \in q \ taken
  BY <1>1, <1>2
<1>9. \E b \in Nat : \A e \in Leased(q, taken) : e.seq =< b
  BY <1>2 DEF GoodQueue
<1> QED BY <1>3, <1>4, <1>5, <1>6, <1>7, <1>8, <1>9 DEF GoodQueue

\* A bounded set of naturals that is not empty has a greatest element.
LEMMA Greatest ==
    ASSUME NEW S \in SUBSET Nat, S # {}, NEW b \in Nat, \A n \in S : n =< b
    PROVE  \E m \in S : \A n \in S : n =< m
<1> DEFINE T == {k \in Nat : b - k \in S}
           R == OpToRel(<, Nat)
<1>1. T # {}
  <2>1. PICK n \in S : TRUE
    OBVIOUS
  <2>2. b - n \in T
    BY <2>1
  <2> QED BY <2>2
<1>2. PICK k \in T : \A y \in T : ~(<<y, k>> \in R)
  <2> HIDE DEF R
  <2> QED BY <1>1, WFMin, NatLessThanWellFounded DEF R
<1>3. \A y \in T : ~(y < k)
  BY <1>2 DEF OpToRel
<1>4. \A n \in S : n =< b - k
  BY <1>3
<1> QED BY <1>4

\* The newest entry of a good queue.
LEMMA NewestIsLast ==
    ASSUME NEW q, GoodQueue(q)
    PROVE  Newest(q) \in Nat /\ \A e \in q : e.seq =< Newest(q)
<1>1. CASE q = {}
  BY <1>1 DEF Newest
<1>2. CASE q # {}
  <2> DEFINE S == {e.seq : e \in q}
  <2>1. S \in SUBSET Nat /\ S # {}
    BY <1>2 DEF GoodQueue, Entry
  <2>2. PICK b \in Nat : \A e \in q : e.seq =< b
    BY DEF GoodQueue
  <2>3. \A n \in S : n =< b
    BY <2>2
  <2>4. \E m \in S : \A n \in S : n =< m
    <3> HIDE DEF S
    <3> QED BY <2>1, <2>2, <2>3, Greatest
  <2>5. \E e \in q : \A f \in q : f.seq =< e.seq
    BY <2>4
  <2> QED BY <1>2, <2>5 DEF Newest, GoodQueue, Entry
<1> QED BY <1>1, <1>2

\* A queue with one more entry, of an event it does not hold yet.
LEMMA EnqueuedIsGood ==
    ASSUME NEW q, GoodQueue(q), NEW event \in Events,
           event.id = NoId \/ \A e \in q : e.event # event
    PROVE  GoodQueue(q \cup {[event |-> event, lease |-> "none", seq |-> Newest(q) + 1]})
<1> DEFINE n == [event |-> event, lease |-> "none", seq |-> Newest(q) + 1]
<1>1. Newest(q) \in Nat /\ \A e \in q : e.seq =< Newest(q)
  BY NewestIsLast
<1>2. n \in Entry /\ n.event = event /\ n.lease = "none" /\ n.seq = Newest(q) + 1
  BY <1>1 DEF Entry, Leases
<1>3. \A e \in q : e.seq \in Nat
  BY DEF GoodQueue, Entry
<1> HIDE DEF n
<1>4. IsFiniteSet(q \cup {n})
  BY FS_AddElement DEF GoodQueue
<1>5. \A e, f \in q \cup {n} : e.seq = f.seq => e = f
  BY <1>1, <1>2, <1>3 DEF GoodQueue
<1>6. \A e \in q \cup {n} : e.seq =< Newest(q) + 1
  BY <1>1, <1>2, <1>3
<1>7. \A e, f \in q \cup {n} : e.event = f.event /\ e.event.id # NoId => e = f
  BY <1>2 DEF GoodQueue
<1>8. q \cup {n} \subseteq Entry /\ \A e \in q \cup {n} : e.event.id = NoId => e.lease = "none"
  BY <1>2 DEF GoodQueue
<1>9. Newest(q) + 1 \in Nat
  BY <1>1
<1>10. GoodQueue(q \cup {n})
  BY <1>4, <1>5, <1>6, <1>7, <1>8, <1>9 DEF GoodQueue
<1> QED BY <1>10 DEF n

\* A part of a good queue is good.
LEMMA PartIsGood ==
    ASSUME NEW q, GoodQueue(q), NEW r \in SUBSET q
    PROVE  GoodQueue(r)
BY FS_Subset DEF GoodQueue

\* The parked polls, without the queue.
PollsOK ==
    /\ pendingPolls \in Seq(Pollers)
    /\ answer \in [Pollers -> Events \cup {NoEvent}]
    /\ ParkedOnce

\* The invariant follows from its parts after any step.
LEMMA InvFromParts ==
    ASSUME GoodQueue(pendingEvents)', PollsOK', (leaseTimer \in {"off", "armed", "due"})',
           LeaseHasTimer', ParkedOnlyBesideLeased', NoStrandedPoll'
    PROVE  QueueInv'
BY DEF QueueInv, QueueTypeOK, QueueInvariant, GoodQueue, PollsOK, OneEntryPerEvent,
       TotalOrder, AnonymousUnleased, Bounded

\* flushPendingPolls, whatever good queue its caller has left.
LEMMA FlushIsSafe ==
    ASSUME QueueInv, NEW q, GoodQueue(q), FlushPendingPolls(q)
    PROVE  QueueInv'
<1>1. PICK taken \in SUBSET Available(q) :
        /\ \/ taken = Available(q) /\ Cardinality(taken) =< Len(pendingPolls)
           \/ Cardinality(taken) = Len(pendingPolls)
        /\ pendingEvents' = Leased(q, taken)
        /\ pendingPolls' = SubSeq(pendingPolls, Cardinality(taken) + 1, Len(pendingPolls))
        /\ answer' = [p \in Pollers |->
              IF \E e \in taken : pendingPolls[Rank(e, taken)] = p
              THEN (CHOOSE e \in taken : pendingPolls[Rank(e, taken)] = p).event
              ELSE answer[p]]
        /\ leaseTimer' = TimerFor(Leased(q, taken))
  BY DEF FlushPendingPolls
<1>2. taken \in SUBSET q
  BY DEF Available
<1>3. GoodQueue(pendingEvents)'
  BY <1>1, <1>2, LeasedIsGood DEF GoodQueue
<1>4. \A g \in pendingEvents' : g.lease # "live" => g \in q \ taken
  BY <1>1, <1>2, LeasedIsGood
<1>5. IsFiniteSet(taken) /\ Cardinality(taken) \in Nat
  BY <1>2, FS_Subset, FS_CardinalityType DEF GoodQueue
<1>6. pendingPolls \in Seq(Pollers) /\ Len(pendingPolls) \in Nat
  BY DEF QueueInv, QueueTypeOK
<1>7. pendingPolls' # <<>> => \A g \in pendingEvents' : g.lease = "live"
  <2> SUFFICES ASSUME pendingPolls' # <<>>
               PROVE  \A g \in pendingEvents' : g.lease = "live"
    OBVIOUS
  <2>1. Cardinality(taken) # Len(pendingPolls)
    BY <1>1, <1>5, <1>6, SubSeqEmpty
  <2>2. taken = Available(q)
    BY <1>1, <2>1
  <2> QED BY <1>4, <2>2 DEF Available
<1>8. leaseTimer' \in {"off", "armed", "due"} /\ LeaseHasTimer'
  BY <1>1 DEF TimerFor, LeaseHasTimer
<1>9. ParkedOnlyBesideLeased' /\ NoStrandedPoll'
  BY <1>7 DEF ParkedOnlyBesideLeased, NoStrandedPoll, Available
<1>10. /\ pendingPolls' \in Seq(Pollers)
       /\ \A k \in 1..Len(pendingPolls') :
             /\ k + Cardinality(taken) \in 1..Len(pendingPolls)
             /\ pendingPolls'[k] = pendingPolls[k + Cardinality(taken)]
  <2> DEFINE c == Cardinality(taken)
             n == Len(pendingPolls)
  <2>0. c \in Nat /\ n \in Nat /\ c =< n
    BY <1>1, <1>5, <1>6
  <2> HIDE DEF c
  <2>1. /\ SubSeq(pendingPolls, c + 1, n) \in Seq(Pollers)
        /\ Len(SubSeq(pendingPolls, c + 1, n)) = n - c
        /\ \A i \in 1..(n - c) : SubSeq(pendingPolls, c + 1, n)[i] = pendingPolls[c + i]
    BY <1>6, <2>0
  <2>2. pendingPolls' = SubSeq(pendingPolls, c + 1, n)
    BY <1>1 DEF c
  <2>3. \A k \in 1..(n - c) : k + c \in 1..n /\ c + k = k + c
    BY <2>0
  <2>4. /\ pendingPolls' \in Seq(Pollers)
        /\ \A k \in 1..Len(pendingPolls') :
              k + c \in 1..n /\ pendingPolls'[k] = pendingPolls[k + c]
    BY <2>1, <2>2, <2>3
  <2> QED BY <2>4 DEF c
<1>11. \A e \in taken : Rank(e, taken) \in 1..Cardinality(taken)
  <2> SUFFICES ASSUME NEW e \in taken
               PROVE  Rank(e, taken) \in 1..Cardinality(taken)
    OBVIOUS
  <2> DEFINE R == {f \in taken : f.seq =< e.seq}
  <2>1. R \in SUBSET taken /\ e \in R
    BY <1>2 DEF GoodQueue, Entry
  <2>2. /\ IsFiniteSet(R) /\ Cardinality(R) \in Nat
        /\ Cardinality(R) =< Cardinality(taken) /\ Cardinality(R) # 0
    <3> HIDE DEF R
    <3> QED BY <1>5, <2>1, FS_Subset, FS_CardinalityType, FS_EmptySet
  <2> QED BY <1>5, <2>2 DEF Rank
<1>12. PollsOK'
  <2>1. answer' \in [Pollers -> Events \cup {NoEvent}]
    <3>1. \A e \in taken : e.event \in Events
      BY <1>2 DEF GoodQueue, Entry
    <3>2. \A p \in Pollers : answer[p] \in Events \cup {NoEvent}
      BY DEF QueueInv, QueueTypeOK
    <3>3. \A p \in Pollers : (\E e \in taken : pendingPolls[Rank(e, taken)] = p) =>
             (CHOOSE e \in taken : pendingPolls[Rank(e, taken)] = p) \in taken
      OBVIOUS
    <3> QED BY <1>1, <3>1, <3>2, <3>3
  <2>2. \A i, j \in 1..Len(pendingPolls') : pendingPolls'[i] = pendingPolls'[j] => i = j
    <3>1. \A i, j \in 1..Len(pendingPolls) : pendingPolls[i] = pendingPolls[j] => i = j
      BY DEF QueueInv, QueueInvariant, ParkedOnce
    <3> SUFFICES ASSUME NEW i \in 1..Len(pendingPolls'), NEW j \in 1..Len(pendingPolls'),
                        pendingPolls'[i] = pendingPolls'[j]
                 PROVE  i = j
      OBVIOUS
    <3>2. /\ i + Cardinality(taken) \in 1..Len(pendingPolls)
          /\ j + Cardinality(taken) \in 1..Len(pendingPolls)
          /\ pendingPolls[i + Cardinality(taken)] = pendingPolls[j + Cardinality(taken)]
      BY <1>10
    <3>3. i + Cardinality(taken) = j + Cardinality(taken)
      BY <3>1, <3>2
    <3>4. i \in Nat /\ j \in Nat
      BY <1>10
    <3> QED BY ONLY <1>5, <3>3, <3>4
  <2>3. \A k \in 1..Len(pendingPolls') : answer'[pendingPolls'[k]] = NoEvent
    <3> SUFFICES ASSUME NEW k \in 1..Len(pendingPolls')
                 PROVE  answer'[pendingPolls'[k]] = NoEvent
      OBVIOUS
    <3> DEFINE c == k + Cardinality(taken)
    <3>1. c \in 1..Len(pendingPolls) /\ pendingPolls'[k] = pendingPolls[c]
      BY <1>10
    <3>2. pendingPolls[c] \in Pollers /\ answer[pendingPolls[c]] = NoEvent
      BY <1>6, <3>1 DEF QueueInv, QueueInvariant, ParkedOnce
    <3>3. \A e \in taken : pendingPolls[Rank(e, taken)] # pendingPolls[c]
      <4> SUFFICES ASSUME NEW e \in taken, pendingPolls[Rank(e, taken)] = pendingPolls[c]
                   PROVE  FALSE
        OBVIOUS
      <4>0. k \in Nat /\ k > 0 /\ Cardinality(taken) =< Len(pendingPolls)
        BY <1>1, <1>5, <1>6, <1>10
      <4>1. Rank(e, taken) \in 1..Cardinality(taken)
        BY <1>11
      <4>2. Rank(e, taken) \in 1..Len(pendingPolls) /\ Rank(e, taken) # c
        BY ONLY <1>5, <1>6, <4>0, <4>1
      <4> QED BY <3>1, <4>2 DEF QueueInv, QueueInvariant, ParkedOnce
    <3> QED BY <1>1, <3>1, <3>2, <3>3
  <2> QED BY <1>10, <2>1, <2>2, <2>3 DEF PollsOK, ParkedOnce
<1> QED BY <1>3, <1>8, <1>9, <1>12, InvFromParts

\* The queue starts empty.
LEMMA QueueInitIsSafe == QueueInit => QueueInv
<1> SUFFICES ASSUME QueueInit PROVE QueueInv
  OBVIOUS
<1>1. QueueTypeOK
  BY FS_EmptySet DEF QueueInit, QueueTypeOK
<1>2. QueueInvariant /\ Bounded
  BY DEF QueueInit, QueueInvariant, OneEntryPerEvent, NoStrandedPoll, LeaseHasTimer,
         ParkedOnlyBesideLeased, TotalOrder, ParkedOnce, AnonymousUnleased, Bounded
<1> QED BY <1>1, <1>2 DEF QueueInv

\* A post keeps the invariant, and so does a reply.
LEMMA EnqueueIsSafe ==
    ASSUME QueueInv, NEW event \in Events, EnqueueEvent(event)
    PROVE  QueueInv'
<1>1. CASE Duplicate(event)
  BY <1>1 DEF EnqueueEvent, queueVars, QueueInv, QueueTypeOK, QueueInvariant, OneEntryPerEvent,
              NoStrandedPoll, Available, LeaseHasTimer, ParkedOnlyBesideLeased, TotalOrder,
              ParkedOnce, AnonymousUnleased, Bounded
<1>2. CASE ~Duplicate(event)
  <2>1. GoodQueue(pendingEvents)
    BY InvIsGood
  <2>2. event.id = NoId \/ \A e \in pendingEvents : e.event # event
    BY <1>2 DEF Duplicate
  <2> QED BY <1>2, <2>1, <2>2, EnqueuedIsGood, FlushIsSafe DEF EnqueueEvent
<1> QED BY <1>1, <1>2

LEMMA AcknowledgeIsSafe ==
    ASSUME QueueInv, NEW id \in Ids, AcknowledgePendingEvent(id)
    PROVE  QueueInv'
<1> DEFINE q == IF WithId(id) = {} THEN pendingEvents
                ELSE pendingEvents \ {Oldest(WithId(id))}
<1>1. q \in SUBSET pendingEvents
  OBVIOUS
<1>2. GoodQueue(q)
  <2> HIDE DEF q
  <2> QED BY <1>1, InvIsGood, PartIsGood
<1> QED BY <1>2, FlushIsSafe DEF AcknowledgePendingEvent

\* The oldest entry of some is one of them.
LEMMA OldestIsOne ==
    ASSUME NEW A \in SUBSET Entry, A # {}
    PROVE  Oldest(A) \in A
<1> DEFINE S == {f.seq : f \in A}
           R == OpToRel(<, Nat)
<1>1. S \subseteq Nat /\ S # {}
  BY DEF Entry
<1>2. PICK k \in S : \A y \in S : ~(<<y, k>> \in R)
  <2> HIDE DEF R, S
  <2> QED BY <1>1, WFMin, NatLessThanWellFounded DEF R
<1>3. \A y \in S : k =< y
  <2> SUFFICES ASSUME NEW y \in S PROVE k =< y
    OBVIOUS
  <2>1. k \in Nat /\ y \in Nat
    BY <1>1
  <2>2. ~(<<y, k>> \in R)
    BY <1>2
  <2>3. ~(y < k)
    BY ONLY <2>1, <2>2 DEF OpToRel
  <2> QED BY ONLY <2>1, <2>3
<1>4. \E f \in A : \A g \in A : f.seq =< g.seq
  BY <1>3
<1> QED BY <1>4 DEF Oldest

\* GET /poll: the oldest available entry, or a place among the parked polls.
LEMMA PollIsSafe ==
    ASSUME QueueInv, NEW p \in Pollers, ~Parked(p), HandlePollGet(p)
    PROVE  QueueInv'
<1>0. GoodQueue(pendingEvents) /\ PollsOK
  BY InvIsGood DEF QueueInv, QueueTypeOK, QueueInvariant, PollsOK
<1>1. CASE Available(pendingEvents) # {}
  <2> DEFINE A == Available(pendingEvents)
             e == Oldest(A)
  <2>1. PICK x \in A : TRUE
    BY <1>1
  <2>2. e \in A /\ e \in pendingEvents
    <3>1. A \subseteq Entry BY <1>0 DEF GoodQueue, Available
    <3> QED BY <2>1, <3>1, OldestIsOne DEF Available
  <2>3. /\ pendingEvents' = Leased(pendingEvents, {e})
        /\ answer' = [answer EXCEPT ![p] = e.event]
        /\ leaseTimer' = IF e.event.id = NoId THEN leaseTimer
                         ELSE TimerFor(Leased(pendingEvents, {e}))
        /\ pendingPolls' = pendingPolls
    BY <1>1 DEF HandlePollGet
  <2> HIDE DEF e, A
  <2>4. {e} \in SUBSET pendingEvents
    BY <2>2
  <2>5. /\ GoodQueue(pendingEvents)'
        /\ \A g \in pendingEvents' : g.lease # "live" => g \in pendingEvents \ {e}
    <3>1. /\ GoodQueue(Leased(pendingEvents, {e}))
          /\ \A g \in Leased(pendingEvents, {e}) : g.lease # "live" => g \in pendingEvents \ {e}
      BY <1>0, <2>4, LeasedIsGood
    <3> QED BY <2>3, <3>1 DEF GoodQueue
  <2>6. PollsOK'
    BY <1>0, <2>2, <2>3 DEF PollsOK, ParkedOnce, Parked, GoodQueue, Entry
  <2>7. e.event.id = NoId => pendingEvents' = pendingEvents \ {e}
    BY <2>3 DEF Leased
  <2>8. leaseTimer' \in {"off", "armed", "due"} /\ LeaseHasTimer'
    BY <2>3, <2>7 DEF TimerFor, LeaseHasTimer, QueueInv, QueueInvariant, QueueTypeOK
  <2>9. ParkedOnlyBesideLeased'
    BY <2>3, <2>5 DEF ParkedOnlyBesideLeased, QueueInv, QueueInvariant
  <2>10. NoStrandedPoll'
    <3> SUFFICES ASSUME pendingPolls # <<>>, NEW g \in pendingEvents', g.lease # "live"
                 PROVE  leaseTimer' # "off"
      BY <2>3 DEF NoStrandedPoll, Available
    <3>1. e.event.id # NoId
      <4>1. e.lease # "none"
        BY <2>2 DEF QueueInv, QueueInvariant, ParkedOnlyBesideLeased
      <4> QED BY <1>0, <2>2, <4>1 DEF GoodQueue
    <3>2. [e EXCEPT !.lease = "live"] \in pendingEvents'
      BY <2>3, <3>1 DEF Leased
    <3>3. [e EXCEPT !.lease = "live"].lease = "live"
      BY <1>0, <2>2 DEF GoodQueue, Entry
    <3> QED BY <2>8, <3>2, <3>3 DEF LeaseHasTimer
  <2> QED BY <2>5, <2>6, <2>8, <2>9, <2>10, InvFromParts
<1>2. CASE Available(pendingEvents) = {}
  <2>1. /\ pendingPolls' = Append(pendingPolls, p)
        /\ answer' = [answer EXCEPT ![p] = NoEvent]
        /\ leaseTimer' = TimerFor(pendingEvents)
        /\ pendingEvents' = pendingEvents
    BY <1>2 DEF HandlePollGet
  <2>2. \A e \in pendingEvents : e.lease = "live"
    BY <1>2 DEF Available
  <2>3. PollsOK'
    <3> DEFINE n == Len(pendingPolls)
    <3>1. pendingPolls \in Seq(Pollers) /\ answer \in [Pollers -> Events \cup {NoEvent}] /\ ParkedOnce
      BY <1>0 DEF PollsOK
    <3>2. /\ pendingPolls' \in Seq(Pollers) /\ Len(pendingPolls') = n + 1
          /\ pendingPolls'[n + 1] = p /\ \A k \in 1..n : pendingPolls'[k] = pendingPolls[k]
      BY <2>1, <3>1
    <3>3. \A k \in 1..(n + 1) : k \in 1..n \/ k = n + 1
      BY <3>1
    <3>4. \A k \in 1..n : pendingPolls[k] # p
      BY DEF Parked
    <3>5. answer' \in [Pollers -> Events \cup {NoEvent}]
      BY <2>1, <3>1
    <3>6. \A i, j \in 1..(n + 1) : pendingPolls'[i] = pendingPolls'[j] => i = j
      BY <3>1, <3>2, <3>3, <3>4 DEF ParkedOnce
    <3>7. \A k \in 1..(n + 1) : answer'[pendingPolls'[k]] = NoEvent
      BY <2>1, <3>1, <3>2, <3>3, <3>4 DEF ParkedOnce
    <3> QED BY <3>2, <3>5, <3>6, <3>7 DEF PollsOK, ParkedOnce
  <2>4. /\ leaseTimer' \in {"off", "armed", "due"}
        /\ LeaseHasTimer' /\ ParkedOnlyBesideLeased' /\ NoStrandedPoll'
    BY <2>1, <2>2 DEF TimerFor, LeaseHasTimer, ParkedOnlyBesideLeased, NoStrandedPoll, Available
  <2> QED BY <1>0, <2>1, <2>3, <2>4, InvFromParts DEF GoodQueue
<1> QED BY <1>1, <1>2

\* A browser is back: only an unleased exit goes, and beside one no poll waits.
LEMMA CancelExitIsSafe ==
    ASSUME QueueInv, CancelQueuedAnonymousExitEvents
    PROVE  QueueInv'
<1> DEFINE kept == {e \in pendingEvents : e.event # Exit}
<1>0. GoodQueue(pendingEvents) /\ PollsOK
  BY InvIsGood DEF QueueInv, QueueTypeOK, QueueInvariant, PollsOK
<1>1. /\ pendingEvents' = kept
      /\ leaseTimer' = IF kept # pendingEvents THEN TimerFor(kept) ELSE leaseTimer
      /\ pendingPolls' = pendingPolls /\ answer' = answer
  BY DEF CancelQueuedAnonymousExitEvents
<1>2. GoodQueue(kept)
  <2>1. kept \in SUBSET pendingEvents
    OBVIOUS
  <2> HIDE DEF kept
  <2> QED BY <1>0, <2>1, PartIsGood
<1>3. pendingPolls # <<>> => kept = pendingEvents
  <2> SUFFICES ASSUME pendingPolls # <<>>, NEW e \in pendingEvents PROVE e.event # Exit
    OBVIOUS
  <2>1. e.lease # "none"
    BY DEF QueueInv, QueueInvariant, ParkedOnlyBesideLeased
  <2> QED BY <1>0, <2>1 DEF GoodQueue, Exit
<1>4. leaseTimer' \in {"off", "armed", "due"} /\ LeaseHasTimer'
  BY <1>1 DEF TimerFor, LeaseHasTimer, QueueInv, QueueTypeOK, QueueInvariant
<1>5. ParkedOnlyBesideLeased' /\ NoStrandedPoll'
  BY <1>1, <1>3 DEF ParkedOnlyBesideLeased, NoStrandedPoll, Available, QueueInv, QueueInvariant
<1>6. PollsOK' /\ GoodQueue(pendingEvents)'
  BY <1>0, <1>1, <1>2 DEF PollsOK, ParkedOnce, GoodQueue
<1> QED BY <1>4, <1>5, <1>6, InvFromParts

\* A parked poll is dropped; the others stay in their order.
LEMMA DropIsSafe ==
    ASSUME QueueInv, NEW k \in 1..Len(pendingPolls), DropPoll(k)
    PROVE  QueueInv'
<1> DEFINE n == Len(pendingPolls)
           from(i) == IF i < k THEN i ELSE i + 1
<1>0. /\ GoodQueue(pendingEvents) /\ PollsOK /\ n \in Nat /\ k \in 1..n
      /\ pendingPolls \in Seq(Pollers)
  BY InvIsGood DEF QueueInv, QueueTypeOK, QueueInvariant, PollsOK
<1>1. /\ pendingPolls' = [i \in 1..(n - 1) |-> pendingPolls[from(i)]]
      /\ pendingEvents' = pendingEvents /\ leaseTimer' = leaseTimer /\ answer' = answer
  BY DEF DropPoll
<1>2. n - 1 \in Nat /\ \A i \in 1..(n - 1) : from(i) \in 1..n /\ i \in Nat
  BY <1>0
<1>3. /\ pendingPolls' \in Seq(Pollers) /\ Len(pendingPolls') = n - 1
      /\ \A i \in 1..(n - 1) : pendingPolls'[i] = pendingPolls[from(i)]
  <2>1. \A i \in 1..(n - 1) : pendingPolls[from(i)] \in Pollers
    BY <1>0, <1>2
  <2>2. pendingPolls' \in [1..(n - 1) -> Pollers]
    BY <1>1, <2>1
  <2>3. pendingPolls' \in Seq(Pollers) /\ DOMAIN pendingPolls' = 1..(n - 1)
    BY <1>2, <2>2
  <2>4. Len(pendingPolls') = n - 1
    BY <1>2, <2>3
  <2> QED BY <1>1, <2>3, <2>4
<1>4. PollsOK'
  <2>1. \A i, j \in 1..(n - 1) : pendingPolls'[i] = pendingPolls'[j] => i = j
    <3> SUFFICES ASSUME NEW i \in 1..(n - 1), NEW j \in 1..(n - 1),
                        pendingPolls[from(i)] = pendingPolls[from(j)]
                 PROVE  i = j
      BY <1>3
    <3>1. from(i) = from(j)
      BY <1>0, <1>2 DEF PollsOK, ParkedOnce
    <3> QED BY <1>0, <1>2, <3>1
  <2>2. \A i \in 1..(n - 1) : answer'[pendingPolls'[i]] = NoEvent
    BY <1>0, <1>1, <1>2, <1>3 DEF PollsOK, ParkedOnce
  <2>3. answer' \in [Pollers -> Events \cup {NoEvent}]
    BY <1>0, <1>1 DEF PollsOK
  <2> QED BY <1>3, <2>1, <2>2, <2>3 DEF PollsOK, ParkedOnce
<1>5. pendingPolls # <<>>
  BY <1>0
<1>6. /\ leaseTimer' \in {"off", "armed", "due"} /\ LeaseHasTimer'
      /\ ParkedOnlyBesideLeased' /\ NoStrandedPoll'
  BY <1>1, <1>5 DEF LeaseHasTimer, ParkedOnlyBesideLeased, NoStrandedPoll, Available,
                    QueueInv, QueueTypeOK, QueueInvariant
<1> QED BY <1>0, <1>1, <1>4, <1>6, InvFromParts DEF GoodQueue

\* A lease runs out: the timer that was set for it stays set.
LEMMA ExpiryIsSafe ==
    ASSUME QueueInv, NEW e \in pendingEvents, LeaseExpires(e)
    PROVE  QueueInv'
<1> DEFINE x == [e EXCEPT !.lease = "expired"]
<1>0. GoodQueue(pendingEvents) /\ PollsOK
  BY InvIsGood DEF QueueInv, QueueTypeOK, QueueInvariant, PollsOK
<1>1. /\ e.lease = "live" /\ pendingEvents' = (pendingEvents \ {e}) \cup {x}
      /\ leaseTimer' = IF leaseTimer = "off" THEN "off" ELSE "due"
      /\ pendingPolls' = pendingPolls /\ answer' = answer
  BY DEF LeaseExpires
<1>2. /\ x \in Entry /\ x.event = e.event /\ x.seq = e.seq /\ x.lease = "expired"
      /\ e.event.id # NoId
  BY <1>0, <1>1 DEF GoodQueue, Entry, Leases
<1> HIDE DEF x
<1>3. GoodQueue((pendingEvents \ {e}) \cup {x})
  <2>1. IsFiniteSet((pendingEvents \ {e}) \cup {x})
    BY <1>0, FS_RemoveElement, FS_AddElement DEF GoodQueue
  <2>2. \E b \in Nat : \A f \in (pendingEvents \ {e}) \cup {x} : f.seq =< b
    BY <1>0, <1>2 DEF GoodQueue
  <2> QED BY <1>0, <1>2, <2>1, <2>2 DEF GoodQueue
<1>4. leaseTimer' = "due"
  BY <1>1 DEF QueueInv, QueueInvariant, LeaseHasTimer
<1>5. /\ LeaseHasTimer' /\ NoStrandedPoll' /\ ParkedOnlyBesideLeased'
  BY <1>1, <1>2, <1>4 DEF LeaseHasTimer, NoStrandedPoll, ParkedOnlyBesideLeased, QueueInv,
                          QueueInvariant
<1>6. PollsOK'
  BY <1>0, <1>1 DEF PollsOK, ParkedOnce
<1> QED BY <1>1, <1>3, <1>4, <1>5, <1>6, InvFromParts DEF GoodQueue

\* A new process: nothing parked, every entry fresh.
LEMMA RestoreIsSafe ==
    ASSUME QueueInv, pendingPolls = <<>>,
           NEW restored \in SUBSET [id : Ids, type : Types], IsFiniteSet(restored),
           RestorePendingEvents(restored)
    PROVE  QueueInv'
<1> DEFINE n == Cardinality(restored)
<1>1. PICK order \in [restored -> 1..n] :
        /\ \A e, f \in restored : order[e] = order[f] => e = f
        /\ pendingEvents' = {[event |-> e, lease |-> "none", seq |-> order[e]] : e \in restored}
        /\ pendingPolls' = pendingPolls /\ leaseTimer' = leaseTimer /\ answer' = answer
  BY DEF RestorePendingEvents
<1>2. n \in Nat
  BY FS_CardinalityType
<1>3. \A e \in restored : /\ order[e] \in Nat \ {0} /\ order[e] =< n
                          /\ e \in Events /\ e.id # NoId
  BY <1>2, QueueAssumption DEF Events
<1> DEFINE fresh == [e \in restored |-> [event |-> e, lease |-> "none", seq |-> order[e]]]
           q == {fresh[e] : e \in restored}
<1>4. \A e \in restored : /\ fresh[e] \in Entry /\ fresh[e].event = e
                          /\ fresh[e].lease = "none" /\ fresh[e].seq = order[e]
  BY <1>3 DEF Entry, Leases
<1>5. IsFiniteSet(q)
  <2>1. fresh \in Surjection(restored, q)
    BY DEF Surjection
  <2> HIDE DEF q, fresh
  <2> QED BY <2>1, FS_Surjection
<1>6. pendingEvents' = q
  BY <1>1
<1> HIDE DEF fresh
<1>7. GoodQueue(q)
  <2>1. q \subseteq Entry /\ \A e \in q : e.seq =< n
    BY <1>3, <1>4
  <2>2. \A e, f \in q : e.seq = f.seq => e = f
    BY <1>1, <1>4
  <2>3. \A e, f \in q : e.event = f.event => e = f
    BY <1>4
  <2>4. \A e \in q : e.event.id # NoId
    BY <1>3, <1>4
  <2> QED BY <1>2, <1>5, <2>1, <2>2, <2>3, <2>4 DEF GoodQueue
<1>8. PollsOK'
  BY <1>1 DEF PollsOK, ParkedOnce, QueueInv, QueueTypeOK, QueueInvariant
<1>9. /\ leaseTimer' \in {"off", "armed", "due"} /\ LeaseHasTimer'
      /\ ParkedOnlyBesideLeased' /\ NoStrandedPoll'
  BY <1>1, <1>4, <1>6 DEF LeaseHasTimer, ParkedOnlyBesideLeased, NoStrandedPoll, QueueInv,
                          QueueTypeOK
<1> QED BY <1>6, <1>7, <1>8, <1>9, InvFromParts DEF GoodQueue

\* Every step of the queue keeps the invariant.
LEMMA QueueStepIsSafe == QueueInv /\ [QueueNext]_queueVars => QueueInv'
<1> SUFFICES ASSUME QueueInv, [QueueNext]_queueVars PROVE QueueInv'
  OBVIOUS
<1>0. GoodQueue(pendingEvents)
  BY InvIsGood
<1>1. CASE \E event \in Events : EnqueueEvent(event)
  BY <1>1, EnqueueIsSafe
<1>2. CASE \E id \in Ids : AcknowledgePendingEvent(id)
  BY <1>2, AcknowledgeIsSafe
<1>3. CASE CancelQueuedAnonymousExitEvents
  BY <1>3, CancelExitIsSafe
<1>4. CASE \E p \in Pollers : ~Parked(p) /\ HandlePollGet(p)
  BY <1>4, PollIsSafe
<1>5. CASE \E k \in 1..Len(pendingPolls) : DropPoll(k)
  BY <1>5, DropIsSafe
<1>6. CASE \E e \in pendingEvents : LeaseExpires(e)
  BY <1>6, ExpiryIsSafe
<1>7. CASE LeaseTimerFires
  BY <1>0, <1>7, FlushIsSafe DEF LeaseTimerFires
<1>8. CASE QueueLost
  <2>1. GoodQueue({})
    BY FS_EmptySet DEF GoodQueue
  <2>2. PollsOK'
    BY <1>8 DEF QueueLost, PollsOK, ParkedOnce, QueueInv, QueueTypeOK
  <2>3. /\ leaseTimer' \in {"off", "armed", "due"} /\ LeaseHasTimer'
        /\ ParkedOnlyBesideLeased' /\ NoStrandedPoll'
    BY <1>8 DEF QueueLost, LeaseHasTimer, ParkedOnlyBesideLeased, NoStrandedPoll
  <2> QED BY <1>8, <2>1, <2>2, <2>3, InvFromParts DEF QueueLost, GoodQueue
<1>9. CASE /\ pendingPolls = <<>>
           /\ LET restored == {e.event : e \in pendingEvents'} IN
              /\ restored \subseteq [id : Ids, type : Types] /\ IsFiniteSet(restored)
              /\ RestorePendingEvents(restored)
  <2> DEFINE restored == {e.event : e \in pendingEvents'}
  <2>1. /\ pendingPolls = <<>> /\ restored \in SUBSET [id : Ids, type : Types]
        /\ IsFiniteSet(restored) /\ RestorePendingEvents(restored)
    BY <1>9
  <2> HIDE DEF restored
  <2> QED BY <2>1, RestoreIsSafe
<1>10. CASE \E p \in Pollers : /\ ~Parked(p)
                               /\ answer' = [answer EXCEPT ![p] = NoEvent]
                               /\ UNCHANGED <<pendingEvents, pendingPolls, leaseTimer>>
  <2>1. PollsOK'
    BY <1>10 DEF PollsOK, ParkedOnce, QueueInv, QueueTypeOK, QueueInvariant
  <2> QED BY <1>0, <1>10, <2>1, InvFromParts
          DEF GoodQueue, QueueInv, QueueTypeOK, QueueInvariant, LeaseHasTimer,
              ParkedOnlyBesideLeased, NoStrandedPoll, Available
<1>11. CASE UNCHANGED queueVars
  BY <1>11 DEF queueVars, QueueInv, QueueTypeOK, QueueInvariant, OneEntryPerEvent,
               NoStrandedPoll, Available, LeaseHasTimer, ParkedOnlyBesideLeased, TotalOrder,
               ParkedOnce, AnonymousUnleased, Bounded
<1> QED BY <1>1, <1>2, <1>3, <1>4, <1>5, <1>6, <1>7, <1>8, <1>9, <1>10, <1>11 DEF QueueNext

\* The queue is well formed under any browser and any agents: events are held
\* once, in a total order, and no poll waits beside an event it could have
\* without a timer that will bring them together (enqueueEvent, leaseEvent,
\* scheduleLeaseFlush and flushPendingPolls of live-server.mjs).
THEOREM QueueSafe == QueueSpec => [](QueueTypeOK /\ QueueInvariant)
<1>1. QueueInv => QueueTypeOK /\ QueueInvariant
  BY DEF QueueInv
<1> QED BY <1>1, QueueInitIsSafe, QueueStepIsSafe, PTL DEF QueueSpec
=============================================================================
