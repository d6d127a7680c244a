--------------------------- MODULE EditHookProofs ---------------------------
(***************************************************************************)
(* Theorems about the design hook, for every set of sessions, files,       *)
(* findings and processes, and every limit.                                *)
(***************************************************************************)
EXTENDS EditHook, FiniteSetTheorems, SequenceTheorems, TLAPS

Entries == [Sessions -> [Files -> Entry]]

Distinct(seq) == \A i, j \in DOMAIN seq : seq[i] = seq[j] => i = j

\* The caches a process can hold: one it read, with its own changes.
Snaps == {c \in Caches : Distinct(c.recent)}

Configs == [enabled : BOOLEAN, rules : SUBSET Findings, files : SUBSET Files]

HookStates ==
    [pc : {"idle", "start", "scan", "write", "answer"},
     session : Sessions \union {NoSession},
     patch : SUBSET Files, todo : SUBSET Files, config : Configs, snap : Snaps,
     fresh : SUBSET (Files \X Findings), found : SUBSET (Files \X Findings),
     proposed : SUBSET Findings, count : Nat]

\* A process that runs has a session, and one that checks a write has one file.
Placed(h) ==
    h.pc # "idle" =>
        /\ h.session \in Sessions
        /\ h.session \in Gated => \E f \in Files : h.patch = {f}

CacheOnDisk(c) ==
    /\ c \in Snaps
    /\ Len(c.recent) <= MaxSessions
    /\ \A s \in Sessions \ Cached(c) : c.entry[s] = Empty.entry[s]

HookTypes ==
    /\ content \in [Files -> SUBSET Findings]
    /\ CacheOnDisk(cache)
    /\ config \in Configs
    /\ hook \in [Processes -> HookStates]
    /\ \A p \in Processes : Placed(hook[p])
    /\ told \in [Sessions -> SUBSET (Files \X Findings)]
    /\ faults \in Nat

\* The agent of s was told of g, or an answer with g is on its way to it.
Promised(s, g) ==
    \/ g \in told[s]
    \/ \E q \in Processes : hook[q].pc = "answer" /\ hook[q].session = s
                            /\ g \in hook[q].fresh

\* What a process knows is promised, or its own answer will tell it.
OwnPromise(h, s, g) == s = h.session /\ g \in h.fresh

\* What the cache keeps from an agent is promised to it.
CachePromised ==
    \A s \in Sessions \ Gated, f \in Files :
        \A x \in cache.entry[s][f].known : Promised(s, <<f, x>>)

SnapPromised(h) ==
    h.pc \in {"scan", "write"} =>
        \A s \in Sessions \ Gated, f \in Files :
            \A x \in h.snap.entry[s][f].known :
                Promised(s, <<f, x>>) \/ OwnPromise(h, s, <<f, x>>)

FoundPromised(h) ==
    h.session \in Sessions \ Gated =>
        \A g \in h.found : g \in h.fresh \/ Promised(h.session, g)

\* The inductive invariant.
Promises ==
    faults = 0 =>
        /\ CachePromised
        /\ \A p \in Processes : SnapPromised(hook[p]) /\ FoundPromised(hook[p])

HookInv == HookTypes /\ Promises

\* The edit of h has still to be counted for this file.
Uncounted(h, s, f) ==
    /\ h.session = s /\ s \notin Gated /\ f \in h.patch
    /\ h.pc = "start" \/ (h.pc = "scan" /\ f \in h.todo)

Pending(s, f) == {p \in Processes : Uncounted(hook[p], s, f)}

\* A count and the edits still to be counted are no more than the edits made.
WithinMade(c, s, f) ==
    c.entry[s][f].edits + Cardinality(Pending(s, f)) <= made[s][f]

Counting ==
    /\ made \in [Sessions -> [Files -> Nat]]
    /\ \A p \in Processes : hook[p].session \in Gated => hook[p].todo = {}
    /\ \A s \in Sessions, f \in Files :
          /\ IsFiniteSet(Pending(s, f))
          /\ WithinMade(cache, s, f)
          /\ \A p \in Processes : WithinMade(hook[p].snap, s, f)

\* A cache has nothing of a session it does not list.
Kept(c) == \A s \in Sessions \ Cached(c) : c.entry[s] = Empty.entry[s]

Holding(h) == h.pc \in {"scan", "write"}

\* The cache as the next process will read it, if none reads it before the one
\* that holds it has written it.
LatestOf(processes, c) ==
    IF \E p \in Processes : Holding(processes[p])
    THEN processes[CHOOSE p \in Processes : Holding(processes[p])].snap
    ELSE c
Latest == LatestOf(hook, cache)

Reporting(h) == h.pc \in {"scan", "write", "answer"}

\* What the answer of h will tell s.
Owed(h, s) == IF h.session = s /\ Reporting(h) THEN h.fresh ELSE {}

\* What s was told, or will be told, is remembered, and will be told once.
TellsOnce(s) ==
    /\ s \notin repeated
    /\ \A p \in Processes :
          /\ Owed(hook[p], s) \intersect told[s] = {}
          /\ \A q \in Processes \ {p} :
                Owed(hook[p], s) \intersect Owed(hook[q], s) = {}
    /\ \A f \in Files, x \in Findings :
          <<f, x>> \in told[s] \union UNION {Owed(hook[p], s) : p \in Processes}
              => x \in Latest.entry[s][f].known

\* h will deny s a write of f with these findings.
Denies(h, s, f, found) ==
    /\ h.session = s /\ Reporting(h) /\ h.patch = {f} /\ h.count <= Threshold
    /\ {x \in Findings : <<f, x>> \in h.fresh} = found

Denying(s, f, found) == {p \in Processes : Denies(hook[p], s, f, found)}

DenialsTo(s, f, found) ==
    denied[s][f][found] + Cardinality(Denying(s, f, found))

\* The denials so far and those to come are counted, and not too many.
DeniesSeldom(s) ==
    \A f \in Files, found \in SUBSET Findings :
        /\ IsFiniteSet(Denying(s, f, found))
        /\ DenialsTo(s, f, found) <= Threshold
        /\ DenialsTo(s, f, found) <= Latest.entry[s][f].denials[found]

\* h goes on as next, and tells s and denies s nothing more.
Quiet(h, next, s) ==
    /\ Owed(next, s) \subseteq Owed(h, s)
    /\ \A f, found : Denies(next, s, f, found) => Denies(h, s, f, found)

DeniedProper ==
    /\ denied \in [Sessions -> [Files -> [SUBSET Findings -> Nat]]]
    /\ \A s \in Sessions \ Gated, f \in Files, found \in SUBSET Findings :
          denied[s][f][found] = 0

Histories ==
    /\ serial \in SUBSET Sessions /\ repeated \intersect Gated = {}
    /\ DeniedProper
    /\ \A p \in Processes :
          /\ Kept(hook[p].snap)
          /\ ~Reporting(hook[p]) => hook[p].fresh = {}

OneByOne ==
    /\ serial # {} => \A p, q \in Processes : Holds(p) /\ Holds(q) => p = q
    /\ \A s \in serial \ Gated : TellsOnce(s)
    /\ \A s \in serial \intersect Gated : DeniesSeldom(s)

-----------------------------------------------------------------------------
(* Lemmas about the cache.                                                 *)

LEMMA WithoutIsDistinct ==
    ASSUME NEW seq \in Seq(Sessions), Distinct(seq), NEW s
    PROVE  /\ Without(seq, s) \in Seq(Sessions)
           /\ Distinct(Without(seq, s))
           /\ \A i \in DOMAIN Without(seq, s) : Without(seq, s)[i] # s
           /\ \A k \in DOMAIN seq : seq[k] # s =>
                 \E m \in DOMAIN Without(seq, s) : Without(seq, s)[m] = seq[k]
<1>1. CASE \E i \in DOMAIN seq : seq[i] = s
  <2> DEFINE i == CHOOSE i \in DOMAIN seq : seq[i] = s
             a == SubSeq(seq, 1, i - 1)
             b == SubSeq(seq, i + 1, Len(seq))
  <2>0. Len(seq) \in Nat /\ DOMAIN seq = 1..Len(seq) /\ \A k \in 1..Len(seq) : seq[k] \in Sessions
    BY LenProperties, ElementOfSeq
  <2>1. i \in 1..Len(seq) /\ seq[i] = s
    BY <1>1, <2>0
  <2>2. Without(seq, s) = a \o b
    BY <1>1 DEF Without
  <2> HIDE DEF i
  <2>3. /\ a \in Seq(Sessions) /\ Len(a) = i - 1
        /\ \A k \in 1..(i - 1) : a[k] = seq[k]
    <3>1. \A k \in 1..(i - 1) : seq[k] \in Sessions
      BY <2>0, <2>1
    <3>2. 1 \in Int /\ i - 1 \in Int /\ i \in Int
      BY <2>0, <2>1
    <3> HIDE DEF a
    <3>3. /\ a \in Seq(Sessions)
          /\ Len(a) = IF 1 <= i - 1 THEN (i - 1) - 1 + 1 ELSE 0
          /\ \A k \in 1..((i - 1) - 1 + 1) : a[k] = seq[1 + k - 1]
      BY <3>1, <3>2, SubSeqProperties DEF a
    <3> QED BY <3>2, <3>3, <2>1, <2>0
  <2>4. /\ b \in Seq(Sessions) /\ Len(b) = Len(seq) - i
        /\ \A k \in 1..(Len(seq) - i) : b[k] = seq[k + i]
    <3>1. \A k \in (i + 1)..Len(seq) : seq[k] \in Sessions
      BY <2>0, <2>1
    <3>2. i + 1 \in Int /\ Len(seq) \in Int /\ i \in Int
      BY <2>0, <2>1
    <3> HIDE DEF b
    <3>3. /\ b \in Seq(Sessions)
          /\ Len(b) = IF i + 1 <= Len(seq) THEN Len(seq) - (i + 1) + 1 ELSE 0
          /\ \A k \in 1..(Len(seq) - (i + 1) + 1) : b[k] = seq[(i + 1) + k - 1]
      BY <3>1, <3>2, SubSeqProperties DEF b
    <3>4. Len(b) = Len(seq) - i
      BY <3>2, <3>3, <2>0, <2>1
    <3>5. Len(seq) - (i + 1) + 1 = Len(seq) - i
      BY <3>2
    <3>6. \A k \in 1..(Len(seq) - i) : (i + 1) + k - 1 = k + i
      BY <3>2
    <3> QED BY <3>3, <3>4, <3>5, <3>6
  <2> HIDE DEF a, b
  <2>5. /\ a \o b \in Seq(Sessions)
        /\ Len(a \o b) = Len(seq) - 1
        /\ \A k \in 1..(Len(seq) - 1) : (a \o b)[k] = IF k < i THEN seq[k] ELSE seq[k + 1]
    <3>1. /\ a \o b \in Seq(Sessions)
          /\ Len(a \o b) = Len(a) + Len(b)
          /\ \A k \in 1..(Len(a) + Len(b)) :
                (a \o b)[k] = IF k <= Len(a) THEN a[k] ELSE b[k - Len(a)]
      BY <2>3, <2>4, ConcatProperties
    <3>2. Len(a) + Len(b) = Len(seq) - 1
      BY <2>0, <2>1, <2>3, <2>4
    <3>3. ASSUME NEW k \in 1..(Len(seq) - 1)
          PROVE  (a \o b)[k] = IF k < i THEN seq[k] ELSE seq[k + 1]
      <4>1. CASE k < i
        <5>1. k \in 1..(i - 1) /\ k <= Len(a)
          BY <4>1, <2>0, <2>1, <2>3
        <5> QED BY <3>1, <3>2, <4>1, <5>1, <2>3
      <4>2. CASE ~(k < i)
        <5>1. k - Len(a) \in 1..(Len(seq) - i) /\ ~(k <= Len(a))
          BY <4>2, <2>0, <2>1, <2>3
        <5>2. (a \o b)[k] = b[k - Len(a)]
          BY <3>1, <3>2, <5>1
        <5>3. b[k - Len(a)] = seq[(k - Len(a)) + i]
          BY <5>1, <2>4
        <5>4. (k - Len(a)) + i = k + 1
          BY <2>0, <2>1, <2>3
        <5> QED BY <4>2, <5>2, <5>3, <5>4
      <4> QED BY <4>1, <4>2
    <3> QED BY <3>1, <3>2, <3>3
  <2>6. DOMAIN (a \o b) = 1..(Len(seq) - 1)
    BY <2>5, LenProperties
  <2>7. \A k \in 1..(Len(seq) - 1) :
            \E m \in (1..Len(seq)) \ {i} :
                (a \o b)[k] = seq[m] /\ m = IF k < i THEN k ELSE k + 1
    BY <2>0, <2>1, <2>5
  <2>8. \A k \in 1..(Len(seq) - 1) : (a \o b)[k] # s
    BY <2>0, <2>1, <2>7 DEF Distinct
  <2>9. ASSUME NEW k \in 1..(Len(seq) - 1), NEW l \in 1..(Len(seq) - 1), (a \o b)[k] = (a \o b)[l]
        PROVE  k = l
    <3>1. PICK m \in 1..Len(seq) : (a \o b)[k] = seq[m] /\ m = IF k < i THEN k ELSE k + 1
      BY <2>7
    <3>2. PICK n \in 1..Len(seq) : (a \o b)[l] = seq[n] /\ n = IF l < i THEN l ELSE l + 1
      BY <2>7
    <3>3. m = n
      BY <2>0, <2>9, <3>1, <3>2 DEF Distinct
    <3> QED BY <3>1, <3>2, <3>3, <2>0, <2>1
  <2>10. Distinct(a \o b)
    BY <2>6, <2>9 DEF Distinct
  <2>11. ASSUME NEW k \in DOMAIN seq, seq[k] # s
         PROVE  \E m \in DOMAIN (a \o b) : (a \o b)[m] = seq[k]
    <3>1. k \in 1..Len(seq) /\ k # i
      BY <2>0, <2>1, <2>11
    <3>2. CASE k < i
      <4>1. k \in 1..(Len(seq) - 1)
        BY <2>0, <2>1, <3>1, <3>2
      <4> QED BY <2>5, <2>6, <3>2, <4>1
    <3>3. CASE ~(k < i)
      <4>1. k - 1 \in 1..(Len(seq) - 1) /\ ~(k - 1 < i) /\ (k - 1) + 1 = k
        BY <2>0, <2>1, <3>1, <3>3
      <4>2. (a \o b)[k - 1] = seq[k]
        BY <2>5, <4>1
      <4> QED BY <2>6, <4>1, <4>2
    <3> QED BY <3>2, <3>3
  <2> QED BY <2>2, <2>5, <2>6, <2>8, <2>10, <2>11
<1>2. CASE ~\E i \in DOMAIN seq : seq[i] = s
  BY <1>2 DEF Without
<1> QED BY <1>1, <1>2

LEMMA UpdatedIsSnap ==
    ASSUME NEW c \in Snaps, NEW s \in Sessions, NEW entry \in Entries
    PROVE  /\ Updated(c, s, entry) \in Snaps /\ Updated(c, s, entry).entry = entry
           /\ Cached(c) \union {s} \subseteq Cached(Updated(c, s, entry))
<1> DEFINE w == Without(c.recent, s)
           r == <<s>> \o w
<1>1. /\ w \in Seq(Sessions) /\ Distinct(w)
      /\ \A i \in DOMAIN w : w[i] # s
      /\ \A k \in DOMAIN c.recent : c.recent[k] # s =>
            \E m \in DOMAIN w : w[m] = c.recent[k]
  BY WithoutIsDistinct DEF Snaps, Caches
<1> HIDE DEF w
<1>2. /\ r \in Seq(Sessions) /\ Len(r) = 1 + Len(w)
      /\ \A i \in 1..(1 + Len(w)) : r[i] = IF i <= 1 THEN s ELSE w[i - 1]
  <2>1. <<s>> \in Seq(Sessions) /\ Len(<<s>>) = 1 /\ <<s>>[1] = s
    OBVIOUS
  <2>2. /\ r \in Seq(Sessions) /\ Len(r) = Len(<<s>>) + Len(w)
        /\ \A i \in 1..(Len(<<s>>) + Len(w)) :
              r[i] = IF i <= Len(<<s>>) THEN <<s>>[i] ELSE w[i - Len(<<s>>)]
    BY <1>1, <2>1, ConcatProperties
  <2> HIDE DEF r
  <2> QED BY <2>1, <2>2, <1>1, LenProperties
<1> HIDE DEF r
<1>3. /\ DOMAIN w = 1..Len(w) /\ Len(w) \in Nat
      /\ DOMAIN r = 1..(1 + Len(w))
  BY <1>1, <1>2, LenProperties
<1>4. Distinct(r)
  <2> SUFFICES ASSUME NEW i \in 1..(1 + Len(w)), NEW j \in 1..(1 + Len(w)), r[i] = r[j]
               PROVE  i = j
    BY <1>3 DEF Distinct
  <2>1. i # 1 => i - 1 \in DOMAIN w /\ r[i] = w[i - 1]
    BY <1>2, <1>3
  <2>2. j # 1 => j - 1 \in DOMAIN w /\ r[j] = w[j - 1]
    BY <1>2, <1>3
  <2>3. (i = 1 => r[i] = s) /\ (j = 1 => r[j] = s)
    BY <1>2, <1>3
  <2> QED BY <1>1, <1>3, <2>1, <2>2, <2>3 DEF Distinct
<1>5. Updated(c, s, entry) = [recent |-> r, entry |-> entry]
  BY DEF Updated, r, w
<1>6. ASSUME NEW t \in Cached(c) \union {s}
      PROVE  \E i \in DOMAIN r : r[i] = t
  <2>1. CASE t = s
    <3>1. 1 \in 1..(1 + Len(w)) /\ r[1] = s
      BY <1>2, <1>3
    <3> QED BY <1>3, <2>1, <3>1
  <2>2. CASE t # s
    <3>1. PICK k \in DOMAIN c.recent : c.recent[k] = t
      BY <1>6, <2>2 DEF Cached
    <3>2. PICK m \in DOMAIN w : w[m] = t
      BY <1>1, <2>2, <3>1
    <3>3. m + 1 \in 1..(1 + Len(w)) /\ ~(m + 1 <= 1) /\ (m + 1) - 1 = m
      BY <1>3, <3>2
    <3>4. r[m + 1] = t
      BY <1>2, <3>2, <3>3
    <3> QED BY <1>3, <3>3, <3>4
  <2> QED BY <2>1, <2>2
<1>7. Cached(c) \union {s} \subseteq Cached(Updated(c, s, entry))
  BY <1>5, <1>6 DEF Cached
<1> QED BY <1>2, <1>4, <1>5, <1>7 DEF Snaps, Caches, Entries

LEMMA EmptyIsOnDisk == CacheOnDisk(Empty) /\ Empty.entry \in Entries
<1>1. Unseen \in Entry
  BY DEF Unseen, Entry
<1>2. Empty.entry \in Entries
  BY <1>1 DEF Empty, Entries
<1>3. <<>> \in Seq(Sessions) /\ Len(<<>>) = 0 /\ DOMAIN <<>> = {}
  OBVIOUS
<1>4. Empty \in Snaps
  BY <1>2, <1>3 DEF Empty, Snaps, Caches, Entries, Distinct
<1> QED BY <1>2, <1>3, <1>4, HookAssumption DEF CacheOnDisk, Empty

\* What a process does to the entries of its cache: it counts, and it adds
\* findings to what its own session knows of one file.
LEMMA BumpEditCountKept ==
    ASSUME NEW c \in Snaps, NEW s \in Sessions, NEW f \in Files
    PROVE  /\ BumpEditCount(c, s, f) \in Snaps
           /\ \A t \in Sessions, g \in Files :
                 BumpEditCount(c, s, f).entry[t][g].known = c.entry[t][g].known
<1> DEFINE entry == [c.entry EXCEPT ![s][f].edits = @ + 1]
<1>1. c.entry \in [Sessions -> [Files -> Entry]]
  BY DEF Snaps, Caches
<1>2. c.entry[s][f] \in Entry /\ c.entry[s] \in [Files -> Entry]
  BY <1>1
<1>4. [c.entry[s][f] EXCEPT !.edits = @ + 1] \in Entry
  BY <1>2 DEF Entry
<1>5. entry \in Entries /\ \A t \in Sessions, g \in Files : entry[t][g].known = c.entry[t][g].known
  BY <1>1, <1>2, <1>4 DEF Entries, Entry
<1> HIDE DEF entry
<1>3. BumpEditCount(c, s, f) = Updated(c, s, entry)
  BY DEF BumpEditCount, entry
<1> QED BY <1>5, <1>3, UpdatedIsSnap

LEMMA BumpCursorDenialKept ==
    ASSUME NEW c \in Snaps, NEW s \in Sessions, NEW f \in Files, NEW found \in SUBSET Findings
    PROVE  /\ BumpCursorDenial(c, s, f, found) \in Snaps
           /\ BumpCursorDenial(c, s, f, found).entry[s][f].denials[found] \in Nat
           /\ \A t \in Sessions, g \in Files :
                 BumpCursorDenial(c, s, f, found).entry[t][g].known = c.entry[t][g].known
<1> DEFINE entry == [c.entry EXCEPT ![s][f].denials[found] = @ + 1]
<1>1. c.entry \in [Sessions -> [Files -> Entry]]
  BY DEF Snaps, Caches
<1>2. c.entry[s][f] \in Entry /\ c.entry[s] \in [Files -> Entry]
  BY <1>1
<1>3. [c.entry[s][f].denials EXCEPT ![found] = @ + 1] \in [SUBSET Findings -> Nat]
  BY <1>2 DEF Entry
<1>4. [c.entry[s][f] EXCEPT !.denials = [c.entry[s][f].denials EXCEPT ![found] = @ + 1]] \in Entry
  BY <1>2, <1>3 DEF Entry
<1>5. entry \in Entries /\ \A t \in Sessions, g \in Files : entry[t][g].known = c.entry[t][g].known
  BY <1>1, <1>2, <1>3, <1>4 DEF Entries, Entry
<1>6. entry[s][f].denials[found] \in Nat
  <2> HIDE DEF entry
  <2>1. entry[s][f] \in Entry
    BY <1>5 DEF Entries
  <2> QED BY <2>1 DEF Entry
<1> HIDE DEF entry
<1>7. BumpCursorDenial(c, s, f, found) = Updated(c, s, entry)
  BY DEF BumpCursorDenial, entry
<1> QED BY <1>5, <1>6, <1>7, UpdatedIsSnap

LEMMA RememberKept ==
    ASSUME NEW c \in Snaps, NEW s \in Sessions, NEW f \in Files, NEW fresh \in SUBSET Findings
    PROVE  /\ RememberFindings(c, s, f, fresh) \in Snaps
           /\ \A t \in Sessions, g \in Files :
                 RememberFindings(c, s, f, fresh).entry[t][g].known =
                     c.entry[t][g].known \union (IF t = s /\ g = f THEN fresh ELSE {})
<1> DEFINE entry == [c.entry EXCEPT ![s][f].known = @ \union fresh]
<1>1. c.entry \in [Sessions -> [Files -> Entry]]
  BY DEF Snaps, Caches
<1>2. c.entry[s][f] \in Entry /\ c.entry[s] \in [Files -> Entry]
  BY <1>1
<1>4. [c.entry[s][f] EXCEPT !.known = @ \union fresh] \in Entry
  BY <1>2 DEF Entry
<1>5. entry \in Entries
  BY <1>1, <1>2, <1>4 DEF Entries
<1>6. ASSUME NEW t \in Sessions, NEW g \in Files
      PROVE  entry[t][g].known =
                 c.entry[t][g].known \union (IF t = s /\ g = f THEN fresh ELSE {})
  <2>1. CASE t = s /\ g = f
    BY <1>1, <1>2, <2>1 DEF Entry
  <2>2. CASE ~(t = s /\ g = f)
    <3>1. entry[t][g] = c.entry[t][g]
      BY <1>1, <2>2
    <3>2. entry[t][g].known = c.entry[t][g].known
      BY <3>1
    <3> HIDE DEF entry
    <3> QED BY <2>2, <3>2
  <2> QED BY <2>1, <2>2
<1> HIDE DEF entry
<1>3. RememberFindings(c, s, f, fresh) = Updated(c, s, entry)
  BY DEF RememberFindings, entry
<1> QED BY <1>5, <1>6, <1>3, UpdatedIsSnap

LEMMA EnsureKept ==
    ASSUME NEW c \in Snaps, NEW s \in Sessions
    PROVE  Ensure(c, s) \in Snaps /\ Ensure(c, s).entry = c.entry
BY UpdatedIsSnap DEF Ensure, Snaps, Caches, Entries

LEMMA CountedKept ==
    ASSUME NEW h \in HookStates, h.session \in Sessions, NEW f \in Files
    PROVE  /\ Counted(h, f) \in Snaps
           /\ \A t \in Sessions, g \in Files :
                 Counted(h, f).entry[t][g].known = h.snap.entry[t][g].known
<1>1. h.snap \in Snaps
  BY DEF HookStates
<1> QED BY <1>1, BumpEditCountKept DEF Counted

LEMMA ScannedKept ==
    ASSUME NEW c \in Snaps, NEW s \in Sessions, NEW f \in Files, NEW found,
           NEW fresh \in SUBSET Findings
    PROVE  /\ Scanned(c, s, f, found, fresh) \in Snaps
           /\ \A t \in Sessions, g \in Files :
                 \A x \in Scanned(c, s, f, found, fresh).entry[t][g].known :
                     \/ x \in c.entry[t][g].known
                     \/ t = s /\ g = f /\ x \in fresh
<1>1. CASE found = {}
  BY <1>1 DEF Scanned
<1>2. CASE found # {} /\ fresh = {}
  BY <1>2, EnsureKept DEF Scanned
<1>3. CASE found # {} /\ fresh # {}
  BY <1>3, RememberKept DEF Scanned
<1> QED BY <1>1, <1>2, <1>3

LEMMA EvictedKept ==
    ASSUME NEW c \in Snaps
    PROVE  /\ CacheOnDisk(Evicted(c))
           /\ \A t \in Sessions, g \in Files :
                 Evicted(c).entry[t][g].known \subseteq c.entry[t][g].known
<1> DEFINE kept == IF Len(c.recent) > MaxSessions THEN SubSeq(c.recent, 1, MaxSessions)
                   ELSE c.recent
           entry == [s \in Sessions |-> IF \E i \in DOMAIN kept : kept[i] = s
                                        THEN c.entry[s] ELSE Empty.entry[s]]
<1>0. /\ c.recent \in Seq(Sessions) /\ c.entry \in Entries /\ Distinct(c.recent)
      /\ MaxSessions \in Nat /\ Empty.entry \in Entries
  BY HookAssumption, EmptyIsOnDisk DEF Snaps, Caches, Entries
<1>1. Evicted(c) = [recent |-> kept, entry |-> entry]
  BY DEF Evicted
<1>2. kept \in Seq(Sessions) /\ Len(kept) <= MaxSessions /\ Distinct(kept)
  <2>0. /\ Len(c.recent) \in Nat /\ DOMAIN c.recent = 1..Len(c.recent)
        /\ \A k \in 1..Len(c.recent) : c.recent[k] \in Sessions
    BY <1>0, LenProperties, ElementOfSeq
  <2>1. CASE Len(c.recent) > MaxSessions
    <3> DEFINE a == SubSeq(c.recent, 1, MaxSessions)
    <3>1. \A k \in 1..MaxSessions : c.recent[k] \in Sessions
      BY <1>0, <2>0, <2>1
    <3>2. /\ a \in Seq(Sessions)
          /\ Len(a) = IF 1 <= MaxSessions THEN MaxSessions - 1 + 1 ELSE 0
          /\ \A k \in 1..(MaxSessions - 1 + 1) : a[k] = c.recent[1 + k - 1]
      <4>1. 1 \in Int /\ MaxSessions \in Int
        BY <1>0
      <4> HIDE DEF a
      <4> QED BY <3>1, <4>1, SubSeqProperties DEF a
    <3>3. kept = a
      BY <2>1
    <3> HIDE DEF a, kept
    <3>4. Len(a) = MaxSessions /\ \A k \in 1..MaxSessions : a[k] = c.recent[k]
      BY <3>2, <1>0
    <3>5. DOMAIN a = 1..MaxSessions
      BY <3>2, <3>4, LenProperties
    <3>6. ASSUME NEW i \in 1..MaxSessions, NEW j \in 1..MaxSessions, a[i] = a[j]
          PROVE  i = j
      <4>1. i \in DOMAIN c.recent /\ j \in DOMAIN c.recent
        BY <1>0, <2>0, <2>1
      <4>2. c.recent[i] = c.recent[j]
        BY <3>4, <3>6
      <4> QED BY <4>1, <4>2, <1>0 DEF Distinct
    <3>7. Distinct(a)
      BY <3>5, <3>6 DEF Distinct
    <3> QED BY <3>2, <3>3, <3>4, <3>7, <1>0
  <2>2. CASE ~(Len(c.recent) > MaxSessions)
    BY <2>2, <2>0, <1>0
  <2> QED BY <2>1, <2>2
<1> HIDE DEF kept
<1>3. entry \in Entries
  BY <1>0 DEF Entries
<1>4. \A t \in Sessions, g \in Files : entry[t][g].known \subseteq c.entry[t][g].known
  BY <1>0 DEF Empty, Unseen
<1>5. \A s \in Sessions : (~\E i \in DOMAIN kept : kept[i] = s) => entry[s] = Empty.entry[s]
  OBVIOUS
<1> HIDE DEF entry
<1>6. Evicted(c).recent = kept /\ Evicted(c).entry = entry
  BY <1>1
<1>7. Evicted(c) \in Snaps
  BY <1>1, <1>2, <1>3 DEF Snaps, Caches, Entries
<1>8. \A s \in Sessions \ Cached(Evicted(c)) : Evicted(c).entry[s] = Empty.entry[s]
  BY <1>5, <1>6 DEF Cached
<1> QED BY <1>2, <1>4, <1>6, <1>7, <1>8 DEF CacheOnDisk
-----------------------------------------------------------------------------
(* One step of one process.                                                *)

\* What is promised stays so when one process changes, unless it takes back an
\* answer.
LEMMA PromisedStays ==
    ASSUME HookTypes, NEW p \in Processes, NEW next \in HookStates,
           hook' = [hook EXCEPT ![p] = next],
           \A s \in Sessions : told[s] \subseteq told'[s],
           hook[p].pc = "answer" /\ hook[p].session \notin Gated =>
               hook[p].fresh \subseteq told'[hook[p].session],
           NEW s \in Sessions \ Gated, NEW g, Promised(s, g)
    PROVE  Promised(s, g)'
<1>1. CASE g \in told[s]
  BY <1>1 DEF Promised
<1>2. ASSUME NEW q \in Processes, hook[q].pc = "answer", hook[q].session = s, g \in hook[q].fresh
      PROVE  Promised(s, g)'
  <2>1. CASE q = p
    BY <1>2, <2>1 DEF Promised
  <2>2. CASE q # p
    BY <1>2, <2>2 DEF Promised, HookTypes
  <2> QED BY <2>1, <2>2
<1> QED BY <1>1, <1>2 DEF Promised

\* What remains to be shown of a step in which one process changes.
LEMMA StepKeeps ==
    ASSUME HookInv, NEW p \in Processes, NEW next \in HookStates, Placed(next),
           hook' = [hook EXCEPT ![p] = next],
           content' \in [Files -> SUBSET Findings], CacheOnDisk(cache'), config' \in Configs,
           told' \in [Sessions -> SUBSET (Files \X Findings)], faults' \in Nat,
           faults' = 0 =>
               /\ faults = 0
               /\ \A s \in Sessions : told[s] \subseteq told'[s]
               /\ hook[p].pc = "answer" /\ hook[p].session \notin Gated =>
                      hook[p].fresh \subseteq told'[hook[p].session]
               /\ \A s \in Sessions \ Gated, f \in Files :
                      \A x \in cache'.entry[s][f].known :
                          \/ Promised(s, <<f, x>>)
                          \/ next.pc = "answer" /\ OwnPromise(next, s, <<f, x>>)
               /\ next.pc \in {"scan", "write"} =>
                      \A s \in Sessions \ Gated, f \in Files :
                          \A x \in next.snap.entry[s][f].known :
                              Promised(s, <<f, x>>) \/ OwnPromise(next, s, <<f, x>>)
               /\ next.session \in Sessions \ Gated =>
                      \A g \in next.found : g \in next.fresh \/ Promised(next.session, g)
    PROVE  HookInv'
<1>0. hook \in [Processes -> HookStates] /\ HookTypes
  BY DEF HookInv, HookTypes
<1>1. hook'[p] = next /\ \A q \in Processes \ {p} : hook'[q] = hook[q]
  BY <1>0
<1>2. HookTypes'
  BY <1>0, <1>1 DEF HookTypes
<1>3. ASSUME faults' = 0
      PROVE  CachePromised' /\ \A q \in Processes : SnapPromised(hook[q])' /\ FoundPromised(hook[q])'
  <2>1. \A s \in Sessions \ Gated : \A g : Promised(s, g) => Promised(s, g)'
    BY <1>0, <1>3, PromisedStays
  <2>2. \A s \in Sessions \ Gated : \A g :
            next.pc = "answer" /\ OwnPromise(next, s, g) => Promised(s, g)'
    BY <1>1 DEF Promised, OwnPromise
  <2>3. CachePromised'
    BY <1>3, <2>1, <2>2 DEF CachePromised
  <2>4. SnapPromised(hook[p])' /\ FoundPromised(hook[p])'
    BY <1>1, <1>3, <2>1 DEF SnapPromised, FoundPromised, OwnPromise
  <2>5. ASSUME NEW q \in Processes \ {p}
        PROVE  SnapPromised(hook[q])' /\ FoundPromised(hook[q])'
    <3>1. SnapPromised(hook[q]) /\ FoundPromised(hook[q]) /\ hook'[q] = hook[q]
      BY <1>1, <1>3 DEF HookInv, Promises
    <3> QED BY <2>1, <3>1 DEF SnapPromised, FoundPromised, OwnPromise
  <2> QED BY <2>3, <2>4, <2>5
<1>4. Promises'
  BY <1>3 DEF Promises
<1> QED BY <1>2, <1>4 DEF HookInv

LEMMA IdleIsHookState == Idle \in HookStates
<1>1. Empty \in Snaps
  BY EmptyIsOnDisk DEF CacheOnDisk
<1> QED BY <1>1 DEF Idle, HookStates, Configs

LEMMA EditKeeps ==
    ASSUME HookInv, NEW p \in Processes, NEW s \in Sessions, NEW patch \in Patches,
           NEW after \in [Files -> SUBSET Findings], Edit(p, s, patch, after)
    PROVE  HookInv'
<1> DEFINE next == [Idle EXCEPT !.pc = "start", !.session = s, !.patch = patch, !.proposed = {}]
<1>1. next \in HookStates
  BY IdleIsHookState, HookAssumption DEF HookStates
<1>2. next.pc = "start" /\ next.session = s /\ next.found = {}
  BY DEF Idle
<1>3. hook' = [hook EXCEPT ![p] = next] /\ hook[p].pc = "idle"
  BY DEF Edit, Fire, Running
<1>4. Placed(next)
  BY <1>2 DEF Placed, Edit
<1> HIDE DEF next
<1>5. content' \in [Files -> SUBSET Findings]
  BY DEF Edit, HookInv, HookTypes
<1>6. UNCHANGED <<cache, config, told, faults>>
  BY DEF Edit, Fire
<1> QED BY <1>1, <1>2, <1>3, <1>4, <1>5, <1>6, StepKeeps
        DEF HookInv, HookTypes, Promises, CachePromised

LEMMA ProposeKeeps ==
    ASSUME HookInv, NEW p \in Processes, NEW s \in Sessions, NEW f \in Files,
           NEW after \in SUBSET Findings, Propose(p, s, f, after)
    PROVE  HookInv'
<1> DEFINE next == [Idle EXCEPT !.pc = "start", !.session = s, !.patch = {f}, !.proposed = after]
<1>1. next \in HookStates
  BY IdleIsHookState DEF HookStates
<1>2. next.pc = "start" /\ next.session = s /\ next.found = {} /\ next.patch = {f}
  BY DEF Idle
<1>3. hook' = [hook EXCEPT ![p] = next] /\ hook[p].pc = "idle"
  BY DEF Propose, Fire, Running
<1>4. Placed(next)
  BY <1>2 DEF Placed
<1> HIDE DEF next
<1>6. UNCHANGED <<content, cache, config, told, faults>>
  BY DEF Propose, Fire
<1> QED BY <1>1, <1>2, <1>3, <1>4, <1>6, StepKeeps
        DEF HookInv, HookTypes, Promises, CachePromised

LEMMA StartHookKeeps ==
    ASSUME HookInv, NEW p \in Processes, StartHook(p)
    PROVE  HookInv'
<1> DEFINE h == hook[p]
           next == [h EXCEPT !.pc = "scan", !.todo = Targets(h.patch),
                             !.config = config, !.snap = cache]
<1>1. h \in HookStates /\ Placed(h) /\ h.pc = "start"
  BY DEF HookInv, HookTypes, StartHook
<1>2. UNCHANGED <<content, cache, config, told, faults>>
  BY DEF StartHook, Step
<1>3. CASE config.enabled
  <2>1. hook' = [hook EXCEPT ![p] = next]
    BY <1>3 DEF StartHook, ReadCache
  <2>2. Targets(h.patch) \subseteq Files
    BY <1>1, HookAssumption DEF Targets, HookStates
  <2>3. next \in HookStates
    BY <1>1, <2>2 DEF HookStates, HookInv, HookTypes, CacheOnDisk
  <2>4. /\ next.pc = "scan" /\ next.session = h.session /\ next.snap = cache
        /\ next.found = h.found /\ next.fresh = h.fresh /\ next.patch = h.patch
    BY <1>1 DEF HookStates
  <2>5. Placed(next)
    BY <1>1, <2>4 DEF Placed
  <2> HIDE DEF next
  <2> QED BY <1>1, <1>2, <2>1, <2>3, <2>4, <2>5, StepKeeps
          DEF HookInv, HookTypes, Promises, CachePromised, FoundPromised
<1>4. CASE ~config.enabled
  <2>1. hook' = [hook EXCEPT ![p] = Idle]
    BY <1>4 DEF StartHook
  <2>2. Placed(Idle) /\ Idle.pc = "idle" /\ Idle.session \notin Sessions
    BY HookAssumption DEF Placed, Idle
  <2> QED BY <1>1, <1>2, <2>1, <2>2, IdleIsHookState, StepKeeps
          DEF HookInv, HookTypes, Promises, CachePromised
<1> QED BY <1>3, <1>4

LEMMA ScanFileKeeps ==
    ASSUME HookInv, NEW p \in Processes, NEW f \in hook[p].todo, NEW detected \in SUBSET Findings,
           ScanFile(p, f, detected), faults' \in Nat, faults' = faults \/ faults' # 0
    PROVE  HookInv'
<1> DEFINE h == hook[p]
           s == h.session
           counted == Counted(h, f)
           found == detected \ h.config.rules
           fresh == Fresh(counted, s, f, found)
           scanned == Scanned(counted, s, f, found, fresh)
           next == [h EXCEPT !.todo = @ \ {f}]
           next2 == [next EXCEPT !.snap = counted]
           next3 == [next EXCEPT !.snap = scanned,
                                 !.fresh = @ \union ({f} \X fresh),
                                 !.found = @ \union ({f} \X found)]
<1>1. h \in HookStates /\ Placed(h) /\ h.pc = "scan" /\ f \in Files /\ s \in Sessions
  BY DEF HookInv, HookTypes, ScanFile, Placed, HookStates
<1>2. UNCHANGED <<content, cache, config, told>>
  BY DEF ScanFile, Step
<1>3. \/ hook' = [hook EXCEPT ![p] = next]
      \/ hook' = [hook EXCEPT ![p] = next2]
      \/ hook' = [hook EXCEPT ![p] = next3]
  BY DEF ScanFile
<1>4. /\ counted \in Snaps
      /\ \A t \in Sessions, g \in Files : counted.entry[t][g].known = h.snap.entry[t][g].known
  BY <1>1, CountedKept
<1>5. /\ found \in SUBSET Findings /\ fresh \in SUBSET Findings
      /\ \A x \in found : x \in fresh \/ x \in counted.entry[s][f].known
  BY DEF Fresh
<1> HIDE DEF counted
<1>6. /\ scanned \in Snaps
      /\ \A t \in Sessions, g \in Files :
            \A x \in scanned.entry[t][g].known :
                x \in counted.entry[t][g].known \/ (t = s /\ g = f /\ x \in fresh)
  <2>1. s \in Sessions /\ f \in Files /\ counted \in Snaps /\ fresh \in SUBSET Findings
    BY <1>1, <1>4, <1>5
  <2> HIDE DEF s, found, fresh
  <2> QED BY <2>1, ScannedKept
<1> HIDE DEF scanned, found, fresh
<1>7. next \in HookStates /\ next2 \in HookStates /\ next3 \in HookStates
  <2>1. {f} \X fresh \subseteq Files \X Findings /\ {f} \X found \subseteq Files \X Findings
    BY <1>1, <1>5
  <2>2. next \in HookStates
    BY <1>1 DEF HookStates
  <2> HIDE DEF next
  <2> QED BY <1>1, <1>4, <1>6, <2>1, <2>2 DEF HookStates
<1>8. \A n \in {next, next2, next3} :
        n.pc = "scan" /\ n.session = s /\ n.patch = h.patch /\ Placed(n)
  BY <1>1 DEF HookStates, Placed
<1>9. /\ next.snap = h.snap /\ next.fresh = h.fresh /\ next.found = h.found
      /\ next2.snap = counted /\ next2.fresh = h.fresh /\ next2.found = h.found
      /\ next3.snap = scanned /\ next3.fresh = h.fresh \union ({f} \X fresh)
      /\ next3.found = h.found \union ({f} \X found)
  BY <1>1 DEF HookStates
<1>10. faults' = 0 => /\ faults = 0 /\ CachePromised
                      /\ SnapPromised(h) /\ FoundPromised(h)
  BY DEF HookInv, Promises
<1> HIDE DEF next, next2, next3, h
<1>11. h = hook[p]
  BY DEF h
<1>12. ASSUME NEW n \in {next, next2, next3}, hook' = [hook EXCEPT ![p] = n],
              faults' = 0 =>
                 /\ \A t \in Sessions \ Gated, g \in Files :
                       \A x \in n.snap.entry[t][g].known :
                           Promised(t, <<g, x>>) \/ OwnPromise(n, t, <<g, x>>)
                 /\ n.session \in Sessions \ Gated =>
                       \A g \in n.found : g \in n.fresh \/ Promised(n.session, g)
       PROVE  HookInv'
  <2>1. n \in HookStates /\ Placed(n) /\ n.pc = "scan"
    BY <1>7, <1>8
  <2>2. hook[p].pc # "answer"
    BY <1>1, <1>11
  <2>3. /\ content' \in [Files -> SUBSET Findings] /\ CacheOnDisk(cache') /\ config' \in Configs
        /\ told' \in [Sessions -> SUBSET (Files \X Findings)]
    BY <1>2 DEF HookInv, HookTypes
  <2> QED BY <1>2, <1>10, <1>12, <2>1, <2>2, <2>3, StepKeeps DEF CachePromised
<1>13. CASE hook' = [hook EXCEPT ![p] = next]
  BY <1>1, <1>8, <1>9, <1>10, <1>12, <1>13 DEF SnapPromised, FoundPromised, OwnPromise
<1>14. CASE hook' = [hook EXCEPT ![p] = next2]
  BY <1>1, <1>4, <1>8, <1>9, <1>10, <1>12, <1>14 DEF SnapPromised, FoundPromised, OwnPromise
<1>15. CASE hook' = [hook EXCEPT ![p] = next3]
  <2> SUFFICES ASSUME faults' = 0
               PROVE  /\ \A t \in Sessions \ Gated, g \in Files :
                            \A x \in next3.snap.entry[t][g].known :
                                Promised(t, <<g, x>>) \/ OwnPromise(next3, t, <<g, x>>)
                      /\ next3.session \in Sessions \ Gated =>
                            \A g \in next3.found :
                                g \in next3.fresh \/ Promised(next3.session, g)
    BY <1>12, <1>15
  <2>1. ASSUME NEW t \in Sessions \ Gated, NEW g \in Files, NEW x \in counted.entry[t][g].known
        PROVE  Promised(t, <<g, x>>) \/ OwnPromise(h, t, <<g, x>>)
    BY <1>1, <1>4, <1>10, <2>1 DEF SnapPromised
  <2>2. ASSUME NEW t \in Sessions \ Gated, NEW g \in Files, NEW x \in scanned.entry[t][g].known
        PROVE  Promised(t, <<g, x>>) \/ OwnPromise(next3, t, <<g, x>>)
    <3>1. CASE x \in counted.entry[t][g].known
      BY <1>8, <1>9, <2>1, <3>1 DEF OwnPromise, h
    <3>2. CASE t = s /\ g = f /\ x \in fresh
      BY <1>8, <1>9, <3>2 DEF OwnPromise
    <3> QED BY <1>6, <2>2, <3>1, <3>2
  <2>3. ASSUME next3.session \in Sessions \ Gated, NEW g \in next3.found
        PROVE  g \in next3.fresh \/ Promised(next3.session, g)
    <3>1. CASE g \in h.found
      BY <1>8, <1>9, <1>10, <2>3, <3>1 DEF FoundPromised
    <3>2. ASSUME NEW x \in found, g = <<f, x>>
          PROVE  g \in next3.fresh \/ Promised(next3.session, g)
      BY <1>1, <1>5, <1>8, <1>9, <2>1, <2>3, <3>2 DEF OwnPromise
    <3>3. g \in h.found \/ g \in {f} \X found
      BY <1>9, <2>3
    <3>4. g \in h.found \/ \E x \in found : g = <<f, x>>
      BY <3>3
    <3> QED BY <3>1, <3>2, <3>4
  <2>4. \A t \in Sessions \ Gated, g \in Files :
            \A x \in next3.snap.entry[t][g].known :
                Promised(t, <<g, x>>) \/ OwnPromise(next3, t, <<g, x>>)
    BY <2>2, <1>9
  <2>5. next3.session \in Sessions \ Gated =>
            \A g \in next3.found : g \in next3.fresh \/ Promised(next3.session, g)
    BY <2>3
  <2> QED BY <2>4, <2>5
<1> QED BY <1>3, <1>13, <1>14, <1>15
LEMMA CheckWriteKeeps ==
    ASSUME HookInv, NEW p \in Processes, NEW detected \in SUBSET Findings,
           CheckWrite(p, detected), faults' \in Nat, faults' = faults \/ faults' # 0
    PROVE  HookInv'
<1> DEFINE h == hook[p]
           s == h.session
           f == CHOOSE f \in Files : h.patch = {f}
           found == detected \ config.rules
           counted == BumpCursorDenial(cache, s, f, found)
           next == [h EXCEPT !.pc = "scan", !.fresh = {f} \X found, !.snap = counted,
                             !.count = counted.entry[s][f].denials[found]]
<1>1. h \in HookStates /\ Placed(h) /\ h.pc = "start" /\ s \in Sessions /\ s \in Gated
  BY DEF HookInv, HookTypes, CheckWrite, Placed
<1>2. f \in Files
  BY <1>1 DEF Placed
<1>3. found \in SUBSET Findings /\ cache \in Snaps /\ content \in [Files -> SUBSET Findings]
  BY DEF HookInv, HookTypes, CacheOnDisk
<1>4. UNCHANGED <<cache, config, told>>
  BY DEF CheckWrite, Step
<1>5. \/ hook' = [hook EXCEPT ![p] = Idle] /\ content' = Landed(p)
      \/ hook' = [hook EXCEPT ![p] = next] /\ content' = content
  BY DEF CheckWrite, ReadCache
<1>6. /\ counted \in Snaps /\ counted.entry[s][f].denials[found] \in Nat
      /\ \A t \in Sessions, g \in Files : counted.entry[t][g].known = cache.entry[t][g].known
  <2>1. s \in Sessions
    BY <1>1
  <2> HIDE DEF s, f, found
  <2> QED BY <1>2, <1>3, <2>1, BumpCursorDenialKept
<1>7. Landed(p) \in [Files -> SUBSET Findings]
  BY <1>1, <1>3 DEF Landed, HookStates
<1> HIDE DEF f, found, counted
<1>8. next \in HookStates
  <2>1. {f} \X found \subseteq Files \X Findings
    BY <1>2, <1>3
  <2> QED BY <1>1, <1>6, <2>1 DEF HookStates
<1>9. /\ next.pc = "scan" /\ next.session = s /\ next.patch = h.patch /\ next.snap = counted
      /\ Placed(next)
  BY <1>1 DEF HookStates, Placed
<1>10. Placed(Idle) /\ Idle.pc = "idle" /\ Idle.session \notin Sessions
  BY HookAssumption DEF Placed, Idle
<1>11. /\ CacheOnDisk(cache') /\ config' \in Configs
       /\ told' \in [Sessions -> SUBSET (Files \X Findings)]
       /\ content' \in [Files -> SUBSET Findings]
  BY <1>3, <1>4, <1>5, <1>7 DEF HookInv, HookTypes
<1>12. faults' = 0 => faults = 0 /\ CachePromised
  BY DEF HookInv, Promises
<1> HIDE DEF next
<1>13. CASE hook' = [hook EXCEPT ![p] = Idle]
  BY <1>1, <1>4, <1>10, <1>11, <1>12, <1>13, IdleIsHookState, StepKeeps DEF CachePromised
<1>14. CASE hook' = [hook EXCEPT ![p] = next]
  BY <1>1, <1>4, <1>6, <1>8, <1>9, <1>11, <1>12, <1>14, StepKeeps DEF CachePromised
<1> QED BY <1>5, <1>13, <1>14

LEMMA ScanKeeps ==
    ASSUME HookInv, NEW p \in Processes, Scan(p) \/ CheckWrite(p, hook[p].proposed),
           UNCHANGED faults
    PROVE  HookInv'
<1>1. content \in [Files -> SUBSET Findings] /\ hook[p] \in HookStates /\ faults' \in Nat
  BY DEF HookInv, HookTypes
<1>2. CASE Scan(p)
  <2>1. PICK f \in hook[p].todo : ScanFile(p, f, content[f])
    BY <1>2 DEF Scan
  <2>2. content[f] \in SUBSET Findings
    BY <1>1 DEF HookStates
  <2> QED BY <1>1, <2>1, <2>2, ScanFileKeeps
<1>3. CASE CheckWrite(p, hook[p].proposed)
  <2>1. hook[p].proposed \in SUBSET Findings
    BY <1>1 DEF HookStates
  <2> QED BY <1>1, <1>3, <2>1, CheckWriteKeeps
<1> QED BY <1>2, <1>3

LEMMA ScanThrowsKeeps ==
    ASSUME HookInv, NEW p \in Processes, ScanThrows(p)
    PROVE  HookInv'
<1>1. faults' \in Nat /\ faults' # 0 /\ {} \in SUBSET Findings
  BY DEF HookInv, HookTypes, ScanThrows
<1>2. CASE \E f \in hook[p].todo : ScanFile(p, f, {})
  BY <1>1, <1>2, ScanFileKeeps
<1>3. CASE CheckWrite(p, {})
  BY <1>1, <1>3, CheckWriteKeeps
<1> QED BY <1>2, <1>3 DEF ScanThrows

LEMMA TruncateKeeps ==
    ASSUME HookInv, NEW p \in Processes, Truncate(p)
    PROVE  HookInv'
<1> DEFINE h == hook[p]
           next == [h EXCEPT !.pc = "write"]
<1>1. h \in HookStates /\ Placed(h) /\ h.pc = "scan" /\ hook \in [Processes -> HookStates]
  BY DEF HookInv, HookTypes, Truncate
<1>2. UNCHANGED <<content, config, told, faults>> /\ cache' = Empty
  BY DEF Truncate, Step
<1>3. hook' = [hook EXCEPT ![p] = next]
  BY DEF Truncate
<1>4. next \in HookStates
  BY <1>1 DEF HookStates
<1>5. /\ next.pc = "write" /\ next.session = h.session /\ next.snap = h.snap
      /\ next.found = h.found /\ next.fresh = h.fresh /\ next.patch = h.patch
  BY <1>1 DEF HookStates
<1>6. Placed(next)
  BY <1>1, <1>5 DEF Placed
<1> HIDE DEF next
<1>7. CacheOnDisk(cache') /\ \A s \in Sessions, f \in Files : cache'.entry[s][f].known = {}
  BY <1>2, EmptyIsOnDisk DEF Empty, Unseen
<1>8. /\ content' \in [Files -> SUBSET Findings] /\ config' \in Configs
      /\ told' \in [Sessions -> SUBSET (Files \X Findings)] /\ faults' \in Nat
  BY <1>2 DEF HookInv, HookTypes
<1>9. faults' = 0 => faults = 0 /\ SnapPromised(h) /\ FoundPromised(h)
  BY <1>2 DEF HookInv, Promises
<1> QED BY <1>1, <1>2, <1>3, <1>4, <1>5, <1>6, <1>7, <1>8, <1>9, StepKeeps
        DEF SnapPromised, FoundPromised, OwnPromise

LEMMA ReportedTypes ==
    ASSUME HookInv, NEW p \in Processes, Running(p)
    PROVE  /\ Reported(p) \in HookStates /\ Placed(Reported(p)) /\ Reported(p).pc = "answer"
           /\ Reported(p).session = hook[p].session
           /\ Reported(p).found = hook[p].found /\ Reported(p).fresh = hook[p].fresh
<1> DEFINE h == hook[p]
<1>1. h \in HookStates /\ Placed(h) /\ h.pc # "idle"
  BY DEF HookInv, HookTypes, Running
<1>2. Empty \in Snaps /\ Idle.config \in Configs
  BY EmptyIsOnDisk DEF CacheOnDisk, Idle, Configs
<1>3. Reported(p) = [h EXCEPT !.pc = "answer", !.snap = Empty, !.config = Idle.config]
  BY DEF Reported
<1> HIDE DEF h
<1>4. /\ Reported(p) \in HookStates /\ Reported(p).pc = "answer"
      /\ Reported(p).session = h.session /\ Reported(p).patch = h.patch
      /\ Reported(p).found = h.found /\ Reported(p).fresh = h.fresh
  BY <1>1, <1>2, <1>3 DEF HookStates
<1> QED BY <1>1, <1>4 DEF Placed, h

LEMMA PersistKeeps ==
    ASSUME HookInv, NEW p \in Processes, Persist(p)
    PROVE  HookInv'
<1> DEFINE h == hook[p]
           next == Reported(p)
<1>1. h \in HookStates /\ h.pc = "write" /\ Running(p) /\ h.snap \in Snaps
  BY DEF HookInv, HookTypes, Persist, Running, HookStates
<1>2. UNCHANGED <<content, config, told, faults>> /\ cache' = Evicted(h.snap)
  BY DEF Persist, Step
<1>3. hook' = [hook EXCEPT ![p] = next]
  BY DEF Persist
<1>4. /\ next \in HookStates /\ Placed(next) /\ next.pc = "answer"
      /\ next.session = h.session /\ next.found = h.found /\ next.fresh = h.fresh
  BY <1>1, ReportedTypes
<1>5. /\ CacheOnDisk(cache')
      /\ \A s \in Sessions, f \in Files : cache'.entry[s][f].known \subseteq h.snap.entry[s][f].known
  BY <1>1, <1>2, EvictedKept
<1>6. /\ content' \in [Files -> SUBSET Findings] /\ config' \in Configs
      /\ told' \in [Sessions -> SUBSET (Files \X Findings)] /\ faults' \in Nat
  BY <1>2 DEF HookInv, HookTypes
<1>7. faults' = 0 => faults = 0 /\ SnapPromised(h) /\ FoundPromised(h)
  BY <1>2 DEF HookInv, Promises
<1> HIDE DEF next
<1> QED BY <1>1, <1>2, <1>3, <1>4, <1>5, <1>6, <1>7, StepKeeps
        DEF SnapPromised, FoundPromised, OwnPromise

LEMMA PersistFailsKeeps ==
    ASSUME HookInv, NEW p \in Processes, PersistFails(p)
    PROVE  HookInv'
<1>1. Running(p)
  BY DEF PersistFails, Running
<1>2. Reported(p) \in HookStates /\ Placed(Reported(p))
  BY <1>1, ReportedTypes
<1>3. faults' \in Nat /\ faults' # 0
  BY DEF HookInv, HookTypes, PersistFails
<1>4. UNCHANGED <<content, cache, config, told>> /\ hook' = [hook EXCEPT ![p] = Reported(p)]
  BY DEF PersistFails, Step
<1> QED BY <1>2, <1>3, <1>4, StepKeeps DEF HookInv, HookTypes

LEMMA AnswerKeeps ==
    ASSUME HookInv, NEW p \in Processes, Answer(p)
    PROVE  HookInv'
<1> DEFINE h == hook[p]
           s == h.session
<1>1. h \in HookStates /\ h.pc = "answer" /\ s \in Sessions
  BY DEF HookInv, HookTypes, Answer, Placed
<1>2. /\ UNCHANGED <<content, cache, config, faults>> /\ hook' = [hook EXCEPT ![p] = Idle]
      /\ told' = [told EXCEPT ![s] = @ \union h.fresh]
  BY DEF Answer, Step, Reminder
<1>3. told \in [Sessions -> SUBSET (Files \X Findings)] /\ h.fresh \subseteq Files \X Findings
  BY <1>1 DEF HookInv, HookTypes, HookStates
<1>4. /\ told' \in [Sessions -> SUBSET (Files \X Findings)]
      /\ \A t \in Sessions : told[t] \subseteq told'[t]
      /\ h.fresh \subseteq told'[s]
  BY <1>1, <1>2, <1>3
<1>5. Placed(Idle) /\ Idle.pc = "idle" /\ Idle.session \notin Sessions
  BY HookAssumption DEF Placed, Idle
<1>6. /\ content' \in [Files -> SUBSET Findings] /\ config' \in Configs
      /\ CacheOnDisk(cache') /\ faults' \in Nat
  BY <1>2 DEF HookInv, HookTypes
<1>7. faults' = 0 => faults = 0 /\ CachePromised
  BY <1>2 DEF HookInv, Promises
<1> QED BY <1>1, <1>2, <1>4, <1>5, <1>6, <1>7, IdleIsHookState, StepKeeps DEF CachePromised

LEMMA AnswerWriteKeeps ==
    ASSUME HookInv, NEW p \in Processes, AnswerWrite(p)
    PROVE  HookInv'
<1>1. hook[p] \in HookStates /\ hook[p].session \in Gated
  BY DEF HookInv, HookTypes, AnswerWrite
<1>2. UNCHANGED <<cache, config, told, faults>> /\ hook' = [hook EXCEPT ![p] = Idle]
  BY DEF AnswerWrite, Step
<1>3. content' \in [Files -> SUBSET Findings]
  <2>1. content' = content \/ content' = Landed(p)
    BY DEF AnswerWrite
  <2> QED BY <1>1, <2>1 DEF Landed, HookStates, HookInv, HookTypes
<1>4. Placed(Idle) /\ Idle.pc = "idle" /\ Idle.session \notin Sessions
  BY HookAssumption DEF Placed, Idle
<1>5. faults' = 0 => faults = 0 /\ CachePromised
  BY <1>2 DEF HookInv, Promises
<1> QED BY <1>1, <1>2, <1>3, <1>4, <1>5, IdleIsHookState, StepKeeps
        DEF HookInv, HookTypes, CachePromised

LEMMA KilledKeeps ==
    ASSUME HookInv, NEW p \in Processes, Killed(p)
    PROVE  HookInv'
<1>1. faults' \in Nat /\ faults' # 0 /\ hook[p] \in HookStates
  BY DEF HookInv, HookTypes, Killed
<1>2. UNCHANGED <<cache, config, told>> /\ hook' = [hook EXCEPT ![p] = Idle]
  BY DEF Killed, Step
<1>3. content' \in [Files -> SUBSET Findings]
  <2>1. content' = content \/ content' = Landed(p)
    BY DEF Killed
  <2> QED BY <1>1, <2>1 DEF Landed, HookStates, HookInv, HookTypes
<1>4. Placed(Idle)
  BY DEF Placed, Idle
<1> QED BY <1>1, <1>2, <1>3, <1>4, IdleIsHookState, StepKeeps DEF HookInv, HookTypes

LEMMA CommandKeeps ==
    ASSUME HookInv, Configure \/ Reset
    PROVE  HookInv'
<1>1. UNCHANGED <<content, hook, told, faults>>
  BY DEF Configure, Reset, Command, history
<1>2. config' \in Configs
  <2>1. Idle.config \in Configs
    BY DEF Idle, Configs
  <2>2. config \in Configs
    BY DEF HookInv, HookTypes
  <2>3. CASE Configure
    BY <2>2, <2>3 DEF Configure, Configs
  <2> QED BY <2>1, <2>3 DEF Reset
<1>3. cache' = cache \/ cache' = Empty
  BY DEF Configure, Reset
<1>4. HookTypes'
  BY <1>1, <1>2, <1>3, EmptyIsOnDisk DEF HookInv, HookTypes
<1>5. \A s, g : Promised(s, g)' <=> Promised(s, g)
  BY <1>1 DEF Promised
<1>6. CachePromised => CachePromised'
  <2>1. \A s \in Sessions, f \in Files : Empty.entry[s][f].known = {}
    BY DEF Empty, Unseen
  <2> QED BY <1>3, <1>5, <2>1 DEF CachePromised
<1>7. ASSUME NEW q \in Processes, SnapPromised(hook[q]), FoundPromised(hook[q])
      PROVE  SnapPromised(hook[q])' /\ FoundPromised(hook[q])'
  BY <1>1, <1>5, <1>7 DEF SnapPromised, FoundPromised, OwnPromise
<1>8. Promises'
  BY <1>1, <1>6, <1>7 DEF HookInv, Promises
<1> QED BY <1>4, <1>8 DEF HookInv

LEMMA UnchangedKeeps ==
    ASSUME HookInv, UNCHANGED vars
    PROVE  HookInv'
<1>1. UNCHANGED <<content, cache, config, hook, told, faults>>
  BY DEF vars, history, counters
<1>2. \A s, g : Promised(s, g)' <=> Promised(s, g)
  BY <1>1 DEF Promised
<1> QED BY <1>1, <1>2 DEF HookInv, HookTypes, Promises, CachePromised, SnapPromised, FoundPromised

-----------------------------------------------------------------------------
(* Counts of edits.                                                        *)

LEMMA CountedEdits ==
    ASSUME NEW h \in HookStates, h.session \in Sessions, NEW f \in Files,
           NEW t \in Sessions, NEW g \in Files
    PROVE  Counted(h, f).entry[t][g].edits =
               h.snap.entry[t][g].edits
               + (IF t = h.session /\ g = f /\ f \in h.patch THEN 1 ELSE 0)
<1> DEFINE s == h.session
           entry == [h.snap.entry EXCEPT ![s][f].edits = @ + 1]
<1>1. h.snap.entry \in [Sessions -> [Files -> Entry]]
  BY DEF HookStates, Snaps, Caches
<1>2. h.snap.entry[t][g] \in Entry /\ h.snap.entry[t][g].edits \in Nat
  BY <1>1 DEF Entry
<1>3. CASE f \in h.patch
  <2>1. Counted(h, f).entry = entry
    BY <1>3 DEF Counted, BumpEditCount, Updated
  <2>2. CASE t = s /\ g = f
    <3>1. entry[t][g].edits = h.snap.entry[t][g].edits + 1
      BY <1>1, <1>2, <2>2 DEF Entry
    <3> QED BY <1>3, <2>1, <2>2, <3>1
  <2>3. CASE ~(t = s /\ g = f)
    <3>1. entry[t][g] = h.snap.entry[t][g]
      BY <1>1, <2>3
    <3> HIDE DEF entry
    <3> QED BY <1>2, <2>1, <2>3, <3>1
  <2> QED BY <2>2, <2>3
<1>4. CASE f \notin h.patch
  BY <1>2, <1>4 DEF Counted
<1> QED BY <1>3, <1>4

LEMMA DenialEdits ==
    ASSUME NEW c \in Snaps, NEW s \in Sessions, NEW f \in Files, NEW found \in SUBSET Findings,
           NEW t \in Sessions, NEW g \in Files
    PROVE  BumpCursorDenial(c, s, f, found).entry[t][g].edits = c.entry[t][g].edits
<1> DEFINE entry == [c.entry EXCEPT ![s][f].denials[found] = @ + 1]
<1>1. c.entry \in [Sessions -> [Files -> Entry]]
  BY DEF Snaps, Caches
<1>2. entry[t][g].edits = c.entry[t][g].edits
  BY <1>1 DEF Entry
<1>3. BumpCursorDenial(c, s, f, found).entry = entry
  BY DEF BumpCursorDenial, Updated
<1> QED BY <1>2, <1>3

LEMMA ScannedEdits ==
    ASSUME NEW c \in Snaps, NEW s \in Sessions, NEW f \in Files, NEW found,
           NEW fresh \in SUBSET Findings, NEW t \in Sessions, NEW g \in Files
    PROVE  Scanned(c, s, f, found, fresh).entry[t][g].edits = c.entry[t][g].edits
<1> DEFINE entry == [c.entry EXCEPT ![s][f].known = @ \union fresh]
<1>1. c.entry \in [Sessions -> [Files -> Entry]]
  BY DEF Snaps, Caches
<1>2. entry[t][g].edits = c.entry[t][g].edits
  BY <1>1 DEF Entry
<1>3. \/ Scanned(c, s, f, found, fresh).entry = c.entry
      \/ Scanned(c, s, f, found, fresh).entry = entry
  BY DEF Scanned, Ensure, RememberFindings, Updated
<1> QED BY <1>2, <1>3

LEMMA EditsAreNat ==
    ASSUME NEW c \in Snaps, NEW s \in Sessions, NEW f \in Files
    PROVE  /\ c.entry[s][f].edits \in Nat /\ Empty.entry[s][f].edits = 0
           /\ \/ Evicted(c).entry[s][f].edits = c.entry[s][f].edits
              \/ Evicted(c).entry[s][f].edits = 0
<1>1. c.entry[s][f].edits \in Nat
  BY DEF Snaps, Caches, Entry
<1>2. Empty.entry[s][f].edits = 0
  BY DEF Empty, Unseen
<1>3. Evicted(c).entry[s] = c.entry[s] \/ Evicted(c).entry[s] = Empty.entry[s]
  BY DEF Evicted
<1> QED BY <1>1, <1>2, <1>3

\* The process counts its own edit at most, and then that is counted; the cache
\* becomes what it was, what the process holds, or empty.
CountsOnce(p, next) ==
    \A s \in Sessions, f \in Files :
        /\ Uncounted(next, s, f) => Uncounted(hook[p], s, f)
        /\ \/ cache'.entry[s][f].edits = 0
           \/ cache'.entry[s][f].edits = cache.entry[s][f].edits
           \/ cache'.entry[s][f].edits = hook[p].snap.entry[s][f].edits
        /\ \/ next.snap.entry[s][f].edits = 0
           \/ next.snap.entry[s][f].edits = cache.entry[s][f].edits
           \/ next.snap.entry[s][f].edits = hook[p].snap.entry[s][f].edits
           \/ /\ next.snap.entry[s][f].edits = hook[p].snap.entry[s][f].edits + 1
              /\ Uncounted(hook[p], s, f) /\ ~Uncounted(next, s, f)

\* Such a step keeps every count within the edits that were made.
LEMMA CountStep ==
    ASSUME HookInv, HookInv', Counting, NEW p \in Processes, NEW next \in HookStates,
           hook' = [hook EXCEPT ![p] = next], made' = made,
           next.session \in Gated => next.todo = {},
           CountsOnce(p, next)
    PROVE  Counting'
<1>1. hook \in [Processes -> HookStates]
  BY DEF HookInv, HookTypes
<1>2. hook'[p] = next /\ \A q \in Processes \ {p} : hook'[q] = hook[q]
  BY <1>1
<1>3. ASSUME NEW s \in Sessions, NEW f \in Files
      PROVE  /\ IsFiniteSet(Pending(s, f)')
             /\ WithinMade(cache, s, f)'
             /\ \A q \in Processes : WithinMade(hook[q].snap, s, f)'
  <2> DEFINE U == Pending(s, f)
             V == Pending(s, f)'
             old(c) == c.entry[s][f].edits
             n == Cardinality(V)
  <2>1. IsFiniteSet(U) /\ V \subseteq U
    <3>1. IsFiniteSet(U)
      BY DEF Counting
    <3>2. ASSUME NEW q \in Processes, Uncounted(hook'[q], s, f)
          PROVE  Uncounted(hook[q], s, f)
      <4>1. CASE q = p
        BY <1>2, <3>2, <4>1 DEF CountsOnce
      <4>2. CASE q # p
        BY <1>2, <3>2, <4>2
      <4> QED BY <4>1, <4>2
    <3>3. V = {q \in Processes : Uncounted(hook'[q], s, f)}
      BY DEF Pending, Uncounted
    <3>4. U = {q \in Processes : Uncounted(hook[q], s, f)}
      BY DEF Pending
    <3> HIDE DEF U, V
    <3> QED BY <3>1, <3>2, <3>3, <3>4
  <2>2. IsFiniteSet(V) /\ n <= Cardinality(U) /\ n \in Nat /\ Cardinality(U) \in Nat
    BY <2>1, FS_Subset, FS_CardinalityType
  <2>3. Uncounted(hook[p], s, f) /\ ~Uncounted(next, s, f) => n + 1 <= Cardinality(U)
    <3> SUFFICES ASSUME Uncounted(hook[p], s, f), ~Uncounted(next, s, f)
                 PROVE  n + 1 <= Cardinality(U)
      OBVIOUS
    <3>1. p \in U /\ V \in SUBSET (U \ {p})
      BY <1>2, <2>1 DEF Pending
    <3>2. IsFiniteSet(U \ {p}) /\ Cardinality(U \ {p}) = Cardinality(U) - 1
      BY <2>1, <3>1, FS_RemoveElement
    <3>3. n <= Cardinality(U \ {p})
      BY <3>1, <3>2, FS_Subset
    <3> HIDE DEF U, V, n
    <3> QED BY <2>2, <3>2, <3>3
  <2>4. /\ made[s][f] \in Nat
        /\ old(cache) + Cardinality(U) <= made[s][f]
        /\ \A q \in Processes : old(hook[q].snap) + Cardinality(U) <= made[s][f]
    BY DEF Counting, WithinMade
  <2>5. /\ old(cache) \in Nat
        /\ \A q \in Processes : old(hook[q].snap) \in Nat
    <3>1. cache \in Snaps /\ \A q \in Processes : hook[q].snap \in Snaps
      BY <1>1 DEF HookInv, HookTypes, CacheOnDisk, HookStates
    <3> QED BY <3>1, EditsAreNat
  <2>6. /\ \/ cache'.entry[s][f].edits = 0
           \/ cache'.entry[s][f].edits = old(cache)
           \/ cache'.entry[s][f].edits = old(hook[p].snap)
        /\ \/ old(next.snap) = 0
           \/ old(next.snap) = old(cache)
           \/ old(next.snap) = old(hook[p].snap)
           \/ /\ old(next.snap) = old(hook[p].snap) + 1
              /\ Uncounted(hook[p], s, f) /\ ~Uncounted(next, s, f)
    BY DEF CountsOnce
  <2> DEFINE m == Cardinality(U)
             a == old(cache)
             b == old(hook[p].snap)
             x == cache'.entry[s][f].edits
             y == old(next.snap)
             z == made[s][f]
             countsNow == Uncounted(hook[p], s, f) /\ ~Uncounted(next, s, f)
  <2>12. /\ n \in Nat /\ m \in Nat /\ n <= m /\ z \in Nat
         /\ a \in Nat /\ b \in Nat /\ a + m <= z /\ b + m <= z
         /\ countsNow => n + 1 <= m
    BY <2>2, <2>3, <2>4, <2>5
  <2>13. /\ x = 0 \/ x = a \/ x = b
         /\ y = 0 \/ y = a \/ y = b \/ (y = b + 1 /\ countsNow)
    BY <2>6
  <2> HIDE DEF U, V, n, m, a, b, x, y, z, countsNow
  <2>14. x + n <= z /\ y + n <= z
    BY <2>12, <2>13
  <2>7. cache'.entry[s][f].edits + n <= made[s][f]
    BY <2>14 DEF x, z
  <2>8. old(next.snap) + n <= made[s][f]
    BY <2>14 DEF y, z
  <2>9. \A q \in Processes \ {p} : old(hook[q].snap) + n <= made[s][f]
    BY <2>2, <2>4, <2>5
  <2>10. WithinMade(cache, s, f)'
    BY <2>7 DEF WithinMade, n, V
  <2>11. \A q \in Processes : WithinMade(hook[q].snap, s, f)'
    <3>1. WithinMade(hook[p].snap, s, f)'
      BY <1>2, <2>8 DEF WithinMade, n, V
    <3>2. \A q \in Processes \ {p} : WithinMade(hook[q].snap, s, f)'
      BY <1>2, <2>9 DEF WithinMade, n, V
    <3> QED BY <3>1, <3>2
  <2> QED BY <2>2, <2>10, <2>11 DEF V
<1>4. made' \in [Sessions -> [Files -> Nat]]
  BY DEF Counting
<1>5. \A q \in Processes : hook'[q].session \in Gated => hook'[q].todo = {}
  BY <1>2 DEF Counting
<1> QED BY <1>3, <1>4, <1>5 DEF Counting

\* A process that ends, or has never begun, has nothing to count.
LEMMA IdleIsCounted ==
    ASSUME NEW s, NEW f
    PROVE  ~Uncounted(Idle, s, f) /\ Idle.session \notin Gated /\ Idle.todo = {} /\ Idle.snap = Empty
BY HookAssumption DEF Uncounted, Idle

LEMMA EditCounts ==
    ASSUME HookInv, Counting, NEW p \in Processes, NEW s \in Sessions, NEW patch \in Patches,
           NEW after \in [Files -> SUBSET Findings], Edit(p, s, patch, after)
    PROVE  Counting'
<1> DEFINE next == [Idle EXCEPT !.pc = "start", !.session = s, !.patch = patch, !.proposed = {}]
<1>1. /\ next.pc = "start" /\ next.session = s /\ next.patch = patch /\ next.todo = {}
      /\ next.snap = Empty /\ s \notin Gated
  BY DEF Idle, Edit
<1>2. hook' = [hook EXCEPT ![p] = next] /\ hook[p].pc = "idle" /\ cache' = cache
  BY DEF Edit, Fire, Running
<1> HIDE DEF next
<1>3. hook \in [Processes -> HookStates] /\ made \in [Sessions -> [Files -> Nat]]
  BY DEF HookInv, HookTypes, Counting
<1>4. hook'[p] = next /\ \A q \in Processes \ {p} : hook'[q] = hook[q]
  BY <1>2, <1>3
<1>5. made' = [made EXCEPT ![s] = [f \in Files |-> IF f \in patch THEN made[s][f] + 1 ELSE made[s][f]]]
  BY DEF Edit
<1>6. made' \in [Sessions -> [Files -> Nat]]
  BY <1>3, <1>5
<1>7. ASSUME NEW t \in Sessions, NEW f \in Files
      PROVE  /\ IsFiniteSet(Pending(t, f)')
             /\ WithinMade(cache, t, f)'
             /\ \A q \in Processes : WithinMade(hook[q].snap, t, f)'
  <2> DEFINE U == Pending(t, f)
             V == Pending(t, f)'
             n == IF t = s /\ f \in patch THEN 1 ELSE 0
  <2>1. IsFiniteSet(U) /\ p \notin U
    BY <1>2 DEF Counting, Pending, Uncounted
  <2>2. V = IF t = s /\ f \in patch THEN U \union {p} ELSE U
    BY <1>1, <1>2, <1>4 DEF Pending, Uncounted
  <2>3. IsFiniteSet(V) /\ Cardinality(V) = Cardinality(U) + n /\ Cardinality(U) \in Nat
    BY <2>1, <2>2, FS_AddElement, FS_CardinalityType
  <2>4. made'[t][f] = made[t][f] + n
    BY <1>3, <1>5
  <2>5. /\ cache.entry[t][f].edits + Cardinality(U) <= made[t][f]
        /\ \A q \in Processes : hook[q].snap.entry[t][f].edits + Cardinality(U) <= made[t][f]
    BY DEF Counting, WithinMade
  <2>6. cache.entry[t][f].edits \in Nat /\ made[t][f] \in Nat
        /\ \A q \in Processes : hook[q].snap.entry[t][f].edits \in Nat
    <3>1. cache \in Snaps /\ \A q \in Processes : hook[q].snap \in Snaps
      BY <1>3 DEF HookInv, HookTypes, CacheOnDisk, HookStates
    <3> QED BY <1>3, <3>1, EditsAreNat
  <2>7. next.snap.entry[t][f].edits = 0
    BY <1>1 DEF Empty, Unseen
  <2> HIDE DEF U, V
  <2>8. /\ cache'.entry[t][f].edits + Cardinality(V) <= made'[t][f]
        /\ \A q \in Processes \ {p} : hook[q].snap.entry[t][f].edits + Cardinality(V) <= made'[t][f]
        /\ next.snap.entry[t][f].edits + Cardinality(V) <= made'[t][f]
    BY <1>2, <2>3, <2>4, <2>5, <2>6, <2>7
  <2>9. WithinMade(cache, t, f)'
    BY <2>8 DEF WithinMade, V
  <2>10. ASSUME NEW q \in Processes PROVE WithinMade(hook[q].snap, t, f)'
    BY <1>4, <2>8 DEF WithinMade, V
  <2> QED BY <2>3, <2>9, <2>10 DEF V
<1>8. \A q \in Processes : hook'[q].session \in Gated => hook'[q].todo = {}
  BY <1>1, <1>4 DEF Counting
<1> QED BY <1>6, <1>7, <1>8 DEF Counting

\* A step that leaves a process idle.
LEMMA EndCounts ==
    ASSUME HookInv, HookInv', Counting, NEW p \in Processes, hook' = [hook EXCEPT ![p] = Idle],
           UNCHANGED <<cache, made>>
    PROVE  Counting'
<1>0. Idle.snap = Empty
  BY DEF Idle
<1>1. \A s \in Sessions, f \in Files : Idle.snap.entry[s][f].edits = 0
  BY <1>0 DEF Empty, Unseen
<1>2. CountsOnce(p, Idle)
  BY <1>1, IdleIsCounted DEF CountsOnce
<1>3. Idle.session \in Gated => Idle.todo = {}
  BY DEF Idle
<1> QED BY <1>2, <1>3, IdleIsHookState, CountStep

LEMMA ProposeCounts ==
    ASSUME HookInv, HookInv', Counting, NEW p \in Processes, NEW s \in Sessions, NEW f \in Files,
           NEW after \in SUBSET Findings, Propose(p, s, f, after)
    PROVE  Counting'
<1> DEFINE next == [Idle EXCEPT !.pc = "start", !.session = s, !.patch = {f}, !.proposed = after]
<1>1. next \in HookStates
  BY IdleIsHookState DEF HookStates
<1>2. next.session = s /\ s \in Gated /\ next.todo = {} /\ next.snap = Empty
  BY DEF Idle, Propose
<1>3. hook' = [hook EXCEPT ![p] = next] /\ UNCHANGED <<cache, made>>
  BY DEF Propose, Fire
<1> HIDE DEF next
<1>4. \A t \in Sessions, g \in Files : ~Uncounted(next, t, g) /\ next.snap.entry[t][g].edits = 0
  BY <1>2 DEF Uncounted, Empty, Unseen
<1>5. CountsOnce(p, next)
  BY <1>3, <1>4 DEF CountsOnce
<1> QED BY <1>1, <1>2, <1>3, <1>5, CountStep

LEMMA StartHookCounts ==
    ASSUME HookInv, HookInv', Counting, NEW p \in Processes, StartHook(p)
    PROVE  Counting'
<1> DEFINE h == hook[p]
           next == [h EXCEPT !.pc = "scan", !.todo = Targets(h.patch),
                             !.config = config, !.snap = cache]
<1>1. h \in HookStates /\ h.pc = "start" /\ h.session \notin Gated
  BY DEF HookInv, HookTypes, StartHook
<1>2. UNCHANGED <<cache, made>>
  BY DEF StartHook, Step
<1>3. CASE config.enabled
  <2>1. hook' = [hook EXCEPT ![p] = next]
    BY <1>3 DEF StartHook, ReadCache
  <2>2. next \in HookStates
    <3>1. hook'[p] = next
      BY <2>1 DEF HookInv, HookTypes
    <3> QED BY <3>1 DEF HookInv, HookTypes
  <2>3. next.session = h.session /\ next.patch = h.patch /\ next.snap = cache
    BY <1>1 DEF HookStates
  <2>4. \A s \in Sessions, f \in Files : Uncounted(next, s, f) => Uncounted(h, s, f)
    BY <1>1, <2>3 DEF Uncounted
  <2> HIDE DEF next
  <2>5. CountsOnce(p, next)
    BY <1>2, <2>3, <2>4 DEF CountsOnce
  <2> QED BY <1>1, <1>2, <2>1, <2>2, <2>3, <2>5, CountStep
<1>4. CASE ~config.enabled
  BY <1>2, <1>4, EndCounts DEF StartHook
<1> QED BY <1>3, <1>4

LEMMA ScanFileCounts ==
    ASSUME HookInv, HookInv', Counting, NEW p \in Processes, NEW f \in hook[p].todo,
           NEW detected \in SUBSET Findings, ScanFile(p, f, detected)
    PROVE  Counting'
<1> DEFINE h == hook[p]
           s == h.session
           counted == Counted(h, f)
           found == detected \ h.config.rules
           fresh == Fresh(counted, s, f, found)
           scanned == Scanned(counted, s, f, found, fresh)
           next == [h EXCEPT !.todo = @ \ {f}]
           next2 == [next EXCEPT !.snap = counted]
           next3 == [next EXCEPT !.snap = scanned,
                                 !.fresh = @ \union ({f} \X fresh),
                                 !.found = @ \union ({f} \X found)]
<1>1. /\ h \in HookStates /\ h.pc = "scan" /\ f \in Files /\ s \in Sessions \ Gated
      /\ f \in h.todo
  BY DEF HookInv, HookTypes, ScanFile, Placed, HookStates, Counting
<1>2. UNCHANGED <<cache, made>>
  BY DEF ScanFile, Step
<1>3. \/ hook' = [hook EXCEPT ![p] = next]
      \/ hook' = [hook EXCEPT ![p] = next2]
      \/ hook' = [hook EXCEPT ![p] = next3]
  BY DEF ScanFile
<1>4. counted \in Snaps
  BY <1>1, CountedKept
<1>5. \A t \in Sessions, g \in Files :
          counted.entry[t][g].edits =
              h.snap.entry[t][g].edits + (IF t = s /\ g = f /\ f \in h.patch THEN 1 ELSE 0)
  BY <1>1, CountedEdits
<1> HIDE DEF counted
<1>6. \A t \in Sessions, g \in Files : scanned.entry[t][g].edits = counted.entry[t][g].edits
  <2>1. s \in Sessions /\ f \in Files /\ fresh \in SUBSET Findings
    BY <1>1 DEF Fresh
  <2> HIDE DEF s, found, fresh
  <2> QED BY <1>4, <2>1, ScannedEdits
<1> HIDE DEF scanned, found, fresh
<1>7. \A n \in {next, next2, next3} :
        n.pc = "scan" /\ n.session = s /\ n.patch = h.patch /\ n.todo = h.todo \ {f}
  <2>1. /\ next.pc = "scan" /\ next.session = s /\ next.patch = h.patch
        /\ next.todo = h.todo \ {f} /\ next \in HookStates
    BY <1>1 DEF HookStates
  <2> HIDE DEF next
  <2> QED BY <2>1 DEF HookStates
<1>8. next.snap = h.snap /\ next2.snap = counted /\ next3.snap = scanned
  BY <1>1 DEF HookStates
<1> HIDE DEF next, next2, next3
<1>9. PICK n \in {next, next2, next3} : hook' = [hook EXCEPT ![p] = n]
  BY <1>3
<1>10. n \in HookStates
  <2>1. hook'[p] = n
    BY <1>9 DEF HookInv, HookTypes
  <2> QED BY <2>1 DEF HookInv, HookTypes
<1>11. ASSUME NEW t \in Sessions, NEW g \in Files
       PROVE  /\ Uncounted(n, t, g) => Uncounted(h, t, g)
              /\ \/ n.snap.entry[t][g].edits = h.snap.entry[t][g].edits
                 \/ /\ n.snap.entry[t][g].edits = h.snap.entry[t][g].edits + 1
                    /\ Uncounted(h, t, g) /\ ~Uncounted(n, t, g)
  <2>1. Uncounted(n, t, g) => Uncounted(h, t, g)
    BY <1>1, <1>7 DEF Uncounted
  <2>2. t = s /\ g = f /\ f \in h.patch => Uncounted(h, t, g) /\ ~Uncounted(n, t, g)
    BY <1>1, <1>7 DEF Uncounted
  <2>3. h.snap.entry[t][g].edits \in Nat
    BY <1>1, EditsAreNat DEF HookStates
  <2>4. \/ n.snap.entry[t][g].edits = h.snap.entry[t][g].edits
        \/ n.snap.entry[t][g].edits = counted.entry[t][g].edits
    BY <1>6, <1>8
  <2> QED BY <1>5, <2>1, <2>2, <2>3, <2>4
<1>12. n.session \notin Gated
  BY <1>1, <1>7
<1>13. CountsOnce(p, n)
  BY <1>2, <1>11 DEF CountsOnce, h
<1> QED BY <1>2, <1>9, <1>10, <1>12, <1>13, CountStep

LEMMA CheckWriteCounts ==
    ASSUME HookInv, HookInv', Counting, NEW p \in Processes, NEW detected \in SUBSET Findings,
           CheckWrite(p, detected)
    PROVE  Counting'
<1> DEFINE h == hook[p]
           s == h.session
           f == CHOOSE f \in Files : h.patch = {f}
           found == detected \ config.rules
           counted == BumpCursorDenial(cache, s, f, found)
           next == [h EXCEPT !.pc = "scan", !.fresh = {f} \X found, !.snap = counted,
                             !.count = counted.entry[s][f].denials[found]]
<1>1. h \in HookStates /\ Placed(h) /\ h.pc = "start" /\ s \in Sessions /\ s \in Gated
  BY DEF HookInv, HookTypes, CheckWrite, Placed
<1>2. f \in Files /\ found \in SUBSET Findings /\ cache \in Snaps
  BY <1>1 DEF Placed, HookInv, HookTypes, CacheOnDisk
<1>3. UNCHANGED <<cache, made>>
  BY DEF CheckWrite, Step
<1>4. \/ hook' = [hook EXCEPT ![p] = Idle]
      \/ hook' = [hook EXCEPT ![p] = next]
  BY DEF CheckWrite, ReadCache
<1>5. \A t \in Sessions, g \in Files : counted.entry[t][g].edits = cache.entry[t][g].edits
  <2>1. s \in Sessions
    BY <1>1
  <2> HIDE DEF s, f, found
  <2> QED BY <1>2, <2>1, DenialEdits
<1> HIDE DEF f, found, counted
<1>6. next.session = s /\ next.todo = h.todo /\ next.snap = counted
  BY <1>1 DEF HookStates
<1> HIDE DEF next
<1>7. CASE hook' = [hook EXCEPT ![p] = Idle]
  BY <1>3, <1>7, EndCounts
<1>8. CASE hook' = [hook EXCEPT ![p] = next]
  <2>1. next \in HookStates
    <3>1. hook'[p] = next
      BY <1>8 DEF HookInv, HookTypes
    <3> QED BY <3>1 DEF HookInv, HookTypes
  <2>2. next.todo = {}
    BY <1>1, <1>6 DEF Counting
  <2>3. \A t \in Sessions, g \in Files : ~Uncounted(next, t, g)
    BY <1>1, <1>6 DEF Uncounted
  <2>4. CountsOnce(p, next)
    BY <1>3, <1>5, <1>6, <2>3 DEF CountsOnce
  <2> QED BY <1>3, <1>8, <2>1, <2>2, <2>4, CountStep
<1> QED BY <1>4, <1>7, <1>8

LEMMA ScanCounts ==
    ASSUME HookInv, HookInv', Counting, NEW p \in Processes,
           Scan(p) \/ CheckWrite(p, hook[p].proposed) \/ ScanThrows(p)
    PROVE  Counting'
<1>1. /\ content \in [Files -> SUBSET Findings] /\ hook[p] \in HookStates
      /\ {} \in SUBSET Findings
  BY DEF HookInv, HookTypes
<1>2. ASSUME NEW f \in hook[p].todo, ScanFile(p, f, content[f]) \/ ScanFile(p, f, {})
      PROVE  Counting'
  <2>1. content[f] \in SUBSET Findings
    BY <1>1 DEF HookStates
  <2> QED BY <1>1, <1>2, <2>1, ScanFileCounts
<1>3. hook[p].proposed \in SUBSET Findings
  BY <1>1 DEF HookStates
<1> QED BY <1>1, <1>2, <1>3, CheckWriteCounts DEF Scan, ScanThrows

LEMMA TruncateCounts ==
    ASSUME HookInv, HookInv', Counting, NEW p \in Processes, Truncate(p)
    PROVE  Counting'
<1> DEFINE h == hook[p]
           next == [h EXCEPT !.pc = "write"]
<1>1. h \in HookStates
  BY DEF HookInv, HookTypes
<1>2. next \in HookStates
  BY <1>1 DEF HookStates
<1>3. /\ next.pc = "write" /\ next.session = h.session /\ next.todo = h.todo
      /\ next.snap = h.snap
  BY <1>1 DEF HookStates
<1>4. hook' = [hook EXCEPT ![p] = next] /\ cache' = Empty /\ made' = made
  BY DEF Truncate, Step
<1> HIDE DEF next
<1>5. \A s \in Sessions, f \in Files : ~Uncounted(next, s, f) /\ cache'.entry[s][f].edits = 0
  BY <1>3, <1>4 DEF Uncounted, Empty, Unseen
<1>6. next.session \in Gated => next.todo = {}
  BY <1>3 DEF Counting
<1>7. CountsOnce(p, next)
  BY <1>3, <1>5 DEF CountsOnce
<1> QED BY <1>2, <1>4, <1>6, <1>7, CountStep

LEMMA ReportCounts ==
    ASSUME HookInv, HookInv', Counting, NEW p \in Processes, Persist(p) \/ PersistFails(p)
    PROVE  Counting'
<1>1. hook[p] \in HookStates /\ hook[p].snap \in Snaps /\ Running(p)
  BY DEF HookInv, HookTypes, HookStates, Persist, PersistFails, Running
<1>2. /\ hook' = [hook EXCEPT ![p] = Reported(p)] /\ made' = made
      /\ cache' = cache \/ cache' = Evicted(hook[p].snap)
  BY DEF Persist, PersistFails, Step
<1>3. Reported(p) \in HookStates /\ Reported(p).pc = "answer"
      /\ Reported(p).session = hook[p].session
  BY <1>1, ReportedTypes
<1>4. Reported(p).snap = Empty /\ Reported(p).todo = hook[p].todo
  BY <1>1 DEF Reported, HookStates
<1>5. ASSUME NEW s \in Sessions, NEW f \in Files
      PROVE  /\ ~Uncounted(Reported(p), s, f)
             /\ Reported(p).snap.entry[s][f].edits = 0
             /\ \/ cache'.entry[s][f].edits = 0
                \/ cache'.entry[s][f].edits = cache.entry[s][f].edits
                \/ cache'.entry[s][f].edits = hook[p].snap.entry[s][f].edits
  BY <1>1, <1>2, <1>3, <1>4, EditsAreNat DEF Uncounted
<1>6. Reported(p).session \in Gated => Reported(p).todo = {}
  BY <1>3, <1>4 DEF Counting
<1> DEFINE next == Reported(p)
<1>7. /\ next \in HookStates /\ hook' = [hook EXCEPT ![p] = next] /\ made' = made
      /\ next.session \in Gated => next.todo = {}
  BY <1>2, <1>3, <1>6
<1>8. CountsOnce(p, next)
  BY <1>5 DEF CountsOnce
<1> HIDE DEF next
<1> QED BY <1>7, <1>8, CountStep

LEMMA EndsCount ==
    ASSUME HookInv, HookInv', Counting, NEW p \in Processes,
           Answer(p) \/ AnswerWrite(p) \/ Killed(p)
    PROVE  Counting'
<1>1. hook' = [hook EXCEPT ![p] = Idle] /\ UNCHANGED <<cache, made>>
  BY DEF Answer, AnswerWrite, Killed, Step
<1> QED BY <1>1, EndCounts

LEMMA OthersCount ==
    ASSUME HookInv, HookInv', Counting, Configure \/ Reset \/ UNCHANGED vars
    PROVE  Counting'
<1>1. UNCHANGED <<hook, made>> /\ (cache' = cache \/ cache' = Empty)
  BY DEF Configure, Reset, Command, vars, history
<1>2. \A s \in Sessions, f \in Files : Pending(s, f)' = Pending(s, f)
  BY <1>1 DEF Pending
<1>3. ASSUME NEW s \in Sessions, NEW f \in Files PROVE WithinMade(cache, s, f)'
  <2>1. WithinMade(cache, s, f) /\ IsFiniteSet(Pending(s, f)) /\ made[s][f] \in Nat
    BY DEF Counting
  <2>2. Cardinality(Pending(s, f)) \in Nat /\ cache.entry[s][f].edits \in Nat
    <3>1. cache \in Snaps
      BY DEF HookInv, HookTypes, CacheOnDisk
    <3> QED BY <2>1, <3>1, FS_CardinalityType, EditsAreNat
  <2>3. Empty.entry[s][f].edits = 0
    BY DEF Empty, Unseen
  <2>4. cache'.entry[s][f].edits + Cardinality(Pending(s, f)) <= made[s][f]
    BY <1>1, <2>1, <2>2, <2>3 DEF WithinMade
  <2> QED BY <1>1, <1>2, <2>4 DEF WithinMade
<1>4. ASSUME NEW s \in Sessions, NEW f \in Files, NEW p \in Processes
      PROVE  WithinMade(hook[p].snap, s, f)'
  BY <1>1, <1>2 DEF WithinMade, Counting
<1> QED BY <1>1, <1>2, <1>3, <1>4 DEF Counting

-----------------------------------------------------------------------------
(* Theorems.                                                               *)

\* The design hook's processes start with an empty cache and nothing to tell,
\* and no operation of hook.mjs, hook-before-edit.mjs or hook-admin.mjs breaks
\* the inductive invariant.
THEOREM HookInvariant == Spec => []HookInv
<1>1. Init => HookInv
  <2> SUFFICES ASSUME Init PROVE HookInv
    OBVIOUS
  <2>1. Placed(Idle) /\ Idle.pc = "idle" /\ Idle.session \notin Sessions /\ Idle.config \in Configs
    BY HookAssumption DEF Placed, Idle, Configs
  <2>2. HookTypes
    BY <2>1, EmptyIsOnDisk, IdleIsHookState DEF Init, HookTypes
  <2>3. CachePromised
    BY DEF Init, CachePromised, Empty, Unseen
  <2>4. \A p \in Processes : SnapPromised(hook[p]) /\ FoundPromised(hook[p])
    BY <2>1 DEF Init, SnapPromised, FoundPromised
  <2> QED BY <2>2, <2>3, <2>4 DEF HookInv, Promises
<1>2. HookInv /\ [Next]_vars => HookInv'
  <2> SUFFICES ASSUME HookInv, [Next]_vars PROVE HookInv'
    OBVIOUS
  <2>1. ASSUME NEW p \in Processes, NEW s \in Sessions, NEW patch \in Patches,
               NEW after \in [Files -> SUBSET Findings], Edit(p, s, patch, after)
        PROVE  HookInv'
    BY <2>1, EditKeeps
  <2>2. ASSUME NEW p \in Processes, NEW s \in Sessions, NEW f \in Files,
               NEW after \in SUBSET Findings, Propose(p, s, f, after)
        PROVE  HookInv'
    BY <2>2, ProposeKeeps
  <2>3. ASSUME NEW p \in Processes, HookStep(p)
        PROVE  HookInv'
    BY <2>3, StartHookKeeps, ScanKeeps, TruncateKeeps, PersistKeeps, AnswerKeeps,
       AnswerWriteKeeps DEF HookStep
  <2>4. ASSUME NEW p \in Processes, ScanThrows(p) \/ PersistFails(p) \/ Killed(p)
        PROVE  HookInv'
    BY <2>4, ScanThrowsKeeps, PersistFailsKeeps, KilledKeeps
  <2>5. CASE Configure \/ Reset
    BY <2>5, CommandKeeps
  <2>6. CASE UNCHANGED vars
    BY <2>6, UnchangedKeeps
  <2> QED BY <2>1, <2>2, <2>3, <2>4, <2>5, <2>6 DEF Next
<1> QED BY <1>1, <1>2, PTL DEF Spec

\* The cache file of persistCache has at most MaxSessions sessions, each once,
\* and nothing of any other session.
THEOREM HookTypeCorrect == Spec => []TypeOK
<1>1. HookInv => TypeOK
  BY DEF HookInv, HookTypes, TypeOK, CacheOnDisk, Snaps, Distinct, HookStates
<1> QED BY <1>1, HookInvariant, PTL

\* An agent that gets the answer of a hook was told of all that was found in the
\* files the hook scanned, or another answer with it is on its way, whatever
\* overlapped, was forgotten or was evicted (dedupeAgainstCache).
THEOREM HookKeepsNothing == Spec => NothingIsKept
<1> DEFINE ToldOf(p) ==
        \A g \in hook[p].found :
            \/ g \in told'[hook[p].session]
            \/ \E q \in Processes : hook'[q].pc = "answer" /\ hook'[q].session = hook[p].session
                                    /\ g \in hook'[q].fresh
<1>1. ASSUME HookInv, NEW p \in Processes, Answer(p), faults = 0
      PROVE  ToldOf(p)
  <2> DEFINE s == hook[p].session
  <2>1. /\ s \in Sessions \ Gated /\ hook[p].fresh \subseteq told'[s] /\ told[s] \subseteq told'[s]
        /\ \A q \in Processes \ {p} : hook'[q] = hook[q]
    BY <1>1 DEF Answer, Reminder, HookInv, HookTypes, Placed
  <2>2. FoundPromised(hook[p])
    BY <1>1 DEF HookInv, Promises
  <2> QED BY <2>1, <2>2 DEF FoundPromised, Promised
<1>2. HookInv => \A p \in Processes :
        Answer(p) /\ faults = 0 =>
            LET s == hook[p].session
            IN  \A g \in hook[p].found :
                    \/ g \in told'[s]
                    \/ \E q \in Processes : hook'[q].pc = "answer" /\ hook'[q].session = s
                                            /\ g \in hook'[q].fresh
  BY <1>1
<1> QED BY <1>2, HookInvariant, PTL DEF NothingIsKept

\* Every edit is counted at most once.
LEMMA HookCounting == Spec => []Counting
<1>1. Init => Counting
  <2> SUFFICES ASSUME Init PROVE Counting
    OBVIOUS
  <2>1. \A s \in Sessions, f \in Files : Pending(s, f) = {}
    BY IdleIsCounted DEF Init, Pending
  <2>2. \A s \in Sessions, f \in Files : Empty.entry[s][f].edits = 0 /\ made[s][f] = 0
    BY DEF Init, Empty, Unseen
  <2>3. Idle.snap = Empty /\ Idle.todo = {} /\ cache = Empty /\ \A p \in Processes : hook[p] = Idle
    BY DEF Init, Idle
  <2>4. made \in [Sessions -> [Files -> Nat]]
    BY DEF Init
  <2>5. \A s \in Sessions, f \in Files : WithinMade(Empty, s, f)
    <3> TAKE s \in Sessions, f \in Files
    <3>1. Cardinality(Pending(s, f)) = 0
      BY <2>1, FS_EmptySet
    <3>2. Empty.entry[s][f].edits = 0 /\ made[s][f] = 0
      BY <2>2
    <3> QED BY <3>1, <3>2 DEF WithinMade
  <2> QED BY <2>1, <2>3, <2>4, <2>5, FS_EmptySet DEF Counting
<1>2. HookInv /\ HookInv' /\ Counting /\ [Next]_vars => Counting'
  <2> SUFFICES ASSUME HookInv, HookInv', Counting, [Next]_vars PROVE Counting'
    OBVIOUS
  <2>1. ASSUME NEW p \in Processes, NEW s \in Sessions, NEW patch \in Patches,
               NEW after \in [Files -> SUBSET Findings], Edit(p, s, patch, after)
        PROVE  Counting'
    BY <2>1, EditCounts
  <2>2. ASSUME NEW p \in Processes, NEW s \in Sessions, NEW f \in Files,
               NEW after \in SUBSET Findings, Propose(p, s, f, after)
        PROVE  Counting'
    BY <2>2, ProposeCounts
  <2>3. ASSUME NEW p \in Processes, HookStep(p)
        PROVE  Counting'
    BY <2>3, StartHookCounts, ScanCounts, TruncateCounts, ReportCounts, EndsCount DEF HookStep
  <2>4. ASSUME NEW p \in Processes, ScanThrows(p) \/ PersistFails(p) \/ Killed(p)
        PROVE  Counting'
    BY <2>4, ScanCounts, ReportCounts, EndsCount
  <2>5. CASE Configure \/ Reset \/ UNCHANGED vars
    BY <2>5, OthersCount
  <2> QED BY <2>1, <2>2, <2>3, <2>4, <2>5 DEF Next
<1> QED BY <1>1, <1>2, HookInvariant, PTL DEF Spec

\* No file is held to be edited more often than it was (bumpEditCount), however
\* many processes overlap and whichever of them overwrites the cache.
THEOREM HookCountsEdits == Spec => []CountedWasMade
<1>1. HookInv /\ Counting => CountedWasMade
  <2> SUFFICES ASSUME HookInv, Counting, NEW s \in Sessions, NEW f \in Files
               PROVE  cache.entry[s][f].edits <= made[s][f]
    BY DEF CountedWasMade
  <2>1. WithinMade(cache, s, f) /\ Cardinality(Pending(s, f)) \in Nat /\ made[s][f] \in Nat
    BY FS_CardinalityType DEF Counting
  <2>2. cache \in Snaps
    BY DEF HookInv, HookTypes, CacheOnDisk
  <2>3. cache.entry[s][f].edits \in Nat
    BY <2>2, EditsAreNat
  <2> QED BY <2>1, <2>3 DEF WithinMade
<1> QED BY <1>1, HookInvariant, HookCounting, PTL


-----------------------------------------------------------------------------
(* What is told and denied one by one.                                     *)

LEMMA LatestIs ==
    ASSUME NEW processes, NEW c
    PROVE  /\ \A p \in Processes :
                 Holding(processes[p]) /\ (\A q \in Processes \ {p} : ~Holding(processes[q]))
                     => LatestOf(processes, c) = processes[p].snap
           /\ (\A p \in Processes : ~Holding(processes[p])) => LatestOf(processes, c) = c
<1>1. ASSUME NEW p \in Processes, Holding(processes[p]),
             \A q \in Processes \ {p} : ~Holding(processes[q])
      PROVE  LatestOf(processes, c) = processes[p].snap
  <2> DEFINE h == CHOOSE q \in Processes : Holding(processes[q])
  <2>1. h \in Processes /\ Holding(processes[h])
    BY <1>1
  <2>2. h = p
    BY <1>1, <2>1
  <2> HIDE DEF h
  <2> QED BY <1>1, <2>2 DEF LatestOf, h
<1> QED BY <1>1 DEF LatestOf

LEMMA UpdatedKept ==
    ASSUME NEW c \in Snaps, Kept(c), NEW s \in Sessions, NEW entry \in Entries,
           \A t \in Sessions \ {s} : entry[t] = c.entry[t]
    PROVE  Kept(Updated(c, s, entry))
BY UpdatedIsSnap DEF Kept

LEMMA BumpEditCountExact ==
    ASSUME NEW c \in Snaps, NEW s \in Sessions, NEW f \in Files
    PROVE  /\ Kept(c) => Kept(BumpEditCount(c, s, f))
           /\ \A t \in Sessions, g \in Files :
                 BumpEditCount(c, s, f).entry[t][g].denials = c.entry[t][g].denials
<1> DEFINE entry == [c.entry EXCEPT ![s][f].edits = @ + 1]
<1>1. c.entry \in [Sessions -> [Files -> Entry]]
  BY DEF Snaps, Caches
<1>2. c.entry[s][f] \in Entry /\ c.entry[s] \in [Files -> Entry]
  BY <1>1
<1>3. [c.entry[s][f] EXCEPT !.edits = @ + 1] \in Entry
  BY <1>2 DEF Entry
<1>4. /\ entry \in Entries
      /\ \A t \in Sessions, g \in Files : entry[t][g].denials = c.entry[t][g].denials
  BY <1>1, <1>2, <1>3 DEF Entries, Entry
<1>5. \A t \in Sessions \ {s} : entry[t] = c.entry[t]
  BY <1>1
<1> HIDE DEF entry
<1>6. BumpEditCount(c, s, f) = Updated(c, s, entry)
  BY DEF BumpEditCount, entry
<1> QED BY <1>4, <1>5, <1>6, UpdatedIsSnap, UpdatedKept

LEMMA CountedExact ==
    ASSUME NEW h \in HookStates, h.session \in Sessions, NEW f \in Files, Kept(h.snap)
    PROVE  /\ Kept(Counted(h, f))
           /\ \A t \in Sessions, g \in Files :
                 Counted(h, f).entry[t][g].denials = h.snap.entry[t][g].denials
<1>1. h.snap \in Snaps
  BY DEF HookStates
<1>2. CASE f \in h.patch
  <2>1. Counted(h, f) = BumpEditCount(h.snap, h.session, f)
    BY <1>2 DEF Counted
  <2> QED BY <1>1, <2>1, BumpEditCountExact
<1>3. CASE f \notin h.patch
  BY <1>3 DEF Counted
<1> QED BY <1>2, <1>3

LEMMA BumpCursorDenialExact ==
    ASSUME NEW c \in Snaps, NEW s \in Sessions, NEW f \in Files, NEW found \in SUBSET Findings
    PROVE  /\ Kept(c) => Kept(BumpCursorDenial(c, s, f, found))
           /\ \A t \in Sessions, g \in Files, x \in SUBSET Findings :
                 BumpCursorDenial(c, s, f, found).entry[t][g].denials[x] =
                     IF t = s /\ g = f /\ x = found THEN c.entry[t][g].denials[x] + 1
                     ELSE c.entry[t][g].denials[x]
<1> DEFINE entry == [c.entry EXCEPT ![s][f].denials[found] = @ + 1]
<1>1. c.entry \in [Sessions -> [Files -> Entry]]
  BY DEF Snaps, Caches
<1>2. c.entry[s][f] \in Entry /\ c.entry[s] \in [Files -> Entry]
  BY <1>1
<1>3. [c.entry[s][f].denials EXCEPT ![found] = @ + 1] \in [SUBSET Findings -> Nat]
  BY <1>2 DEF Entry
<1>4. [c.entry[s][f] EXCEPT !.denials = [c.entry[s][f].denials EXCEPT ![found] = @ + 1]] \in Entry
  BY <1>2, <1>3 DEF Entry
<1>5. entry \in Entries
  BY <1>1, <1>2, <1>4 DEF Entries
<1>6. \A t \in Sessions \ {s} : entry[t] = c.entry[t]
  BY <1>1
<1>7. ASSUME NEW t \in Sessions, NEW g \in Files, NEW x \in SUBSET Findings
      PROVE  entry[t][g].denials[x] =
                 IF t = s /\ g = f /\ x = found THEN c.entry[t][g].denials[x] + 1
                 ELSE c.entry[t][g].denials[x]
  <2>1. CASE t = s /\ g = f
    <3>1. entry[s][f].denials = [c.entry[s][f].denials EXCEPT ![found] = @ + 1]
      BY <1>1, <1>2 DEF Entry
    <3> HIDE DEF entry
    <3>2. c.entry[s][f].denials \in [SUBSET Findings -> Nat]
      BY <1>2 DEF Entry
    <3> QED BY <2>1, <3>1, <3>2
  <2>2. CASE ~(t = s /\ g = f)
    <3>1. entry[t][g] = c.entry[t][g]
      BY <1>1, <2>2
    <3> HIDE DEF entry
    <3> QED BY <2>2, <3>1
  <2> QED BY <2>1, <2>2
<1> HIDE DEF entry
<1>8. BumpCursorDenial(c, s, f, found) = Updated(c, s, entry)
  BY DEF BumpCursorDenial, entry
<1> QED BY <1>5, <1>6, <1>7, <1>8, UpdatedIsSnap, UpdatedKept

LEMMA RememberExact ==
    ASSUME NEW c \in Snaps, NEW s \in Sessions, NEW f \in Files, NEW fresh \in SUBSET Findings
    PROVE  /\ Kept(c) => Kept(RememberFindings(c, s, f, fresh))
           /\ \A t \in Sessions, g \in Files :
                 RememberFindings(c, s, f, fresh).entry[t][g].denials = c.entry[t][g].denials
<1> DEFINE entry == [c.entry EXCEPT ![s][f].known = @ \union fresh]
<1>1. c.entry \in [Sessions -> [Files -> Entry]]
  BY DEF Snaps, Caches
<1>2. c.entry[s][f] \in Entry /\ c.entry[s] \in [Files -> Entry]
  BY <1>1
<1>3. [c.entry[s][f] EXCEPT !.known = @ \union fresh] \in Entry
  BY <1>2 DEF Entry
<1>4. /\ entry \in Entries
      /\ \A t \in Sessions, g \in Files : entry[t][g].denials = c.entry[t][g].denials
  BY <1>1, <1>2, <1>3 DEF Entries, Entry
<1>5. \A t \in Sessions \ {s} : entry[t] = c.entry[t]
  BY <1>1
<1> HIDE DEF entry
<1>6. RememberFindings(c, s, f, fresh) = Updated(c, s, entry)
  BY DEF RememberFindings, entry
<1> QED BY <1>4, <1>5, <1>6, UpdatedIsSnap, UpdatedKept

\* What a scan of f leaves of the cache a process holds.
LEMMA ScannedExact ==
    ASSUME NEW c \in Snaps, NEW s \in Sessions, NEW f \in Files, NEW found,
           NEW fresh \in SUBSET Findings, found = {} => fresh = {}
    PROVE  /\ Kept(c) => Kept(Scanned(c, s, f, found, fresh))
           /\ \A t \in Sessions, g \in Files :
                 /\ Scanned(c, s, f, found, fresh).entry[t][g].denials = c.entry[t][g].denials
                 /\ Scanned(c, s, f, found, fresh).entry[t][g].known =
                        c.entry[t][g].known \union (IF t = s /\ g = f THEN fresh ELSE {})
<1>1. CASE found = {}
  BY <1>1 DEF Scanned
<1>2. CASE found # {} /\ fresh = {}
  <2>1. Scanned(c, s, f, found, fresh) = Ensure(c, s)
    BY <1>2 DEF Scanned
  <2>2. Ensure(c, s).entry = c.entry
    BY EnsureKept
  <2>3. Kept(c) => Kept(Ensure(c, s))
    BY UpdatedKept DEF Ensure, Snaps, Caches, Entries
  <2> QED BY <1>2, <2>1, <2>2, <2>3
<1>3. CASE found # {} /\ fresh # {}
  BY <1>3, RememberKept, RememberExact DEF Scanned
<1> QED BY <1>1, <1>2, <1>3

\* A session that stays in the cache, or was not in it, loses nothing.
LEMMA EvictedExact ==
    ASSUME NEW c \in Snaps, Kept(c), NEW t \in Sessions,
           t \in Cached(c) => t \in Cached(Evicted(c))
    PROVE  Evicted(c).entry[t] = c.entry[t]
<1> DEFINE kept == IF Len(c.recent) > MaxSessions THEN SubSeq(c.recent, 1, MaxSessions)
                   ELSE c.recent
           entry == [s \in Sessions |-> IF \E i \in DOMAIN kept : kept[i] = s
                                        THEN c.entry[s] ELSE Empty.entry[s]]
<1>1. Evicted(c) = [recent |-> kept, entry |-> entry]
  BY DEF Evicted
<1> HIDE DEF kept
<1>2. entry[t] = IF \E i \in DOMAIN kept : kept[i] = t THEN c.entry[t] ELSE Empty.entry[t]
  OBVIOUS
<1> HIDE DEF entry
<1>3. Evicted(c).recent = kept /\ Evicted(c).entry = entry
  BY <1>1
<1>4. CASE \E i \in DOMAIN kept : kept[i] = t
  BY <1>2, <1>3, <1>4
<1>5. CASE ~\E i \in DOMAIN kept : kept[i] = t
  <2>1. t \notin Cached(c)
    BY <1>3, <1>5 DEF Cached
  <2> QED BY <1>2, <1>3, <1>5, <2>1 DEF Kept
<1> QED BY <1>4, <1>5

LEMMA DenialsAreNat ==
    ASSUME NEW c \in Snaps, NEW s \in Sessions, NEW f \in Files, NEW found \in SUBSET Findings
    PROVE  c.entry[s][f].denials[found] \in Nat
<1>1. c.entry[s][f] \in Entry
  BY DEF Snaps, Caches
<1> QED BY <1>1 DEF Entry

LEMMA LatestIsSnap ==
    ASSUME HookInv
    PROVE  Latest \in Snaps
<1>1. cache \in Snaps /\ \A p \in Processes : hook[p].snap \in Snaps
  BY DEF HookInv, HookTypes, CacheOnDisk, HookStates
<1> QED BY <1>1 DEF Latest, LatestOf

\* One process holds the cache, or none does.
LEMMA LatestHeld ==
    ASSUME OneByOne, serial # {}, NEW p \in Processes, Holding(hook[p])
    PROVE  Latest = hook[p].snap /\ \A q \in Processes \ {p} : ~Holding(hook[q])
<1>1. \A q \in Processes \ {p} : ~Holding(hook[q])
  BY DEF OneByOne, Holds, Holding
<1> QED BY <1>1, LatestIs DEF Latest

LEMMA LatestFree ==
    ASSUME \A q \in Processes : ~Holding(hook[q])
    PROVE  Latest = cache
BY LatestIs DEF Latest

\* A step of a process that leaves the cache it may hold alone.
LEMMA LatestStays ==
    ASSUME HookInv, OneByOne, serial # {}, NEW p \in Processes, NEW next,
           hook' = [hook EXCEPT ![p] = next],
           Holding(next) <=> Holding(hook[p]),
           Holding(next) => next.snap = hook[p].snap,
           ~Holding(next) => cache' = cache
    PROVE  Latest' = Latest
<1>1. hook'[p] = next /\ \A q \in Processes \ {p} : hook'[q] = hook[q]
  BY DEF HookInv, HookTypes
<1>2. Latest' = LatestOf(hook', cache')
  BY DEF Latest
<1>3. CASE Holding(next)
  <2>1. Latest = hook[p].snap /\ \A q \in Processes \ {p} : ~Holding(hook[q])
    BY <1>3, LatestHeld
  <2>2. Holding(hook'[p]) /\ \A q \in Processes \ {p} : ~Holding(hook'[q])
    BY <1>1, <1>3, <2>1
  <2>3. LatestOf(hook', cache') = hook'[p].snap
    BY <2>2, LatestIs
  <2> QED BY <1>1, <1>2, <1>3, <2>1, <2>3
<1>4. CASE ~Holding(next)
  <2>1. CASE \E r \in Processes : Holding(hook[r])
    <3>1. PICK r \in Processes : Holding(hook[r])
      BY <2>1
    <3>2. Latest = hook[r].snap /\ \A q \in Processes \ {r} : ~Holding(hook[q])
      BY <3>1, LatestHeld
    <3>3. hook'[r] = hook[r] /\ \A q \in Processes \ {r} : ~Holding(hook'[q])
      BY <1>1, <1>4, <3>1, <3>2
    <3>4. LatestOf(hook', cache') = hook'[r].snap
      BY <3>1, <3>3, LatestIs
    <3> QED BY <1>2, <3>2, <3>3, <3>4
  <2>2. CASE \A r \in Processes : ~Holding(hook[r])
    <3>1. \A r \in Processes : ~Holding(hook'[r])
      BY <1>1, <1>4, <2>2
    <3>2. LatestOf(hook', cache') = cache'
      BY <3>1, LatestIs
    <3> QED BY <1>2, <1>4, <2>2, <3>2, LatestFree
  <2> QED BY <2>1, <2>2
<1> QED BY <1>3, <1>4

\* One process goes on, and what it will tell besides is new and remembered.
LEMMA TellsStep ==
    ASSUME HookInv, NEW p \in Processes, NEW next \in HookStates,
           hook' = [hook EXCEPT ![p] = next],
           NEW s \in Sessions, TellsOnce(s), NEW new,
           told'[s] = told[s], s \in repeated' => s \in repeated,
           Owed(next, s) \subseteq Owed(hook[p], s) \union new,
           new \intersect told[s] = {},
           \A q \in Processes : Owed(hook[q], s) \intersect new = {},
           \A f \in Files, x \in Findings :
               x \in Latest.entry[s][f].known \/ <<f, x>> \in new
                   => x \in Latest'.entry[s][f].known
    PROVE  TellsOnce(s)'
<1>1. hook'[p] = next /\ \A q \in Processes \ {p} : hook'[q] = hook[q]
  BY DEF HookInv, HookTypes
<1>2. \A q \in Processes :
         Owed(hook'[q], s) \subseteq Owed(hook[q], s) \union (IF q = p THEN new ELSE {})
  BY <1>1
<1>3. \A q \in Processes : Owed(hook'[q], s) \intersect told'[s] = {}
  BY <1>2 DEF TellsOnce
<1>4. \A q, r \in Processes :
         q # r => Owed(hook'[q], s) \intersect Owed(hook'[r], s) = {}
  BY <1>2 DEF TellsOnce
<1>5. ASSUME NEW f \in Files, NEW x \in Findings,
             <<f, x>> \in told'[s] \union UNION {Owed(hook'[q], s) : q \in Processes}
      PROVE  x \in Latest'.entry[s][f].known
  <2>1. \/ <<f, x>> \in told[s]
        \/ \E q \in Processes : <<f, x>> \in Owed(hook[q], s)
        \/ <<f, x>> \in new
    BY <1>2, <1>5
  <2> QED BY <2>1 DEF TellsOnce
<1>6. s \notin repeated'
  BY DEF TellsOnce
<1> QED BY <1>3, <1>4, <1>5, <1>6 DEF TellsOnce, Owed, Reporting

\* One process goes on, and denies no more than it would have.
LEMMA DeniesStep ==
    ASSUME HookInv, HookInv', Histories, NEW p \in Processes, NEW next \in HookStates,
           hook' = [hook EXCEPT ![p] = next],
           NEW s \in Sessions, NEW f \in Files, NEW found \in SUBSET Findings,
           DeniesSeldom(s), denied'[s][f][found] = denied[s][f][found],
           Denies(next, s, f, found) => Denies(hook[p], s, f, found),
           \/ Latest'.entry[s][f].denials[found] = Latest.entry[s][f].denials[found]
           \/ Latest'.entry[s][f].denials[found] = Latest.entry[s][f].denials[found] + 1
    PROVE  /\ IsFiniteSet(Denying(s, f, found)')
           /\ DenialsTo(s, f, found)' <= Threshold
           /\ DenialsTo(s, f, found)' <= Latest'.entry[s][f].denials[found]
<1>1. hook'[p] = next /\ \A q \in Processes \ {p} : hook'[q] = hook[q]
  BY DEF HookInv, HookTypes
<1> DEFINE before == Denying(s, f, found)
           after == {q \in Processes : Denies(hook'[q], s, f, found)}
<1>2. Denying(s, f, found)' = after
  BY DEF Denying, Denies, Reporting
<1>3. after \subseteq before
  BY <1>1 DEF Denying
<1>4. /\ IsFiniteSet(before)
      /\ denied[s][f][found] + Cardinality(before) <= Threshold
      /\ denied[s][f][found] + Cardinality(before) <= Latest.entry[s][f].denials[found]
  BY DEF DeniesSeldom, DenialsTo
<1>5. /\ denied[s][f][found] \in Nat /\ Threshold \in Nat
      /\ Latest.entry[s][f].denials[found] \in Nat
  BY LatestIsSnap, DenialsAreNat, HookAssumption DEF Histories, DeniedProper
<1>6. DenialsTo(s, f, found)' = denied'[s][f][found] + Cardinality(Denying(s, f, found)')
  BY DEF DenialsTo
<1> HIDE DEF before, after
<1>7. /\ IsFiniteSet(after) /\ Cardinality(after) \in Nat /\ Cardinality(before) \in Nat
      /\ Cardinality(after) <= Cardinality(before)
  BY <1>3, <1>4, FS_Subset, FS_CardinalityType
<1>8. DenialsTo(s, f, found)' = denied[s][f][found] + Cardinality(after)
  BY <1>2, <1>6
<1>9. /\ denied[s][f][found] + Cardinality(after) <= Threshold
      /\ denied[s][f][found] + Cardinality(after) <= Latest.entry[s][f].denials[found]
  BY ONLY <1>4, <1>5, <1>7
<1>10. \/ Latest'.entry[s][f].denials[found] = Latest.entry[s][f].denials[found]
       \/ Latest'.entry[s][f].denials[found] = Latest.entry[s][f].denials[found] + 1
  OBVIOUS
<1>11. denied[s][f][found] + Cardinality(after) <= Latest'.entry[s][f].denials[found]
  BY ONLY <1>5, <1>7, <1>9, <1>10
<1> QED BY <1>2, <1>7, <1>8, <1>9, <1>11

LEMMA DeniedSame ==
    ASSUME Histories, denied' = denied
    PROVE  DeniedProper'
<1>1. DeniedProper
  BY DEF Histories
<1> QED BY ONLY <1>1, denied' = denied DEF DeniedProper

\* What remains to be shown of a step in which one process changes.
LEMMA SerialStep ==
    ASSUME HookInv, Histories, OneByOne, NEW p \in Processes, NEW next \in HookStates,
           hook' = [hook EXCEPT ![p] = next],
           serial' \in SUBSET serial, repeated' \intersect Gated = {}, DeniedProper',
           Kept(next.snap), ~Reporting(next) => next.fresh = {},
           serial' # {} /\ Holding(next) => \A q \in Processes \ {p} : ~Holding(hook[q]),
           \A s \in serial' \ Gated : TellsOnce(s)',
           \A s \in serial' \intersect Gated : DeniesSeldom(s)'
    PROVE  Histories' /\ OneByOne'
<1>1. hook'[p] = next /\ \A q \in Processes \ {p} : hook'[q] = hook[q]
  BY DEF HookInv, HookTypes
<1>2. \A q \in Processes :
         /\ Kept(hook'[q].snap)
         /\ ~Reporting(hook'[q]) => hook'[q].fresh = {}
  BY <1>1 DEF Histories
<1>3. Histories'
  <2>1. serial' \in SUBSET Sessions
    BY DEF Histories
  <2> QED BY <1>2, <2>1 DEF Histories, Kept, Cached, Reporting
<1>4. serial' # {} => \A q, r \in Processes : Holds(q)' /\ Holds(r)' => q = r
  <2> SUFFICES ASSUME serial' # {}, NEW q \in Processes, NEW r \in Processes,
                      Holding(hook'[q]), Holding(hook'[r])
               PROVE  q = r
    BY DEF Holds, Holding
  <2>1. \A v, w \in Processes : Holding(hook[v]) /\ Holding(hook[w]) => v = w
    BY DEF OneByOne, Holds, Holding
  <2> QED BY <1>1, <2>1
<1> QED BY <1>3, <1>4 DEF OneByOne

LEMMA QuietStep ==
    ASSUME HookInv, HookInv', Histories, OneByOne, NEW p \in Processes, NEW next \in HookStates,
           hook' = [hook EXCEPT ![p] = next], UNCHANGED <<told, repeated, denied>>,
           serial' \in SUBSET serial,
           Kept(next.snap), ~Reporting(next) => next.fresh = {},
           serial' # {} /\ Holding(next) => \A q \in Processes \ {p} : ~Holding(hook[q]),
           \A s \in serial' :
               /\ Latest'.entry[s] = Latest.entry[s]
               /\ Quiet(hook[p], next, s)
    PROVE  Histories' /\ OneByOne'
<1>1. serial \in SUBSET Sessions
  BY DEF Histories
<1>2. ASSUME NEW s \in serial' \ Gated PROVE TellsOnce(s)'
  <2>1. TellsOnce(s) /\ s \in Sessions
    BY <1>1 DEF OneByOne
  <2> DEFINE new == {}
  <2>2. /\ Owed(next, s) \subseteq Owed(hook[p], s) \union new
        /\ new \intersect told[s] = {}
        /\ \A q \in Processes : Owed(hook[q], s) \intersect new = {}
    BY DEF Quiet
  <2>3. Latest'.entry[s] = Latest.entry[s]
    OBVIOUS
  <2>4. \A f \in Files, x \in Findings :
           x \in Latest.entry[s][f].known \/ <<f, x>> \in new
               => x \in Latest'.entry[s][f].known
    BY <2>3
  <2>5. told'[s] = told[s] /\ repeated' = repeated
    OBVIOUS
  <2> HIDE DEF new
  <2> QED BY <2>1, <2>2, <2>4, <2>5, TellsStep
<1>3. ASSUME NEW s \in serial' \intersect Gated PROVE DeniesSeldom(s)'
  <2>1. DeniesSeldom(s) /\ s \in Sessions
    BY <1>1 DEF OneByOne
  <2>2. \A f \in Files, found \in SUBSET Findings :
           /\ IsFiniteSet(Denying(s, f, found)')
           /\ DenialsTo(s, f, found)' <= Threshold
           /\ DenialsTo(s, f, found)' <= Latest'.entry[s][f].denials[found]
    BY <2>1, DeniesStep DEF Quiet
  <2> QED BY <2>2 DEF DeniesSeldom
<1>4. repeated' \intersect Gated = {} /\ DeniedProper'
  BY DeniedSame DEF Histories
<1> QED BY <1>2, <1>3, <1>4, SerialStep

LEMMA IdleIsQuiet ==
    /\ Kept(Idle.snap) /\ Idle.fresh = {} /\ ~Holding(Idle) /\ Idle.todo = {}
    /\ \A s : Owed(Idle, s) = {}
    /\ \A s, f, found : ~Denies(Idle, s, f, found)
BY DEF Idle, Kept, Empty, Cached, Holding, Owed, Reporting, Denies

\* A process that ends, or one that starts.
LEMMA QuietIdle ==
    ASSUME HookInv, HookInv', Histories, OneByOne, NEW p \in Processes, NEW next \in HookStates,
           hook' = [hook EXCEPT ![p] = next], UNCHANGED <<told, repeated, denied>>,
           next.pc \in {"idle", "start"}, next.fresh = {}, Kept(next.snap),
           ~Holding(hook[p]), serial' \in SUBSET serial, cache' = cache
    PROVE  Histories' /\ OneByOne'
<1>1. ~Holding(next) /\ ~Reporting(next)
  BY DEF Holding, Reporting
<1>2. \A s \in serial' : Latest'.entry[s] = Latest.entry[s]
  BY <1>1, LatestStays
<1>3. \A s : Quiet(hook[p], next, s)
  BY <1>1 DEF Quiet, Owed, Denies
<1> QED BY <1>1, <1>2, <1>3, QuietStep

LEMMA FireExact ==
    ASSUME HookInv, HookInv', Histories, OneByOne, NEW p \in Processes, NEW s \in Sessions,
           NEW patch, NEW proposed, Fire(p, s, patch, proposed)
    PROVE  Histories' /\ OneByOne'
<1> DEFINE next == [Idle EXCEPT !.pc = "start", !.session = s, !.patch = patch,
                                !.proposed = proposed]
<1>1. /\ hook' = [hook EXCEPT ![p] = next] /\ ~Holding(hook[p])
      /\ UNCHANGED <<cache, told, repeated, denied, serial>>
  BY DEF Fire, Running, Holding
<1>2. next.pc = "start" /\ next.fresh = {} /\ next.snap = Idle.snap
  BY DEF Idle
<1> HIDE DEF next
<1>3. next \in HookStates
  <2>1. hook'[p] = next
    BY <1>1 DEF HookInv, HookTypes
  <2> QED BY <2>1 DEF HookInv, HookTypes
<1> QED BY <1>1, <1>2, <1>3, IdleIsQuiet, QuietIdle

LEMMA StartHookExact ==
    ASSUME HookInv, HookInv', Histories, OneByOne, NEW p \in Processes, StartHook(p)
    PROVE  Histories' /\ OneByOne'
<1> DEFINE h == hook[p]
           next == [h EXCEPT !.pc = "scan", !.todo = Targets(h.patch),
                             !.config = config, !.snap = cache]
<1>1. /\ h.pc = "start" /\ h.session \notin Gated
      /\ UNCHANGED <<cache, told, repeated, denied>>
  BY DEF StartHook, Step
<1>2. h \in HookStates /\ ~Holding(h) /\ ~Reporting(h) /\ h.fresh = {}
  BY <1>1 DEF HookInv, HookTypes, Holding, Reporting, Histories
<1>3. CASE ~config.enabled
  <2>1. hook' = [hook EXCEPT ![p] = Idle] /\ serial' = serial
    BY <1>3 DEF StartHook
  <2>2. Idle.pc = "idle"
    BY DEF Idle
  <2> QED BY <1>1, <1>2, <2>1, <2>2, IdleIsQuiet, IdleIsHookState, QuietIdle DEF Histories
<1>4. CASE config.enabled
  <2>1. /\ hook' = [hook EXCEPT ![p] = next]
        /\ serial' = IF \E q \in Processes : Holding(hook[q]) THEN {} ELSE serial
    BY <1>4 DEF StartHook, ReadCache, Holds, Holding
  <2>2. /\ next.pc = "scan" /\ next.session = h.session /\ next.fresh = {}
        /\ next.snap = cache
    BY <1>2 DEF HookStates
  <2> HIDE DEF next, h
  <2>3. hook'[p] = next /\ \A q \in Processes \ {p} : hook'[q] = hook[q]
    BY <2>1 DEF HookInv, HookTypes
  <2>4. next \in HookStates
    BY <2>3 DEF HookInv, HookTypes
  <2>5. Kept(next.snap)
    BY <2>2 DEF HookInv, HookTypes, CacheOnDisk, Kept
  <2>6. serial' # {} => \A q \in Processes : ~Holding(hook[q])
    BY <2>1
  <2>7. ASSUME serial' # {} PROVE Latest' = Latest
    <3>1. Latest = cache
      BY <2>6, <2>7, LatestFree
    <3>2. Holding(hook'[p]) /\ \A q \in Processes \ {p} : ~Holding(hook'[q])
      BY <2>2, <2>3, <2>6, <2>7 DEF Holding
    <3>3. LatestOf(hook', cache') = hook'[p].snap
      BY <3>2, LatestIs
    <3> QED BY <2>2, <2>3, <3>1, <3>3 DEF Latest
  <2>8. \A s : Owed(next, s) = {}
    BY <2>2 DEF Owed
  <2>9. \A s \in serial', f \in Files, found \in SUBSET Findings :
           s \in Gated => ~Denies(next, s, f, found)
    BY <1>1, <2>2 DEF Denies, h
  <2>10. ASSUME NEW s \in serial' \ Gated PROVE TellsOnce(s)'
    <3> DEFINE new == {}
    <3>1. TellsOnce(s) /\ s \in Sessions
      BY <2>1 DEF OneByOne, Histories
    <3>2. /\ Owed(next, s) \subseteq Owed(hook[p], s) \union new
          /\ new \intersect told[s] = {}
          /\ \A q \in Processes : Owed(hook[q], s) \intersect new = {}
      BY <2>8
    <3>3. \A f \in Files, x \in Findings :
             x \in Latest.entry[s][f].known \/ <<f, x>> \in new
                 => x \in Latest'.entry[s][f].known
      BY <2>7
    <3> HIDE DEF new
    <3> QED BY <1>1, <2>1, <2>4, <3>1, <3>2, <3>3, TellsStep
  <2>11. ASSUME NEW s \in serial' \intersect Gated PROVE DeniesSeldom(s)'
    <3>1. DeniesSeldom(s) /\ s \in Sessions
      BY <2>1 DEF OneByOne, Histories
    <3>2. \A f \in Files, found \in SUBSET Findings :
           /\ IsFiniteSet(Denying(s, f, found)')
           /\ DenialsTo(s, f, found)' <= Threshold
           /\ DenialsTo(s, f, found)' <= Latest'.entry[s][f].denials[found]
      BY <1>1, <2>1, <2>4, <2>7, <2>9, <3>1, DeniesStep
    <3> QED BY <3>2 DEF DeniesSeldom
  <2>12. /\ serial' \in SUBSET serial /\ repeated' \intersect Gated = {}
         /\ DeniedProper'
    BY <1>1, <2>1, DeniedSame DEF Histories
  <2> QED BY <2>1, <2>2, <2>4, <2>5, <2>6, <2>10, <2>11, <2>12, SerialStep
<1> QED BY <1>3, <1>4

\* The process that held the cache as h scanned f: what it found new it knows.
ScannedTo(h, next, f, fresh) ==
    /\ h.pc = "scan" /\ next.pc = "scan" /\ next.session = h.session
    /\ h.session \in Sessions \ Gated /\ Kept(next.snap)
    /\ next.fresh = h.fresh \union ({f} \X fresh)
    /\ fresh \intersect h.snap.entry[h.session][f].known = {}
    /\ \A t \in Sessions, g \in Files :
          /\ next.snap.entry[t][g].denials = h.snap.entry[t][g].denials
          /\ h.snap.entry[t][g].known \union (IF t = h.session /\ g = f THEN fresh ELSE {})
               \subseteq next.snap.entry[t][g].known

LEMMA ScanGoesExact ==
    ASSUME HookInv, HookInv', Histories, OneByOne, NEW p \in Processes, NEW next \in HookStates,
           hook' = [hook EXCEPT ![p] = next],
           UNCHANGED <<cache, told, repeated, denied, serial>>,
           NEW f \in Files, NEW fresh \in SUBSET Findings, ScannedTo(hook[p], next, f, fresh)
    PROVE  Histories' /\ OneByOne'
<1>0. /\ p \in Processes /\ next \in HookStates /\ HookInv
      /\ hook' = [hook EXCEPT ![p] = next]
  OBVIOUS
<1>1. /\ Holding(hook[p]) /\ Holding(next) /\ Reporting(hook[p]) /\ Reporting(next)
      /\ next.session = hook[p].session /\ hook[p].session \in Sessions \ Gated
      /\ Kept(next.snap) /\ next.fresh = hook[p].fresh \union ({f} \X fresh)
  BY DEF ScannedTo, Holding, Reporting
<1>10. \A t \in Sessions, g \in Files :
          /\ next.snap.entry[t][g].denials = hook[p].snap.entry[t][g].denials
          /\ hook[p].snap.entry[t][g].known \subseteq next.snap.entry[t][g].known
  BY DEF ScannedTo
<1>11. /\ fresh \intersect hook[p].snap.entry[hook[p].session][f].known = {}
       /\ fresh \subseteq next.snap.entry[hook[p].session][f].known
  BY <1>1 DEF ScannedTo
<1>2. serial \in SUBSET Sessions
  BY DEF Histories
<1>3. hook'[p] = next /\ \A q \in Processes \ {p} : hook'[q] = hook[q]
  BY DEF HookInv, HookTypes
<1>4. ASSUME serial # {}
      PROVE  /\ Latest = hook[p].snap /\ Latest' = next.snap
             /\ \A q \in Processes \ {p} : ~Holding(hook[q])
  <2>1. Latest = hook[p].snap /\ \A q \in Processes \ {p} : ~Holding(hook[q])
    BY <1>1, <1>4, LatestHeld
  <2>2. Holding(hook'[p]) /\ \A q \in Processes \ {p} : ~Holding(hook'[q])
    BY <1>1, <1>3, <2>1
  <2>3. LatestOf(hook', cache') = hook'[p].snap
    BY ONLY <1>0, <2>2, LatestIs
  <2> QED BY <1>3, <2>1, <2>3 DEF Latest
<1>5. ASSUME NEW s \in serial' \ Gated PROVE TellsOnce(s)'
  <2>1. TellsOnce(s) /\ s \in Sessions /\ serial # {} /\ s \in serial
    BY <1>2 DEF OneByOne
  <2>2. Latest = hook[p].snap /\ Latest' = next.snap
    BY <1>4, <2>1
  <2> DEFINE new == IF s = hook[p].session THEN {f} \X fresh ELSE {}
  <2>3. Owed(next, s) \subseteq Owed(hook[p], s) \union new
    BY <1>1 DEF Owed
  <2>4. ASSUME NEW g, g \in new
        PROVE  g \notin told[s] /\ \A q \in Processes : g \notin Owed(hook[q], s)
    <3>1. PICK x \in fresh : g = <<f, x>> /\ s = hook[p].session
      BY <2>4
    <3>2. x \notin Latest.entry[s][f].known /\ x \in Findings
      BY <1>11, <2>2, <3>1
    <3>3. <<f, x>> \notin told[s] \union UNION {Owed(hook[q], s) : q \in Processes}
      BY <2>1, <3>2 DEF TellsOnce
    <3> QED BY <3>1, <3>3
  <2>5. ASSUME NEW e \in Files, NEW x \in Findings,
               x \in Latest.entry[s][e].known \/ <<e, x>> \in new
        PROVE  x \in Latest'.entry[s][e].known
    BY <1>10, <1>11, <2>1, <2>2, <2>5
  <2>6. new \intersect told[s] = {} /\ \A q \in Processes : Owed(hook[q], s) \intersect new = {}
    BY <2>4
  <2>7. told'[s] = told[s] /\ repeated' = repeated
    OBVIOUS
  <2> HIDE DEF new
  <2> QED BY ONLY <1>0, <2>1, <2>3, <2>5, <2>6, <2>7, TellsStep
<1>6. ASSUME NEW s \in serial' \intersect Gated PROVE DeniesSeldom(s)'
  <2>1. DeniesSeldom(s) /\ s \in Sessions /\ serial # {}
    BY <1>2 DEF OneByOne
  <2>2. \A g \in Files : Latest'.entry[s][g].denials = Latest.entry[s][g].denials
    BY <1>4, <1>10, <2>1
  <2>3. \A g, found : ~Denies(next, s, g, found)
    BY <1>1 DEF Denies
  <2>4. \A g \in Files, found \in SUBSET Findings :
           /\ IsFiniteSet(Denying(s, g, found)')
           /\ DenialsTo(s, g, found)' <= Threshold
           /\ DenialsTo(s, g, found)' <= Latest'.entry[s][g].denials[found]
    BY <1>0, <2>1, <2>2, <2>3, DeniesStep
  <2> QED BY <2>4 DEF DeniesSeldom
<1>7. /\ serial' \in SUBSET serial /\ repeated' \intersect Gated = {} /\ DeniedProper'
  BY DeniedSame DEF Histories
<1>8. serial' # {} /\ Holding(next) => \A q \in Processes \ {p} : ~Holding(hook[q])
  BY <1>4
<1>9. ~Reporting(next) => next.fresh = {}
  BY <1>1
<1> QED BY <1>1, <1>5, <1>6, <1>7, <1>8, <1>9, SerialStep

LEMMA ScanFileExact ==
    ASSUME HookInv, HookInv', Counting, Histories, OneByOne, NEW p \in Processes,
           NEW f \in hook[p].todo, NEW detected \in SUBSET Findings, ScanFile(p, f, detected)
    PROVE  Histories' /\ OneByOne'
<1> DEFINE h == hook[p]
           s == h.session
           counted == Counted(h, f)
           found == detected \ h.config.rules
           fresh == Fresh(counted, s, f, found)
           scanned == Scanned(counted, s, f, found, fresh)
           next == [h EXCEPT !.todo = @ \ {f}]
           next2 == [next EXCEPT !.snap = counted]
           next3 == [next EXCEPT !.snap = scanned,
                                 !.fresh = @ \union ({f} \X fresh),
                                 !.found = @ \union ({f} \X found)]
<1>1. h \in HookStates /\ Placed(h) /\ h.pc = "scan" /\ f \in Files /\ s \in Sessions \ Gated
  BY DEF HookInv, HookTypes, ScanFile, Placed, HookStates, Counting
<1>2. UNCHANGED <<cache, told, repeated, denied, serial>>
  BY DEF ScanFile
<1>3. \/ hook' = [hook EXCEPT ![p] = next]
      \/ hook' = [hook EXCEPT ![p] = next2]
      \/ hook' = [hook EXCEPT ![p] = next3]
  BY DEF ScanFile
<1>4. Kept(h.snap) /\ h.snap \in Snaps
  BY <1>1 DEF Histories, HookStates
<1>5. /\ counted \in Snaps /\ Kept(counted)
      /\ \A t \in Sessions, g \in Files :
            /\ counted.entry[t][g].known = h.snap.entry[t][g].known
            /\ counted.entry[t][g].denials = h.snap.entry[t][g].denials
  <2>1. s \in Sessions
    BY <1>1
  <2>2. /\ counted \in Snaps
        /\ \A t \in Sessions, g \in Files :
              counted.entry[t][g].known = h.snap.entry[t][g].known
    BY <1>1, <2>1, CountedKept
  <2>3. /\ Kept(counted)
        /\ \A t \in Sessions, g \in Files :
              counted.entry[t][g].denials = h.snap.entry[t][g].denials
    BY <1>1, <1>4, <2>1, CountedExact
  <2> QED BY <2>2, <2>3
<1>6. /\ found \in SUBSET Findings /\ fresh \in SUBSET Findings /\ fresh \subseteq found
      /\ fresh \intersect counted.entry[s][f].known = {}
  BY DEF Fresh
<1> HIDE DEF counted
<1>7. /\ Kept(scanned)
      /\ \A t \in Sessions, g \in Files :
            /\ scanned.entry[t][g].denials = counted.entry[t][g].denials
            /\ scanned.entry[t][g].known =
                   counted.entry[t][g].known \union (IF t = s /\ g = f THEN fresh ELSE {})
  <2>1. s \in Sessions
    BY <1>1
  <2>2. f \in Files /\ (found = {} => fresh = {}) /\ fresh \in SUBSET Findings
    BY <1>1, <1>6
  <2> HIDE DEF s, found, fresh
  <2> QED BY ONLY <1>5, <2>1, <2>2, ScannedExact DEF scanned
<1> HIDE DEF scanned, found, fresh
<1>8. /\ next.pc = "scan" /\ next.session = s /\ next.snap = h.snap /\ next.fresh = h.fresh
      /\ next2.pc = "scan" /\ next2.session = s /\ next2.snap = counted
      /\ next2.fresh = h.fresh
      /\ next3.pc = "scan" /\ next3.session = s /\ next3.snap = scanned
      /\ next3.fresh = h.fresh \union ({f} \X fresh)
  BY <1>1 DEF HookStates
<1> HIDE DEF next, next2, next3
<1>9. \A n : hook' = [hook EXCEPT ![p] = n] => n \in HookStates
  <2> TAKE n
  <2> HAVE hook' = [hook EXCEPT ![p] = n]
  <2>1. hook'[p] = n
    BY DEF HookInv, HookTypes
  <2> QED BY <2>1 DEF HookInv, HookTypes
<1>10. p \in Processes /\ f \in Files /\ {} \in SUBSET Findings
  BY <1>1
<1>11. CASE hook' = [hook EXCEPT ![p] = next]
  <2>1. ScannedTo(hook[p], next, f, {})
    BY <1>1, <1>4, <1>8 DEF ScannedTo
  <2>2. next \in HookStates
    BY <1>9, <1>11
  <2> QED BY <1>2, <1>10, <1>11, <2>1, <2>2, ScanGoesExact
<1>12. CASE hook' = [hook EXCEPT ![p] = next2]
  <2>1. ScannedTo(hook[p], next2, f, {})
    BY <1>1, <1>5, <1>8 DEF ScannedTo
  <2>2. next2 \in HookStates
    BY <1>9, <1>12
  <2> QED BY <1>2, <1>10, <1>12, <2>1, <2>2, ScanGoesExact
<1>13. CASE hook' = [hook EXCEPT ![p] = next3]
  <2>1. \A t \in Sessions, g \in Files :
           /\ next3.snap.entry[t][g].denials = h.snap.entry[t][g].denials
           /\ h.snap.entry[t][g].known \union (IF t = s /\ g = f THEN fresh ELSE {})
                \subseteq next3.snap.entry[t][g].known
    BY <1>5, <1>7, <1>8
  <2>2. fresh \intersect h.snap.entry[s][f].known = {}
    BY <1>1, <1>5, <1>6
  <2>3. ScannedTo(hook[p], next3, f, fresh)
    BY <1>1, <1>7, <1>8, <2>1, <2>2 DEF ScannedTo
  <2>4. next3 \in HookStates
    BY <1>9, <1>13
  <2> QED BY <1>2, <1>6, <1>10, <1>13, <2>3, <2>4, ScanGoesExact
<1> QED BY <1>3, <1>11, <1>12, <1>13

\* A denial that was just counted is one more to come.
LEMMA OneDenialMore ==
    ASSUME HookInv, Histories, NEW p \in Processes, NEW next \in HookStates,
           hook' = [hook EXCEPT ![p] = next], denied' = denied,
           NEW s \in Sessions, NEW f \in Files, NEW found \in SUBSET Findings,
           DeniesSeldom(s), Denies(next, s, f, found), ~Reporting(hook[p]),
           Latest'.entry[s][f].denials[found] = Latest.entry[s][f].denials[found] + 1,
           Latest.entry[s][f].denials[found] + 1 <= Threshold
    PROVE  /\ IsFiniteSet(Denying(s, f, found)')
           /\ DenialsTo(s, f, found)' <= Threshold
           /\ DenialsTo(s, f, found)' <= Latest'.entry[s][f].denials[found]
<1>1. hook'[p] = next /\ \A q \in Processes \ {p} : hook'[q] = hook[q]
  BY DEF HookInv, HookTypes
<1> DEFINE before == Denying(s, f, found)
           after == {q \in Processes : Denies(hook'[q], s, f, found)}
<1>2. Denying(s, f, found)' = after
  BY DEF Denying, Denies, Reporting
<1>3. p \notin before
  BY DEF Denying, Denies
<1>4. after = before \union {p}
  BY <1>1 DEF Denying
<1>5. /\ IsFiniteSet(before)
      /\ denied[s][f][found] + Cardinality(before) <= Latest.entry[s][f].denials[found]
  BY DEF DeniesSeldom, DenialsTo
<1>6. /\ denied[s][f][found] \in Nat /\ Threshold \in Nat
      /\ Latest.entry[s][f].denials[found] \in Nat
  BY LatestIsSnap, DenialsAreNat, HookAssumption DEF Histories, DeniedProper
<1>7. DenialsTo(s, f, found)' = denied'[s][f][found] + Cardinality(Denying(s, f, found)')
  BY DEF DenialsTo
<1> HIDE DEF before, after
<1>8. /\ IsFiniteSet(after) /\ Cardinality(after) = Cardinality(before) + 1
      /\ Cardinality(before) \in Nat
  BY <1>3, <1>4, <1>5, FS_AddElement, FS_CardinalityType
<1>9. DenialsTo(s, f, found)' = denied[s][f][found] + (Cardinality(before) + 1)
  BY <1>2, <1>7, <1>8
<1>10. denied[s][f][found] + (Cardinality(before) + 1) <= Latest.entry[s][f].denials[found] + 1
  BY ONLY <1>5, <1>6, <1>8
<1>11. denied[s][f][found] + (Cardinality(before) + 1) <= Threshold
  BY ONLY <1>6, <1>8, <1>10, Latest.entry[s][f].denials[found] + 1 <= Threshold
<1> QED BY <1>2, <1>8, <1>9, <1>10, <1>11

LEMMA CheckWriteExact ==
    ASSUME HookInv, HookInv', Histories, OneByOne, NEW p \in Processes,
           NEW detected \in SUBSET Findings, CheckWrite(p, detected)
    PROVE  Histories' /\ OneByOne'
<1> DEFINE h == hook[p]
           s == h.session
           f == CHOOSE f \in Files : h.patch = {f}
           found == detected \ config.rules
           counted == BumpCursorDenial(cache, s, f, found)
           next == [h EXCEPT !.pc = "scan", !.fresh = {f} \X found, !.snap = counted,
                             !.count = counted.entry[s][f].denials[found]]
<1>1. h \in HookStates /\ Placed(h) /\ h.pc = "start" /\ s \in Sessions /\ s \in Gated
  BY DEF HookInv, HookTypes, CheckWrite, Placed
<1>2. f \in Files /\ h.patch = {f} /\ found \in SUBSET Findings /\ cache \in Snaps /\ Kept(cache)
  BY <1>1 DEF Placed, HookInv, HookTypes, CacheOnDisk, Kept
<1>3. UNCHANGED <<cache, told, repeated, denied>>
  BY DEF CheckWrite
<1>4. ~Holding(h) /\ ~Reporting(h)
  BY <1>1 DEF Holding, Reporting
<1>5. \/ hook' = [hook EXCEPT ![p] = Idle] /\ serial' = serial
      \/ /\ hook' = [hook EXCEPT ![p] = next]
         /\ serial' = IF \E q \in Processes : Holding(hook[q]) THEN {} ELSE serial
  BY DEF CheckWrite, ReadCache, Holds, Holding
<1>6. /\ Kept(counted)
      /\ \A t \in Sessions, g \in Files, x \in SUBSET Findings :
            counted.entry[t][g].denials[x] =
                IF t = s /\ g = f /\ x = found THEN cache.entry[t][g].denials[x] + 1
                ELSE cache.entry[t][g].denials[x]
      /\ \A t \in Sessions, g \in Files : counted.entry[t][g].known = cache.entry[t][g].known
  <2>1. s \in Sessions
    BY <1>1
  <2> HIDE DEF s, f, found
  <2>2. /\ Kept(counted)
        /\ \A t \in Sessions, g \in Files, x \in SUBSET Findings :
              counted.entry[t][g].denials[x] =
                  IF t = s /\ g = f /\ x = found THEN cache.entry[t][g].denials[x] + 1
                  ELSE cache.entry[t][g].denials[x]
    BY <1>2, <2>1, BumpCursorDenialExact
  <2>3. \A t \in Sessions, g \in Files : counted.entry[t][g].known = cache.entry[t][g].known
    BY <1>2, <2>1, BumpCursorDenialKept
  <2> QED BY <2>2, <2>3
<1> HIDE DEF f, found, counted
<1>7. /\ next.pc = "scan" /\ next.session = s /\ next.snap = counted /\ next.patch = {f}
      /\ next.fresh = {f} \X found /\ next.count = counted.entry[s][f].denials[found]
  BY <1>1, <1>2 DEF HookStates
<1> HIDE DEF next
<1>8. CASE hook' = [hook EXCEPT ![p] = Idle] /\ serial' = serial
  <2>1. Idle.pc = "idle"
    BY DEF Idle
  <2> QED BY <1>3, <1>4, <1>8, <2>1, IdleIsQuiet, IdleIsHookState, QuietIdle DEF Histories
<1>9. ASSUME hook' = [hook EXCEPT ![p] = next],
             serial' = IF \E q \in Processes : Holding(hook[q]) THEN {} ELSE serial
      PROVE  Histories' /\ OneByOne'
  <2>1. hook'[p] = next /\ \A q \in Processes \ {p} : hook'[q] = hook[q]
    BY <1>9 DEF HookInv, HookTypes
  <2>2. next \in HookStates
    BY <2>1 DEF HookInv, HookTypes
  <2>3. serial' # {} => \A q \in Processes : ~Holding(hook[q])
    BY <1>9
  <2>4. serial' \in SUBSET serial /\ serial \in SUBSET Sessions
    BY <1>9 DEF Histories
  <2>5. ASSUME serial' # {} PROVE Latest = cache /\ Latest' = counted
    <3>1. Latest = cache
      BY <2>3, <2>5, LatestFree
    <3>2. Holding(hook'[p]) /\ \A q \in Processes \ {p} : ~Holding(hook'[q])
      BY <1>7, <2>1, <2>3, <2>5 DEF Holding
    <3>3. LatestOf(hook', cache') = hook'[p].snap
      BY <3>2, LatestIs
    <3> QED BY <1>7, <2>1, <3>1, <3>3 DEF Latest
  <2>6. ASSUME NEW t \in serial' \ Gated PROVE TellsOnce(t)'
    <3> DEFINE new == {}
    <3>1. TellsOnce(t) /\ t \in Sessions /\ t # s
      BY <1>1, <2>4 DEF OneByOne
    <3>2. /\ Owed(next, t) \subseteq Owed(hook[p], t) \union new
          /\ new \intersect told[t] = {}
          /\ \A q \in Processes : Owed(hook[q], t) \intersect new = {}
      BY <1>7, <3>1 DEF Owed
    <3>3. Latest = cache /\ Latest' = counted
      BY <2>5
    <3>4. \A g \in Files, x \in Findings :
             x \in Latest.entry[t][g].known \/ <<g, x>> \in new
                 => x \in Latest'.entry[t][g].known
      BY <1>6, <3>1, <3>3
    <3>5. told'[t] = told[t] /\ repeated' = repeated
      BY <1>3
    <3> HIDE DEF new
    <3> QED BY <1>9, <2>2, <3>1, <3>2, <3>4, <3>5, TellsStep
  <2>7. ASSUME NEW t \in serial' \intersect Gated PROVE DeniesSeldom(t)'
    <3>1. DeniesSeldom(t) /\ t \in Sessions
      BY <2>4 DEF OneByOne
    <3>2. Latest = cache /\ Latest' = counted
      BY <2>5
    <3>3. ASSUME NEW g \in Files, NEW x \in SUBSET Findings
          PROVE  /\ IsFiniteSet(Denying(t, g, x)')
                 /\ DenialsTo(t, g, x)' <= Threshold
                 /\ DenialsTo(t, g, x)' <= Latest'.entry[t][g].denials[x]
      <4>1. \/ Latest'.entry[t][g].denials[x] = Latest.entry[t][g].denials[x]
            \/ Latest'.entry[t][g].denials[x] = Latest.entry[t][g].denials[x] + 1
        BY <1>6, <3>1, <3>2
      <4>2. CASE ~Denies(next, t, g, x)
        BY <1>3, <1>9, <2>2, <3>1, <4>1, <4>2, DeniesStep
      <4>3. CASE Denies(next, t, g, x)
        <5>1. t = s /\ {g} = {f} /\ next.count <= Threshold
              /\ {y \in Findings : <<g, y>> \in {f} \X found} = x
          BY <1>7, <4>3 DEF Denies
        <5>2. g = f /\ x = found
          BY <1>2, <5>1
        <5>3. /\ Latest'.entry[t][g].denials[x] = Latest.entry[t][g].denials[x] + 1
              /\ Latest.entry[t][g].denials[x] + 1 <= Threshold
          <6>1. counted.entry[s][f].denials[found] = cache.entry[s][f].denials[found] + 1
            BY <1>2, <1>6, <3>1, <5>1
          <6>2. next.count = cache.entry[s][f].denials[found] + 1
            BY <1>7, <6>1
          <6> QED BY ONLY <3>2, <5>1, <5>2, <6>1, <6>2
        <5> QED BY <1>3, <1>4, <1>9, <2>2, <3>1, <4>3, <5>3, OneDenialMore
      <4> QED BY <4>2, <4>3
    <3> QED BY <3>3 DEF DeniesSeldom
  <2>8. /\ repeated' \intersect Gated = {}
        /\ DeniedProper'
    BY <1>3, DeniedSame DEF Histories
  <2>9. ~Reporting(next) => next.fresh = {}
    BY <1>7 DEF Reporting
  <2>10. Kept(next.snap)
    BY <1>6, <1>7
  <2> QED BY <1>9, <2>2, <2>3, <2>4, <2>6, <2>7, <2>8, <2>9, <2>10, SerialStep
<1> QED BY <1>5, <1>8, <1>9

LEMMA ScanExact ==
    ASSUME HookInv, HookInv', Counting, Histories, OneByOne, NEW p \in Processes,
           Scan(p) \/ CheckWrite(p, hook[p].proposed) \/ ScanThrows(p)
    PROVE  Histories' /\ OneByOne'
<1>1. /\ content \in [Files -> SUBSET Findings] /\ hook[p] \in HookStates
      /\ {} \in SUBSET Findings
  BY DEF HookInv, HookTypes
<1>2. ASSUME NEW f \in hook[p].todo, ScanFile(p, f, content[f]) \/ ScanFile(p, f, {})
      PROVE  Histories' /\ OneByOne'
  <2>1. content[f] \in SUBSET Findings
    BY <1>1 DEF HookStates
  <2> QED BY <1>1, <1>2, <2>1, ScanFileExact
<1>3. hook[p].proposed \in SUBSET Findings
  BY <1>1 DEF HookStates
<1> QED BY <1>1, <1>2, <1>3, CheckWriteExact DEF Scan, ScanThrows

LEMMA TruncateExact ==
    ASSUME HookInv, HookInv', Histories, OneByOne, NEW p \in Processes, Truncate(p)
    PROVE  Histories' /\ OneByOne'
<1> DEFINE h == hook[p]
           next == [h EXCEPT !.pc = "write"]
<1>1. h \in HookStates /\ h.pc = "scan"
  BY DEF HookInv, HookTypes, Truncate
<1>2. next \in HookStates
  BY <1>1 DEF HookStates
<1>3. /\ next.pc = "write" /\ next.session = h.session /\ next.patch = h.patch
      /\ next.snap = h.snap /\ next.fresh = h.fresh /\ next.count = h.count
  BY <1>1 DEF HookStates
<1>4. /\ hook' = [hook EXCEPT ![p] = next]
      /\ UNCHANGED <<told, repeated, denied, serial>>
  BY DEF Truncate
<1> HIDE DEF next
<1>5. Holding(h) /\ Holding(next) /\ Reporting(h) /\ Reporting(next) /\ Kept(next.snap)
  BY <1>1, <1>3 DEF Holding, Reporting, Histories
<1>6. serial # {} => Latest' = Latest /\ \A q \in Processes \ {p} : ~Holding(hook[q])
  BY <1>2, <1>3, <1>4, <1>5, LatestStays, LatestHeld
<1>7. \A s : Quiet(hook[p], next, s)
  BY <1>3, <1>5 DEF Quiet, Owed, Denies
<1>8. serial' \in SUBSET serial /\ (serial' # {} => serial # {})
  BY <1>4
<1>9. \A s \in serial' : Latest'.entry[s] = Latest.entry[s] /\ Quiet(hook[p], next, s)
  BY <1>6, <1>7, <1>8
<1>10. serial' # {} /\ Holding(next) => \A q \in Processes \ {p} : ~Holding(hook[q])
  BY <1>6, <1>8
<1> QED BY <1>2, <1>4, <1>5, <1>8, <1>9, <1>10, QuietStep

LEMMA PersistExact ==
    ASSUME HookInv, HookInv', Histories, OneByOne, NEW p \in Processes, Persist(p)
    PROVE  Histories' /\ OneByOne'
<1> DEFINE h == hook[p]
           next == Reported(p)
<1>1. h \in HookStates /\ h.pc = "write" /\ Running(p) /\ h.snap \in Snaps /\ Kept(h.snap)
  BY DEF HookInv, HookTypes, HookStates, Persist, Running, Histories
<1>2. /\ next \in HookStates /\ next.pc = "answer" /\ next.session = h.session
      /\ next.fresh = h.fresh
  BY <1>1, ReportedTypes
<1>3. next.patch = h.patch /\ next.count = h.count /\ next.snap = Idle.snap
  BY <1>1 DEF Reported, HookStates, Idle
<1>4. /\ hook' = [hook EXCEPT ![p] = next] /\ cache' = Evicted(h.snap)
      /\ UNCHANGED <<told, repeated, denied>>
      /\ serial' = {s \in serial : s \in Cached(h.snap) => s \in Cached(cache')}
  BY DEF Persist
<1> HIDE DEF next
<1>5. Holding(h) /\ ~Holding(next) /\ Reporting(h) /\ Reporting(next) /\ Kept(next.snap)
  BY <1>1, <1>2, <1>3, IdleIsQuiet DEF Holding, Reporting
<1>6. ASSUME NEW s \in serial' PROVE Latest'.entry[s] = Latest.entry[s]
  <2>1. serial # {} /\ s \in Sessions /\ (s \in Cached(h.snap) => s \in Cached(Evicted(h.snap)))
    BY <1>4 DEF Histories
  <2>2. Latest = h.snap /\ \A q \in Processes \ {p} : ~Holding(hook[q])
    BY <1>5, <2>1, LatestHeld
  <2>3. \A q \in Processes : ~Holding(hook'[q])
    BY <1>4, <1>5, <2>2 DEF HookInv, HookTypes
  <2>4. LatestOf(hook', cache') = cache'
    BY <2>3, LatestIs
  <2>5. Latest' = Evicted(h.snap)
    BY <1>4, <2>4 DEF Latest
  <2>6. Evicted(h.snap).entry[s] = h.snap.entry[s]
    BY <1>1, <2>1, EvictedExact
  <2> QED BY <2>2, <2>5, <2>6
<1>7. \A s : Quiet(hook[p], next, s)
  BY <1>2, <1>3, <1>5 DEF Quiet, Owed, Denies
<1>8. serial' \in SUBSET serial
  BY <1>4
<1>9. \A s \in serial' : Latest'.entry[s] = Latest.entry[s] /\ Quiet(hook[p], next, s)
  BY <1>6, <1>7
<1> QED BY <1>2, <1>4, <1>5, <1>8, <1>9, QuietStep

\* After a process fails, nothing is claimed of any session.
LEMMA FailsExact ==
    ASSUME HookInv, HookInv', Histories, OneByOne, NEW p \in Processes,
           PersistFails(p) \/ Killed(p)
    PROVE  Histories' /\ OneByOne'
<1>1. serial' = {} /\ UNCHANGED <<told, repeated, denied>>
  BY DEF PersistFails, Killed
<1>2. serial' \in SUBSET serial
  BY <1>1
<1>3. CASE PersistFails(p)
  <2> DEFINE next == Reported(p)
  <2>1. Running(p) /\ hook[p] \in HookStates
    BY <1>3 DEF PersistFails, Running, HookInv, HookTypes
  <2>2. next \in HookStates /\ next.pc = "answer"
    BY <2>1, ReportedTypes
  <2>3. next.snap = Idle.snap
    BY <2>1 DEF Reported, HookStates, Idle
  <2>4. hook' = [hook EXCEPT ![p] = next]
    BY <1>3 DEF PersistFails
  <2> HIDE DEF next
  <2>5. Reporting(next) /\ Kept(next.snap)
    BY <2>2, <2>3, IdleIsQuiet DEF Reporting
  <2> QED BY <1>1, <1>2, <2>2, <2>4, <2>5, QuietStep
<1>4. CASE Killed(p)
  <2>1. hook' = [hook EXCEPT ![p] = Idle]
    BY <1>4 DEF Killed
  <2> QED BY <1>1, <1>2, <2>1, IdleIsQuiet, IdleIsHookState, QuietStep
<1> QED BY <1>3, <1>4

LEMMA AnswerExact ==
    ASSUME HookInv, HookInv', Histories, OneByOne, NEW p \in Processes, Answer(p)
    PROVE  Histories' /\ OneByOne'
<1> DEFINE h == hook[p]
           s == h.session
<1>1. h \in HookStates /\ h.pc = "answer" /\ s \in Sessions /\ s \notin Gated
  BY DEF HookInv, HookTypes, Answer, Placed
<1>2. /\ told' = [told EXCEPT ![s] = @ \union h.fresh]
      /\ repeated' = IF h.fresh \intersect told[s] = {} THEN repeated ELSE repeated \union {s}
      /\ hook' = [hook EXCEPT ![p] = Idle]
      /\ UNCHANGED <<cache, denied, serial>>
  BY DEF Answer, Reminder
<1>3. ~Holding(h) /\ Owed(h, s) = h.fresh /\ told \in [Sessions -> SUBSET (Files \X Findings)]
  BY <1>1 DEF Holding, Owed, Reporting, HookInv, HookTypes
<1>4. hook'[p] = Idle /\ \A q \in Processes \ {p} : hook'[q] = hook[q]
  BY <1>2 DEF HookInv, HookTypes
<1>5. serial # {} => Latest' = Latest
  BY <1>2, <1>3, IdleIsQuiet, LatestStays
<1>6. /\ told'[s] = told[s] \union h.fresh /\ \A t \in Sessions \ {s} : told'[t] = told[t]
      /\ repeated' \subseteq repeated \union {s}
  BY <1>1, <1>2, <1>3
<1>7. serial' = serial /\ serial \in SUBSET Sessions
  BY <1>2 DEF Histories
<1> HIDE DEF s
<1>8. ASSUME NEW t \in serial' \ Gated, t # s PROVE TellsOnce(t)'
  <2> DEFINE new == {}
  <2>1. TellsOnce(t) /\ t \in Sessions /\ Latest' = Latest
    BY <1>5, <1>7 DEF OneByOne
  <2>2. /\ Owed(Idle, t) \subseteq Owed(hook[p], t) \union new
        /\ new \intersect told[t] = {}
        /\ \A q \in Processes : Owed(hook[q], t) \intersect new = {}
    BY IdleIsQuiet
  <2>3. \A g \in Files, x \in Findings :
           x \in Latest.entry[t][g].known \/ <<g, x>> \in new
               => x \in Latest'.entry[t][g].known
    BY <2>1
  <2>4. told'[t] = told[t] /\ (t \in repeated' => t \in repeated)
    BY <1>6, <1>8, <2>1
  <2> HIDE DEF new
  <2> QED BY <1>2, <2>1, <2>2, <2>3, <2>4, IdleIsHookState, TellsStep
<1>9. ASSUME NEW t \in serial' \ Gated, t = s PROVE TellsOnce(t)'
  <2>1. TellsOnce(t) /\ Latest' = Latest
    BY <1>5, <1>7, <1>9 DEF OneByOne
  <2>2. t \notin repeated'
    BY <1>2, <1>3, <1>9, <2>1 DEF TellsOnce
  <2>3. Owed(hook'[p], t) = {} /\ \A q \in Processes \ {p} : Owed(hook'[q], t) = Owed(hook[q], t)
    BY <1>4, IdleIsQuiet
  <2>4. \A q \in Processes \ {p} : Owed(hook[q], t) \intersect h.fresh = {}
    BY <1>3, <1>9, <2>1 DEF TellsOnce
  <2>5. \A q \in Processes : Owed(hook'[q], t) \intersect told'[t] = {}
    BY <1>6, <1>9, <2>1, <2>3, <2>4 DEF TellsOnce
  <2>6. \A q \in Processes : \A r \in Processes \ {q} :
           Owed(hook'[q], t) \intersect Owed(hook'[r], t) = {}
    BY <2>1, <2>3 DEF TellsOnce
  <2>7. ASSUME NEW g \in Files, NEW x \in Findings,
               <<g, x>> \in told'[t] \union UNION {Owed(hook'[q], t) : q \in Processes}
        PROVE  x \in Latest'.entry[t][g].known
    <3>1. <<g, x>> \in told[t] \union UNION {Owed(hook[q], t) : q \in Processes}
      BY <1>3, <1>6, <1>9, <2>3, <2>7
    <3> QED BY <2>1, <3>1 DEF TellsOnce
  <2> QED BY <2>2, <2>5, <2>6, <2>7 DEF TellsOnce, Owed, Reporting
<1>10. ASSUME NEW t \in serial' \intersect Gated PROVE DeniesSeldom(t)'
  <2>1. DeniesSeldom(t) /\ t \in Sessions /\ Latest' = Latest
    BY <1>5, <1>7 DEF OneByOne
  <2>2. \A g \in Files, found \in SUBSET Findings :
           /\ IsFiniteSet(Denying(t, g, found)')
           /\ DenialsTo(t, g, found)' <= Threshold
           /\ DenialsTo(t, g, found)' <= Latest'.entry[t][g].denials[found]
    BY <1>2, <2>1, IdleIsQuiet, IdleIsHookState, DeniesStep
  <2> QED BY <2>2 DEF DeniesSeldom
<1>11. /\ serial' \in SUBSET serial /\ repeated' \intersect Gated = {}
       /\ DeniedProper'
  <2>1. repeated' \intersect Gated = {}
    BY <1>1, <1>6 DEF Histories
  <2>2. DeniedProper' /\ serial' \in SUBSET serial
    BY <1>2, DeniedSame
  <2> QED BY <2>1, <2>2
<1>12. \A t \in serial' \ Gated : TellsOnce(t)'
  <2> TAKE t \in serial' \ Gated
  <2> QED BY <1>8, <1>9
<1> QED BY <1>2, <1>10, <1>11, <1>12, IdleIsQuiet, IdleIsHookState, SerialStep

\* A denial that was to come is made.
LEMMA OneDenialMade ==
    ASSUME HookInv, Histories, NEW p \in Processes,
           hook' = [hook EXCEPT ![p] = Idle],
           NEW s \in Sessions, NEW f \in Files, NEW found \in SUBSET Findings,
           DeniesSeldom(s), Denies(hook[p], s, f, found), Latest' = Latest,
           denied'[s][f][found] = denied[s][f][found] + 1
    PROVE  /\ IsFiniteSet(Denying(s, f, found)')
           /\ DenialsTo(s, f, found)' <= Threshold
           /\ DenialsTo(s, f, found)' <= Latest'.entry[s][f].denials[found]
<1>1. hook'[p] = Idle /\ \A q \in Processes \ {p} : hook'[q] = hook[q]
  BY DEF HookInv, HookTypes
<1> DEFINE before == Denying(s, f, found)
           after == {q \in Processes : Denies(hook'[q], s, f, found)}
<1>2. Denying(s, f, found)' = after
  BY DEF Denying, Denies, Reporting
<1>3. p \in before
  BY DEF Denying
<1>4. after = before \ {p}
  BY <1>1, IdleIsQuiet DEF Denying
<1>5. /\ IsFiniteSet(before)
      /\ denied[s][f][found] + Cardinality(before) <= Threshold
      /\ denied[s][f][found] + Cardinality(before) <= Latest.entry[s][f].denials[found]
  BY DEF DeniesSeldom, DenialsTo
<1>6. denied[s][f][found] \in Nat
  BY DEF Histories, DeniedProper
<1>7. DenialsTo(s, f, found)' = denied'[s][f][found] + Cardinality(Denying(s, f, found)')
  BY DEF DenialsTo
<1> HIDE DEF before, after
<1>8. /\ IsFiniteSet(after) /\ Cardinality(after) = Cardinality(before) - 1
      /\ Cardinality(before) \in Nat
  BY <1>3, <1>4, <1>5, FS_RemoveElement, FS_CardinalityType
<1>9. DenialsTo(s, f, found)' = (denied[s][f][found] + 1) + Cardinality(after)
  BY <1>2, <1>7
<1>10. DenialsTo(s, f, found)' = denied[s][f][found] + Cardinality(before)
  BY ONLY <1>6, <1>8, <1>9
<1> QED BY <1>2, <1>5, <1>8, <1>10

LEMMA AnswerWriteExact ==
    ASSUME HookInv, HookInv', Histories, OneByOne, NEW p \in Processes, AnswerWrite(p)
    PROVE  Histories' /\ OneByOne'
<1> DEFINE h == hook[p]
           s == h.session
           f == CHOOSE f \in Files : h.patch = {f}
           found == {x \in Findings : <<f, x>> \in h.fresh}
<1>1. h \in HookStates /\ Placed(h) /\ h.pc = "answer" /\ s \in Sessions /\ s \in Gated
  BY DEF HookInv, HookTypes, AnswerWrite, Placed
<1>2. f \in Files /\ h.patch = {f} /\ found \in SUBSET Findings
  BY <1>1 DEF Placed
<1>3. /\ hook' = [hook EXCEPT ![p] = Idle]
      /\ UNCHANGED <<cache, told, repeated, serial>>
      /\ \/ denied' = denied
         \/ ~(h.count > Threshold) /\ denied' = [denied EXCEPT ![s][f][found] = @ + 1]
  BY DEF AnswerWrite
<1>4. ~Holding(h) /\ Reporting(h) /\ h.count \in Nat /\ Threshold \in Nat
  BY <1>1, HookAssumption DEF Holding, Reporting, HookStates
<1>5. ASSUME ~(h.count > Threshold) PROVE Denies(h, s, f, found)
  <2>1. h.count <= Threshold
    BY <1>4, <1>5
  <2> QED BY <1>2, <1>4, <2>1 DEF Denies
<1> HIDE DEF f, found, s
<1>6. CASE denied' = denied
  <2>1. Idle.pc = "idle" /\ serial' \in SUBSET serial
    BY <1>3 DEF Idle
  <2> QED BY <1>3, <1>4, <1>6, <2>1, IdleIsQuiet, IdleIsHookState, QuietIdle
<1>7. ASSUME ~(h.count > Threshold), denied' = [denied EXCEPT ![s][f][found] = @ + 1]
      PROVE  Histories' /\ OneByOne'
  <2>1. denied \in [Sessions -> [Files -> [SUBSET Findings -> Nat]]]
    BY DEF Histories, DeniedProper
  <2>2. [denied[s] EXCEPT ![f][found] = @ + 1] \in [Files -> [SUBSET Findings -> Nat]]
    <3>1. denied[s] \in [Files -> [SUBSET Findings -> Nat]]
      BY <1>1, <2>1
    <3>2. denied[s][f] \in [SUBSET Findings -> Nat]
      BY <1>2, <3>1
    <3>3. [denied[s][f] EXCEPT ![found] = @ + 1] \in [SUBSET Findings -> Nat]
      BY <1>2, <3>2
    <3> QED BY <3>1, <3>3
  <2>3. denied' \in [Sessions -> [Files -> [SUBSET Findings -> Nat]]]
    BY <1>7, <2>1, <2>2
  <2>4. ASSUME NEW t \in Sessions, NEW g \in Files, NEW x \in SUBSET Findings
        PROVE  denied'[t][g][x] = IF t = s /\ g = f /\ x = found THEN denied[t][g][x] + 1
                                  ELSE denied[t][g][x]
    <3>1. denied[s] \in [Files -> [SUBSET Findings -> Nat]]
      BY <1>1, <2>1
    <3>2. denied[s][f] \in [SUBSET Findings -> Nat]
      BY <1>2, <3>1
    <3>3. CASE t # s
      BY <1>7, <2>1, <3>3
    <3>4. CASE t = s
      <4>1. denied'[t] = [denied[s] EXCEPT ![f][found] = @ + 1]
        BY <1>7, <2>1, <3>4
      <4> QED BY <1>2, <3>1, <3>2, <3>4, <4>1
    <3> QED BY <3>3, <3>4
  <2>5. serial # {} => Latest' = Latest
    BY <1>3, <1>4, IdleIsQuiet, IdleIsHookState, LatestStays
  <2>6. serial' = serial /\ serial \in SUBSET Sessions
    BY <1>3 DEF Histories
  <2>7. ASSUME NEW t \in serial' \ Gated PROVE TellsOnce(t)'
    <3> DEFINE new == {}
    <3>1. TellsOnce(t) /\ t \in Sessions /\ Latest' = Latest
      BY <2>5, <2>6 DEF OneByOne
    <3>2. /\ Owed(Idle, t) \subseteq Owed(hook[p], t) \union new
          /\ new \intersect told[t] = {}
          /\ \A q \in Processes : Owed(hook[q], t) \intersect new = {}
      BY IdleIsQuiet
    <3>3. \A g \in Files, x \in Findings :
             x \in Latest.entry[t][g].known \/ <<g, x>> \in new
                 => x \in Latest'.entry[t][g].known
      BY <3>1
    <3>4. told'[t] = told[t] /\ repeated' = repeated
      BY <1>3
    <3> HIDE DEF new
    <3> QED BY <1>3, <3>1, <3>2, <3>3, <3>4, IdleIsHookState, TellsStep
  <2>8. ASSUME NEW t \in serial' \intersect Gated PROVE DeniesSeldom(t)'
    <3>1. DeniesSeldom(t) /\ t \in Sessions /\ Latest' = Latest
      BY <2>5, <2>6 DEF OneByOne
    <3>2. ASSUME NEW g \in Files, NEW x \in SUBSET Findings
          PROVE  /\ IsFiniteSet(Denying(t, g, x)')
                 /\ DenialsTo(t, g, x)' <= Threshold
                 /\ DenialsTo(t, g, x)' <= Latest'.entry[t][g].denials[x]
      <4>1. CASE t = s /\ g = f /\ x = found
        <5>1. denied'[t][g][x] = denied[t][g][x] + 1
          BY <2>4, <3>1, <4>1
        <5>2. Denies(hook[p], t, g, x)
          BY <1>5, <1>7, <4>1
        <5> QED BY <1>3, <3>1, <5>1, <5>2, OneDenialMade
      <4>2. CASE ~(t = s /\ g = f /\ x = found)
        <5>1. denied'[t][g][x] = denied[t][g][x]
          BY <2>4, <3>1, <4>2
        <5>2. ~Denies(Idle, t, g, x)
          BY IdleIsQuiet
        <5> QED BY <1>3, <3>1, <5>1, <5>2, IdleIsHookState, DeniesStep
      <4> QED BY <4>1, <4>2
    <3> QED BY <3>2 DEF DeniesSeldom
  <2>9. \A t \in Sessions \ Gated, g \in Files, x \in SUBSET Findings : denied'[t][g][x] = 0
    <3> SUFFICES ASSUME NEW t \in Sessions \ Gated, NEW g \in Files, NEW x \in SUBSET Findings
                 PROVE  denied'[t][g][x] = 0
      OBVIOUS
    <3>1. denied[t][g][x] = 0 /\ t # s
      BY ONLY Histories, <1>1 DEF Histories, DeniedProper
    <3>2. denied'[t][g][x] = denied[t][g][x]
      BY <2>4, <3>1
    <3> QED BY <3>1, <3>2
  <2>10. serial' \in SUBSET serial /\ repeated' \intersect Gated = {}
    BY <1>3 DEF Histories
  <2>11. DeniedProper'
    BY <2>3, <2>9 DEF DeniedProper
  <2> QED BY <1>3, <2>7, <2>8, <2>10, <2>11, IdleIsQuiet, IdleIsHookState, SerialStep
<1> QED BY <1>3, <1>6, <1>7

LEMMA OthersExact ==
    ASSUME HookInv, Histories, OneByOne, Configure \/ Reset \/ UNCHANGED vars
    PROVE  Histories' /\ OneByOne'
<1>1. UNCHANGED <<hook, told, repeated, denied>>
  BY DEF Configure, Reset, Command, vars, history
<1>2. serial' = {} \/ (serial' = serial /\ cache' = cache)
  BY DEF Configure, Reset, Command, vars, history
<1>3. serial' \in SUBSET Sessions
  BY <1>2 DEF Histories
<1>4. Histories'
  <2>1. repeated' \intersect Gated = {}
    BY <1>1 DEF Histories
  <2>2. DeniedProper'
    BY <1>1, DeniedSame
  <2>4. \A p \in Processes :
           /\ Kept(hook'[p].snap)
           /\ ~Reporting(hook'[p]) => hook'[p].fresh = {}
    BY <1>1 DEF Histories
  <2> QED BY <1>3, <2>1, <2>2, <2>4 DEF Histories, Kept, Cached, Reporting
<1>5. CASE serial' = {}
  <2>1. \A s \in serial' : FALSE
    BY <1>5
  <2>2. serial' # {} => \A p, q \in Processes : Holds(p)' /\ Holds(q)' => p = q
    BY <1>5
  <2>3. \A s \in serial' \ Gated : TellsOnce(s)'
    BY <2>1
  <2>4. \A s \in serial' \intersect Gated : DeniesSeldom(s)'
    BY <2>1
  <2> QED BY <1>4, <2>2, <2>3, <2>4 DEF OneByOne
<1>6. CASE serial' = serial /\ cache' = cache
  <2>1. Latest' = Latest
    BY <1>1, <1>6 DEF Latest
  <2>2. serial' # {} => \A p, q \in Processes : Holds(p)' /\ Holds(q)' => p = q
    BY ONLY OneByOne, <1>1, <1>6 DEF OneByOne, Holds
  <2>3. \A s \in serial' \ Gated : TellsOnce(s)'
    BY ONLY OneByOne, <1>1, <1>6, <2>1 DEF OneByOne, TellsOnce, Owed, Reporting
  <2>4. ASSUME NEW s \in serial \intersect Gated, NEW f \in Files, NEW found \in SUBSET Findings
        PROVE  /\ IsFiniteSet(Denying(s, f, found)')
               /\ DenialsTo(s, f, found)' <= Threshold
               /\ DenialsTo(s, f, found)' <= Latest'.entry[s][f].denials[found]
    <3>1. Denying(s, f, found)' = Denying(s, f, found)
      BY <1>1 DEF Denying
    <3>2. DenialsTo(s, f, found)' = DenialsTo(s, f, found)
      BY <1>1, <3>1 DEF DenialsTo
    <3>3. DeniesSeldom(s)
      BY DEF OneByOne
    <3> QED BY <2>1, <3>1, <3>2, <3>3 DEF DeniesSeldom
  <2>6. \A s \in serial' \intersect Gated : DeniesSeldom(s)'
    BY <1>6, <2>4 DEF DeniesSeldom
  <2> QED BY <1>4, <2>2, <2>3, <2>6 DEF OneByOne
<1> QED BY <1>2, <1>5, <1>6

-----------------------------------------------------------------------------

\* While no two processes of the project overlap, none fails, and the session is
\* not evicted, dedupeAgainstCache tells an agent of each finding once, and
\* bumpCursorDenial lets a write through after Threshold denials.
THEOREM HookExact == Spec => []ExactOneByOne
<1>1. Init => Histories /\ OneByOne
  <2> SUFFICES ASSUME Init PROVE Histories /\ OneByOne
    OBVIOUS
  <2>1. /\ \A p \in Processes : hook[p] = Idle
        /\ cache = Empty /\ serial = Sessions /\ repeated = {}
        /\ \A s \in Sessions : told[s] = {}
    BY DEF Init
  <2>2. /\ denied \in [Sessions -> [Files -> [SUBSET Findings -> Nat]]]
        /\ \A s \in Sessions, f \in Files, found \in SUBSET Findings : denied[s][f][found] = 0
    BY DEF Init, Unseen
  <2>3. Histories
    BY <2>1, <2>2, IdleIsQuiet DEF Histories, DeniedProper
  <2>4. Latest = Empty
    BY <2>1, IdleIsQuiet, LatestFree
  <2>5. ASSUME NEW s \in serial \ Gated PROVE TellsOnce(s)
    BY <2>1, IdleIsQuiet DEF TellsOnce
  <2>6. ASSUME NEW s \in serial \intersect Gated PROVE DeniesSeldom(s)
    <3> SUFFICES ASSUME NEW f \in Files, NEW found \in SUBSET Findings
                 PROVE  /\ IsFiniteSet(Denying(s, f, found))
                        /\ DenialsTo(s, f, found) <= Threshold
                        /\ DenialsTo(s, f, found) <= Latest.entry[s][f].denials[found]
      BY DEF DeniesSeldom
    <3>1. Denying(s, f, found) = {}
      BY <2>1, IdleIsQuiet DEF Denying
    <3>2. IsFiniteSet(Denying(s, f, found)) /\ Cardinality(Denying(s, f, found)) = 0
      BY <3>1, FS_EmptySet
    <3>3. DenialsTo(s, f, found) = 0
      BY <2>1, <2>2, <3>2 DEF DenialsTo
    <3>4. Latest.entry[s][f].denials[found] = 0
      BY <2>1, <2>4 DEF Empty, Unseen
    <3> QED BY <3>2, <3>3, <3>4, HookAssumption
  <2>7. \A p \in Processes : ~Holds(p)
    BY <2>1, IdleIsQuiet DEF Holds, Holding
  <2> QED BY <2>3, <2>5, <2>6, <2>7 DEF OneByOne
<1>2. HookInv /\ HookInv' /\ Counting /\ Histories /\ OneByOne /\ [Next]_vars
          => Histories' /\ OneByOne'
  <2> SUFFICES ASSUME HookInv, HookInv', Counting, Histories, OneByOne, [Next]_vars
               PROVE  Histories' /\ OneByOne'
    OBVIOUS
  <2>1. ASSUME NEW p \in Processes, NEW s \in Sessions, NEW patch \in Patches,
               NEW after \in [Files -> SUBSET Findings], Edit(p, s, patch, after)
        PROVE  Histories' /\ OneByOne'
    BY <2>1, FireExact DEF Edit
  <2>2. ASSUME NEW p \in Processes, NEW s \in Sessions, NEW f \in Files,
               NEW after \in SUBSET Findings, Propose(p, s, f, after)
        PROVE  Histories' /\ OneByOne'
    BY <2>2, FireExact DEF Propose
  <2>3. ASSUME NEW p \in Processes, HookStep(p)
        PROVE  Histories' /\ OneByOne'
    BY <2>3, StartHookExact, ScanExact, TruncateExact, PersistExact, AnswerExact,
       AnswerWriteExact DEF HookStep
  <2>4. ASSUME NEW p \in Processes, ScanThrows(p) \/ PersistFails(p) \/ Killed(p)
        PROVE  Histories' /\ OneByOne'
    BY <2>4, ScanExact, FailsExact
  <2>5. CASE Configure \/ Reset \/ UNCHANGED vars
    BY <2>5, OthersExact
  <2> QED BY <2>1, <2>2, <2>3, <2>4, <2>5 DEF Next
<1>3. Histories /\ OneByOne => ExactOneByOne
  <2> SUFFICES ASSUME Histories, OneByOne, NEW s \in serial
               PROVE  /\ s \notin repeated
                      /\ \A f \in Files, found \in SUBSET Findings :
                            denied[s][f][found] <= Threshold
    BY DEF ExactOneByOne
  <2>1. s \in Sessions /\ Threshold \in Nat
    BY HookAssumption DEF Histories
  <2>2. CASE s \notin Gated
    <3>1. \A f \in Files, found \in SUBSET Findings : denied[s][f][found] = 0
      BY <2>1, <2>2 DEF Histories, DeniedProper
    <3>2. s \notin repeated
      BY <2>2 DEF OneByOne, TellsOnce
    <3> QED BY <2>1, <3>1, <3>2
  <2>3. CASE s \in Gated
    <3>1. s \notin repeated /\ DeniesSeldom(s)
      BY <2>3 DEF Histories, OneByOne
    <3>2. ASSUME NEW f \in Files, NEW found \in SUBSET Findings
          PROVE  denied[s][f][found] <= Threshold
      <4>1. /\ IsFiniteSet(Denying(s, f, found))
            /\ denied[s][f][found] + Cardinality(Denying(s, f, found)) <= Threshold
        BY <3>1 DEF DeniesSeldom, DenialsTo
      <4>2. Cardinality(Denying(s, f, found)) \in Nat /\ denied[s][f][found] \in Nat
        BY <2>1, <4>1, FS_CardinalityType DEF Histories, DeniedProper
      <4> QED BY ONLY <2>1, <4>1, <4>2
    <3> QED BY <3>1, <3>2
  <2> QED BY <2>2, <2>3
<1> QED BY <1>1, <1>2, <1>3, HookInvariant, HookCounting, PTL DEF Spec
=============================================================================
