-------------------------- MODULE ManualEditsProofs --------------------------
(***************************************************************************)
(* Theorems about the staged copy edits of live mode, for any number of    *)
(* edits, files, chunks and attempts to repair.                            *)
(*                                                                         *)
(* An Apply ends in one of a few ways, whatever its agent replies: it is   *)
(* rolled back to its snapshot, it returns with edits that the source      *)
(* shows, it is repaired, or its next chunk is dispatched (Outcome).  The  *)
(* proof shows this of every reply and of a timeout, then that each        *)
(* outcome, and each step of the user, of the tab and of the agent, keeps  *)
(* the invariant.                                                          *)
(***************************************************************************)
EXTENDS ManualEdits, FiniteSetTheorems, TLAPS

-----------------------------------------------------------------------------
(* The invariant                                                           *)

\* A snapshot has the text of every edit in its files.
Covered(fs) == {e \in Entries : FileOf[e] \in fs}

GoodSnapshot(s) ==
    /\ s \in Snapshots
    /\ DOMAIN s.source = Covered(s.files)

CommitRecords ==
    [stage : {"apply", "repair"}, batch : Texts, base : Snapshots,
     whole : BOOLEAN, todo : Seq(SUBSET Entries), applied : SUBSET Entries,
     failed : SUBSET Entries, files : SUBSET Files, attempt : 0..MaxAttempts]
AgentRecords ==
    [on : {"event", "tombstone", "unknown"}, snapshot : Snapshots,
     first : BOOLEAN, batch : Texts]

StateInv ==
    /\ source \in [Entries -> Versions] /\ broken \in SUBSET Files
    /\ buffer \in [Entries -> Versions] /\ applied \in [Entries -> Versions]
    /\ stray \in BOOLEAN /\ undone \in BOOLEAN

\* While a commit runs the tab is locked, so that the staged texts stay, and a
\* message of it finds the tab as it was when the commit began.
TabInv ==
    /\ locked \in BOOLEAN /\ kept \in BOOLEAN
    /\ offered \in BOOLEAN /\ disabled \in BOOLEAN
    /\ mail \in {"none", "done", "decision"}
    /\ mail # "none" => locked /\ ~offered /\ ~Running
    /\ Running => locked /\ kept /\ ~offered
    /\ offered => disabled

\* The transaction is of edits that are still staged, and of their files.
TransactionInv ==
    transaction # None =>
        /\ transaction \in Transactions
        /\ transaction.entries # {} /\ transaction.entries \subseteq Staged
        /\ GoodSnapshot(transaction.snapshot)
        /\ transaction.snapshot.files = FilesOf(transaction.entries)

\* A commit has a transaction, and the texts that are staged.
CommitInv ==
    Running =>
        /\ commit \in CommitRecords
        /\ DOMAIN commit.batch # {} /\ DOMAIN commit.batch \subseteq Staged
        /\ \A e \in DOMAIN commit.batch : commit.batch[e] = buffer[e]
        /\ commit.todo \in Seq(SUBSET DOMAIN commit.batch)
        /\ commit.applied \subseteq DOMAIN commit.batch
        /\ transaction # None
        /\ commit.stage = "apply" => commit.base = transaction.snapshot

EventInv ==
    /\ Running <=> event # None
    /\ event # None => /\ event \in ApplyEvents
                       /\ event.entries \subseteq DOMAIN commit.batch
                       /\ GoodSnapshot(event.snapshot)
                       /\ event.snapshot.files = FilesOf(event.entries)

\* An agent that is waited for has texts of the commit.
AgentInv ==
    /\ agent # NoWork => /\ agent \in AgentRecords /\ GoodSnapshot(agent.snapshot)
                         /\ \A e \in DOMAIN agent.batch :
                               FileOf[e] \in agent.snapshot.files
    /\ agent.on = "event" =>
          /\ event # None /\ event.taken
          /\ DOMAIN agent.batch \subseteq DOMAIN commit.batch
          /\ \A e \in DOMAIN agent.batch : agent.batch[e] = commit.batch[e]

\* While an agent is late, no Apply gets beyond its first event.
FirstInv ==
    /\ agent.on = "event" /\ agent.first => FirstEvent
    /\ Late /\ (transaction # None \/ Running) => FirstEvent

SettledInv == transaction = None /\ ~Late => source = applied /\ broken = {}

TargetInv ==
    transaction # None =>
        /\ \A e \in DOMAIN transaction.snapshot.source :
              transaction.snapshot.source[e] = applied[e]
        /\ transaction.snapshot.broken = {}
        /\ \A e \in Entries : FileOf[e] \notin transaction.snapshot.files =>
              source[e] = applied[e]
        /\ broken \subseteq transaction.snapshot.files
        /\ ~Late => \A e \in Entries \ Staged : source[e] = applied[e]

\* Outside of es the source is as it was, or has in a file of fs a text that
\* nothing looks for.
AsTold(es, fs) ==
    \A e \in Entries \ es : source[e] = applied[e] \/ e \in Overlooked(fs)

\* An Apply has only written edits of the batch; a repair only what counts as
\* applied, in the files it was reported for.
ProgressInv ==
    /\ commit.stage = "apply" /\ ~Late =>
          \A e \in Entries : source[e] = applied[e] \/ e \in DOMAIN commit.batch
    /\ commit.stage = "repair" =>
          AsTold(commit.applied, commit.files) /\ broken \subseteq commit.files

\* What the first event of an Apply would restore is what is applied, for as
\* long as its answer may come; elsewhere a late agent has changed nothing.
AsApplied(s) ==
    s.broken = {} /\ \A e \in DOMAIN s.source : s.source[e] = applied[e]

LateInv ==
    /\ FirstEvent => AsApplied(event.snapshot)
    /\ agent.on \in {"event", "tombstone"} /\ agent.first => AsApplied(agent.snapshot)
    /\ Late => /\ \A e \in Entries : FileOf[e] \notin agent.snapshot.files =>
                     source[e] = applied[e]
               /\ broken \subseteq agent.snapshot.files

TrustedInv ==
    ~stray /\ ~undone => SettledInv /\ TargetInv /\ ProgressInv /\ LateInv

EditsInv ==
    /\ StateInv /\ TabInv /\ TransactionInv /\ CommitInv /\ EventInv /\ AgentInv
    /\ FirstInv /\ TrustedInv

-----------------------------------------------------------------------------
(* Texts, snapshots and how they are restored                              *)

LEMMA HeadAndTail ==
    ASSUME NEW S, NEW q \in Seq(S), q # <<>>
    PROVE  Head(q) \in S /\ Tail(q) \in Seq(S)
OBVIOUS

LEMMA TextsAre ==
    /\ \A f \in Texts : DOMAIN f \subseteq Entries /\ f \in [DOMAIN f -> Versions]
    /\ \A es \in SUBSET Entries : \A f \in [es -> Versions] : f \in Texts
BY DEF Texts

LEMMA RestrictIs ==
    ASSUME NEW f, NEW D, NEW R, f \in [D -> R], NEW es \in SUBSET D
    PROVE  /\ Restrict(f, es) \in [es -> R] /\ DOMAIN Restrict(f, es) = es
           /\ \A e \in es : Restrict(f, es)[e] = f[e]
BY DEF Restrict

LEMMA SnapshotIs ==
    ASSUME NEW w, w.source \in [Entries -> Versions], w.broken \in SUBSET Files,
           NEW fs \in SUBSET Files
    PROVE  /\ GoodSnapshot(Snapshot(w, fs))
           /\ Snapshot(w, fs).files = fs
           /\ Snapshot(w, fs).broken = w.broken \cap fs
           /\ DOMAIN Snapshot(w, fs).source = Covered(fs)
           /\ \A e \in Covered(fs) : Snapshot(w, fs).source[e] = w.source[e]
<1> DEFINE texts == Restrict(w.source, {e \in Entries : FileOf[e] \in fs})
<1>1. Covered(fs) \in SUBSET Entries BY DEF Covered
<1>2. /\ texts \in [Covered(fs) -> Versions] /\ DOMAIN texts = Covered(fs)
      /\ \A e \in Covered(fs) : texts[e] = w.source[e]
  BY <1>1, RestrictIs DEF Covered
<1>3. texts \in Texts BY <1>1, <1>2, TextsAre
<1>4. Snapshot(w, fs) = [files |-> fs, broken |-> w.broken \cap fs,
                         source |-> texts]
  BY DEF Snapshot
<1> HIDE DEF texts
<1> QED BY <1>2, <1>3, <1>4 DEF GoodSnapshot, Snapshots

LEMMA RestoreIs ==
    ASSUME NEW w, w.source \in [Entries -> Versions], w.broken \in SUBSET Files,
           NEW s, GoodSnapshot(s)
    PROVE  /\ Restore(w, s).source \in [Entries -> Versions]
           /\ \A e \in Entries : Restore(w, s).source[e] =
                 IF FileOf[e] \in s.files THEN s.source[e] ELSE w.source[e]
           /\ Restore(w, s).broken = (w.broken \ s.files) \cup s.broken
           /\ Restore(w, s).broken \in SUBSET Files
<1>1. /\ s.source \in Texts /\ s.broken \in SUBSET Files
      /\ DOMAIN s.source = Covered(s.files)
  BY DEF GoodSnapshot, Snapshots
<1>2. \A e \in DOMAIN s.source : s.source[e] \in Versions
  BY <1>1, TextsAre
<1>3. \A e \in Entries : e \in DOMAIN s.source <=> FileOf[e] \in s.files
  BY <1>1 DEF Covered
<1> QED BY <1>1, <1>2, <1>3 DEF Restore

LEMMA WorldIs == World.source = source /\ World.broken = broken
BY DEF World

LEMMA FilesAreFiles == \A es \in SUBSET Entries : FilesOf(es) \in SUBSET Files
BY EditsAssumption DEF FilesOf

\* A dispatched event has a good snapshot.
LEMMA DispatchedIs ==
    ASSUME NEW w, w.source \in [Entries -> Versions], w.broken \in SUBSET Files,
           NEW es \in SUBSET Entries
    PROVE  /\ Dispatched(w, es) \in ApplyEvents /\ Dispatched(w, es) # None
           /\ Dispatched(w, es).entries = es /\ ~Dispatched(w, es).taken
           /\ GoodSnapshot(Dispatched(w, es).snapshot)
           /\ Dispatched(w, es).snapshot.files = FilesOf(es)
           /\ Dispatched(w, es).snapshot.broken \subseteq w.broken
           /\ \A e \in DOMAIN Dispatched(w, es).snapshot.source :
                 Dispatched(w, es).snapshot.source[e] = w.source[e]
<1> DEFINE s == Snapshot(w, FilesOf(es))
<1>1. /\ GoodSnapshot(s) /\ s.files = FilesOf(es) /\ s.broken \subseteq w.broken
      /\ \A e \in DOMAIN s.source : s.source[e] = w.source[e]
  BY FilesAreFiles, SnapshotIs
<1>2. s \in Snapshots BY <1>1 DEF GoodSnapshot
<1> DEFINE d == Dispatched(w, es)
<1>3. d = [entries |-> es, snapshot |-> s, taken |-> FALSE]
  BY DEF Dispatched
<1> HIDE DEF s, d
<1>4. d.entries = es /\ d.snapshot = s /\ ~d.taken BY <1>3
<1>5. d \in ApplyEvents BY <1>2, <1>3 DEF ApplyEvents
<1>6. d # None BY <1>5, EditsAssumption
<1> QED BY <1>1, <1>4, <1>5, <1>6 DEF d

-----------------------------------------------------------------------------
(* How an Apply goes on                                                    *)

Ends == commit.stage = "apply" /\ RollBackCommit

Succeeds ==
    \E es \in SUBSET DOMAIN commit.batch, fs \in SUBSET Files :
        /\ \A e \in es : Shown(e)
        /\ ~stray /\ ~undone => AsTold(es, fs) /\ broken = {}
        /\ Return(World, es, fs)

Retries ==
    \E es \in SUBSET DOMAIN commit.batch, fs \in SUBSET Files :
        /\ ~stray /\ ~undone => AsTold(es, fs) /\ broken \subseteq fs
        /\ Repair(es, fs)

\* The next chunk: c is the commit with what the chunks have reported so far.
Continues ==
    \E c \in CommitRecords :
        /\ c.stage = commit.stage /\ c.batch = commit.batch
        /\ c.base = commit.base /\ c.todo = commit.todo
        /\ c.applied \subseteq DOMAIN commit.batch
        /\ c.applied \cup c.failed # {}
        /\ commit.stage = "apply" /\ c.todo # <<>>
        /\ commit' = [c EXCEPT !.todo = Tail(@)]
        /\ event' = Dispatched(World, Head(c.todo))
        /\ UNCHANGED <<files, applied, mail>>

Outcome == Ends \/ Succeeds \/ Retries \/ Continues

\* A snapshot that a running Apply would be rolled back to.
LEMMA BaseIs ==
    ASSUME EditsInv, commit.stage = "apply"
    PROVE  /\ Running /\ transaction # None /\ GoodSnapshot(commit.base)
           /\ commit.base = transaction.snapshot
           /\ DOMAIN commit.batch \subseteq Entries
BY TextsAre
DEF EditsInv, CommitInv, CommitRecords, TransactionInv, Running

\* A file that is not as it was is among the changed ones.
LEMMA ChangedHasBroken ==
    ASSUME EditsInv, commit.stage = "apply", ~stray, ~undone
    PROVE  /\ \A f \in broken : f \in Changed
           /\ \A e \in Entries : source[e] # applied[e] => FileOf[e] \in Changed
<1>1. /\ transaction # None /\ GoodSnapshot(commit.base)
      /\ commit.base = transaction.snapshot
  BY BaseIs
<1>2. /\ source \in [Entries -> Versions] /\ broken \in SUBSET Files
  BY DEF EditsInv, StateInv
<1>3. TargetInv BY DEF EditsInv, TrustedInv
<1> DEFINE old == Restore(World, commit.base)
<1>4. /\ old.source \in [Entries -> Versions] /\ old.broken \in SUBSET Files
      /\ \A e \in Entries : FileOf[e] \in commit.base.files
                            => old.source[e] = commit.base.source[e]
      /\ old.broken = (broken \ commit.base.files) \cup commit.base.broken
  BY <1>1, <1>2, WorldIs, RestoreIs
<1>5. old.broken = {} BY <1>1, <1>3, <1>4 DEF TargetInv
<1> HIDE DEF old
<1>6. commit.base.files \in SUBSET Files
  BY <1>1 DEF GoodSnapshot, Snapshots
<1>7. \A f \in commit.base.files :
         f \in Changed <=> Snapshot(World, {f}) # Snapshot(old, {f})
  BY DEF Changed, old
<1>8. ASSUME NEW f \in broken PROVE f \in Changed
  <2>1. f \in commit.base.files /\ f \in Files
    BY <1>1, <1>2, <1>3 DEF TargetInv
  <2>2. {f} \in SUBSET Files BY <2>1
  <2>3. Snapshot(World, {f}).broken = broken \cap {f}
    BY <1>2, <2>2, WorldIs, SnapshotIs
  <2>4. Snapshot(old, {f}).broken = {}
    BY <1>4, <1>5, <2>2, SnapshotIs
  <2> QED BY <1>7, <2>1, <2>3, <2>4
<1>9. ASSUME NEW e \in Entries, source[e] # applied[e]
      PROVE  FileOf[e] \in Changed
  <2> DEFINE f == FileOf[e]
  <2>1. f \in commit.base.files /\ f \in Files
    BY <1>1, <1>3, <1>9, EditsAssumption DEF TargetInv
  <2>2. {f} \in SUBSET Files /\ e \in Covered({f}) BY <2>1 DEF Covered
  <2>3. Snapshot(World, {f}).source[e] = source[e]
    BY <1>2, <2>2, WorldIs, SnapshotIs
  <2>4. Snapshot(old, {f}).source[e] = commit.base.source[e]
    BY <1>4, <2>1, <2>2, SnapshotIs
  <2>5. e \in DOMAIN commit.base.source
    BY <1>1, <2>1 DEF GoodSnapshot, Covered
  <2>6. commit.base.source[e] = applied[e]
    BY <1>1, <1>3, <2>5 DEF TargetInv
  <2> QED BY <1>7, <1>9, <2>1, <2>3, <2>4, <2>6
<1> QED BY <1>8, <1>9

\* What no file and no edit of the result gives away is as it was.
LEMMA ReportedIsTold ==
    ASSUME EditsInv, commit.stage = "apply", ~Late, ~stray, ~undone,
           NEW es, Leaked(es) = {}, NEW fs, Changed \subseteq fs
    PROVE  AsTold(es, fs)
<1> SUFFICES ASSUME NEW e \in Entries \ es, source[e] # applied[e],
                    e \notin Overlooked(fs)
             PROVE  FALSE
  BY DEF AsTold
<1>1. /\ transaction # None /\ GoodSnapshot(commit.base)
      /\ commit.base = transaction.snapshot
  BY BaseIs
<1>2. TargetInv /\ ProgressInv BY DEF EditsInv, TrustedInv
<1>3. e \in DOMAIN commit.batch BY <1>2 DEF ProgressInv
<1>4. Shown(e)
  <2>1. FileOf[e] \in fs BY ChangedHasBroken
  <2> QED BY <1>3, <2>1 DEF Overlooked
<1>5. commit.base.source[e] = commit.batch[e] BY <1>3, <1>4 DEF Leaked
<1>6. e \in DOMAIN commit.base.source
  BY <1>1, <1>2 DEF TargetInv, GoodSnapshot, Covered
<1>7. commit.base.source[e] = applied[e]
  BY <1>1, <1>2, <1>6 DEF TargetInv
<1> QED BY <1>4, <1>5, <1>7 DEF Shown

LEMMA VerifyIs ==
    ASSUME EditsInv, commit.stage = "apply", ~Late, NEW result,
           result.applied \in SUBSET DOMAIN commit.batch,
           result.files \in SUBSET Files, Verify(result)
    PROVE  Outcome
<1> DEFINE ids == result.applied
           fs == result.files
           verified == {e \in ids : Shown(e)}
<1>1. CASE Refused(result)
  <2>1. RollBackCommit BY <1>1 DEF Verify
  <2> QED BY <2>1 DEF Outcome, Ends
<1>2. CASE ~Refused(result) /\ ids # {} /\ fs = {}
  <2>1. Repair(ids, {}) BY <1>2 DEF Verify
  <2>2. Changed = {} BY <1>2 DEF Refused
  <2>3. ~stray /\ ~undone => AsTold(ids, {}) /\ broken \subseteq {}
    BY <2>2, ChangedHasBroken DEF AsTold
  <2>4. {} \in SUBSET Files OBVIOUS
  <2> QED BY <2>1, <2>3, <2>4 DEF Outcome, Retries
<1>3. CASE ~Refused(result) /\ ~(ids # {} /\ fs = {}) /\ Leaked(ids) # {}
  <2>1. RollBackCommit BY <1>3 DEF Verify
  <2> QED BY <2>1 DEF Outcome, Ends
<1>4. CASE ~Refused(result) /\ ~(ids # {} /\ fs = {}) /\ Leaked(ids) = {}
  <2>1. ~stray /\ ~undone => AsTold(ids, fs) /\ broken \subseteq fs
    <3>1. Changed \subseteq fs BY <1>4 DEF Refused
    <3> QED BY <1>4, <3>1, ReportedIsTold, ChangedHasBroken
  <2>2. CASE verified # ids
    <3>1. Repair(ids, fs) BY <1>4, <2>2 DEF Verify
    <3> QED BY <2>1, <3>1 DEF Outcome, Retries
  <2>3. CASE verified = ids /\ broken \cap fs # {}
    <3> DEFINE es == IF verified # {} THEN verified ELSE DOMAIN commit.batch
    <3>1. Repair(es, fs) BY <1>4, <2>3 DEF Verify
    <3>2. es \in SUBSET DOMAIN commit.batch /\ ids \subseteq es BY <2>3
    <3> HIDE DEF es
    <3>3. AsTold(ids, fs) => AsTold(es, fs) BY <3>2 DEF AsTold
    <3> QED BY <2>1, <3>1, <3>2, <3>3 DEF Outcome, Retries
  <2>4. CASE verified = ids /\ broken \cap fs = {}
    <3>1. Return(World, ids, fs) BY <1>4, <2>4 DEF Verify
    <3>2. \A e \in ids : Shown(e) BY <2>4
    <3>3. ~stray /\ ~undone => AsTold(ids, fs) /\ broken = {} BY <2>1, <2>4
    <3> QED BY <3>1, <3>2, <3>3 DEF Outcome, Succeeds
  <2> QED BY <2>2, <2>3, <2>4
<1> QED BY <1>1, <1>2, <1>3, <1>4

\* A chunk is done with c, the commit with what the chunks reported.
LEMMA ChunkDoneIs ==
    ASSUME EditsInv, commit.stage = "apply", ~Late, NEW c \in CommitRecords,
           c.stage = commit.stage, c.batch = commit.batch, c.base = commit.base,
           c.todo = commit.todo, c.applied \subseteq DOMAIN commit.batch,
           NEW aborted \in BOOLEAN, aborted \/ c.applied \cup c.failed # {},
           ChunkDone(c, aborted)
    PROVE  Outcome
<1>1. CASE c.todo = <<>> \/ aborted
  <2> DEFINE r == Collected(c)
  <2>1. Verify(r) BY <1>1 DEF ChunkDone
  <2>2. r.applied \in SUBSET DOMAIN commit.batch /\ r.files \in SUBSET Files
    BY DEF Collected, CommitRecords
  <2> HIDE DEF r
  <2> QED BY <2>1, <2>2, VerifyIs
<1>2. CASE ~(c.todo = <<>> \/ aborted)
  BY <1>2 DEF ChunkDone, Outcome, Continues
<1> QED BY <1>1, <1>2

LEMMA ResolvedIs ==
    ASSUME EditsInv, event # None, ~Late,
           NEW r \in Replies(event.entries), Resolved(r)
    PROVE  Outcome
<1>1. /\ commit \in CommitRecords /\ commit.stage \in {"apply", "repair"}
      /\ commit.applied \subseteq DOMAIN commit.batch
      /\ commit.whole \in BOOLEAN /\ commit.files \subseteq Files
  BY DEF EditsInv, EventInv, CommitInv, CommitRecords
<1>2. /\ r.applied \subseteq event.entries /\ r.files \subseteq FilesOf(event.entries)
      /\ r.failed \subseteq event.entries /\ r.status \in {"done", "partial", "error"}
      /\ r.status # "error" => r.applied \cup r.failed # {}
  BY DEF Replies
<1>3. /\ event.entries \in SUBSET Entries
      /\ event.entries \subseteq DOMAIN commit.batch
  BY DEF EditsInv, EventInv, ApplyEvents
<1>4. r.files \in SUBSET Files BY <1>2, <1>3, FilesAreFiles
<1>5. CASE commit.stage = "apply" /\ commit.whole
  <2>1. Verify(r) BY <1>5 DEF Resolved
  <2> QED BY <1>2, <1>3, <1>4, <1>5, <2>1, VerifyIs
<1>6. CASE commit.stage = "apply" /\ ~commit.whole
  <2> DEFINE c == [commit EXCEPT !.applied = @ \cup r.applied,
                                 !.failed = @ \cup r.failed,
                                 !.files = @ \cup r.files]
             aborted == r.status = "error"
  <2>1. ChunkDone(c, aborted) BY <1>6 DEF Resolved
  <2>2. /\ c.stage = commit.stage /\ c.batch = commit.batch
        /\ c.base = commit.base /\ c.todo = commit.todo
        /\ c.applied \subseteq DOMAIN commit.batch
    BY <1>1, <1>2, <1>3 DEF CommitRecords
  <2>3. c \in CommitRecords BY <1>1, <1>2, <1>3, <1>4 DEF CommitRecords
  <2>4. aborted \in BOOLEAN OBVIOUS
  <2>5. aborted \/ c.applied \cup c.failed # {}
    <3>1. c.applied = commit.applied \cup r.applied /\ c.failed = commit.failed \cup r.failed
      BY <1>1 DEF CommitRecords
    <3> QED BY <1>2, <3>1
  <2> HIDE DEF c, aborted
  <2> QED BY <1>6, <2>1, <2>2, <2>3, <2>4, <2>5, ChunkDoneIs
<1>7. CASE commit.stage = "repair"
  <2> DEFINE es == commit.applied \cup r.applied
             fs == commit.files \cup r.files
  <2>1. IF (\A e \in es : Shown(e)) /\ broken \cap fs = {}
        THEN Return(World, es, fs) ELSE Repair(es, fs)
    BY <1>7 DEF Resolved
  <2>2. es \in SUBSET DOMAIN commit.batch /\ fs \in SUBSET Files
    BY <1>1, <1>2, <1>3, <1>4
  <2>3. ~stray /\ ~undone => AsTold(es, fs) /\ broken \subseteq fs
    <3> SUFFICES ASSUME ~stray, ~undone PROVE AsTold(es, fs) /\ broken \subseteq fs
      OBVIOUS
    <3>1. ProgressInv BY DEF EditsInv, TrustedInv
    <3> QED BY <1>7, <3>1 DEF ProgressInv, AsTold, Overlooked
  <2> HIDE DEF es, fs
  <2>4. CASE (\A e \in es : Shown(e)) /\ broken \cap fs = {}
    BY <2>1, <2>2, <2>3, <2>4 DEF Outcome, Succeeds
  <2>5. CASE ~((\A e \in es : Shown(e)) /\ broken \cap fs = {})
    BY <2>1, <2>2, <2>3, <2>5 DEF Outcome, Retries
  <2> QED BY <2>4, <2>5
<1> QED BY <1>1, <1>5, <1>6, <1>7

\* An Apply of which nothing was reported yet is rolled back.
LEMMA FirstRejected ==
    ASSUME EditsInv, event # None, FirstEvent, Rejected
    PROVE  Ends
<1>1. /\ commit.stage = "apply" /\ commit.applied = {}
      /\ DOMAIN commit.batch # {}
  BY DEF FirstEvent, EditsInv, EventInv, CommitInv
<1>2. CASE commit.whole
  BY <1>1, <1>2 DEF Rejected, Ends
<1>3. CASE ~commit.whole
  <2> DEFINE r == Collected(commit)
  <2>1. ChunkDone(commit, TRUE) BY <1>1, <1>3 DEF Rejected
  <2>2. Verify(r) BY <2>1 DEF ChunkDone
  <2>3. r.status = "error" BY <1>1 DEF Collected
  <2> HIDE DEF r
  <2>4. RollBackCommit BY <2>2, <2>3 DEF Verify, Refused
  <2> QED BY <1>1, <2>4 DEF Ends
<1> QED BY <1>2, <1>3

LEMMA RejectedIs ==
    ASSUME EditsInv, event # None, Rejected
    PROVE  Outcome /\ (FirstEvent => Ends)
<1>1. /\ commit \in CommitRecords /\ commit.stage \in {"apply", "repair"}
      /\ commit.applied \subseteq DOMAIN commit.batch
      /\ commit.whole \in BOOLEAN /\ commit.files \subseteq Files
      /\ Running
  BY DEF EditsInv, EventInv, CommitInv, CommitRecords
<1>2. CASE FirstEvent
  BY <1>2, FirstRejected DEF Outcome
<1>3. CASE ~FirstEvent
  <2>0. ~Late BY <1>1, <1>3 DEF EditsInv, FirstInv
  <2>1. CASE commit.stage = "apply" /\ commit.whole
    BY <2>1 DEF Rejected, Outcome, Ends
  <2>2. CASE commit.stage = "apply" /\ ~commit.whole
    <3>1. ChunkDone(commit, TRUE) BY <2>2 DEF Rejected
    <3>2. Outcome BY <1>1, <2>0, <2>2, <3>1, ChunkDoneIs
    <3> QED BY <1>3, <3>2
  <2>3. CASE commit.stage = "repair"
    <3>1. Repair(commit.applied, commit.files) BY <2>3 DEF Rejected
    <3>2. ~stray /\ ~undone =>
             AsTold(commit.applied, commit.files) /\ broken \subseteq commit.files
      BY <2>3 DEF EditsInv, TrustedInv, ProgressInv
    <3>3. Outcome BY <1>1, <3>1, <3>2 DEF Outcome, Retries
    <3> QED BY <1>3, <3>3
  <2>4. Outcome BY <1>1, <2>1, <2>2, <2>3
  <2> QED BY <1>3, <2>4
<1> QED BY <1>2, <1>3

-----------------------------------------------------------------------------
(* What the outcomes keep                                                  *)

\* The agent is no longer waited for.
LetsGo ==
    \/ agent' = NoWork
    \/ agent.on # "event" /\ agent' = agent
    \/ agent.on = "event" /\ agent' = [agent EXCEPT !.on = "tombstone"]
    \/ agent # NoWork /\ agent' = [agent EXCEPT !.on = "unknown"]

LEMMA LetsGoIs ==
    ASSUME AgentInv, LetsGo
    PROVE  AgentInv'
<1>1. agent' # NoWork =>
         /\ agent' \in AgentRecords /\ GoodSnapshot(agent'.snapshot)
         /\ \A e \in DOMAIN agent'.batch : FileOf[e] \in agent'.snapshot.files
  BY DEF AgentInv, LetsGo, AgentRecords, NoWork
<1>2. agent'.on # "event"
  BY DEF AgentInv, LetsGo, AgentRecords, NoWork
<1>3. agent' # NoWork => GoodSnapshot(agent.snapshot)'
  BY <1>1 DEF GoodSnapshot, Covered
<1> QED BY <1>1, <1>2, <1>3 DEF AgentInv, AgentRecords

\* An agent that is late now was late already, or is now.
LEMMA LateWasFirst ==
    ASSUME AgentInv, LetsGo, Late'
    PROVE  /\ agent.on \in {"event", "tombstone"} /\ agent.first
           /\ agent'.snapshot = agent.snapshot
BY DEF AgentInv, LetsGo, AgentRecords, NoWork, Late

LEMMA BatchIs ==
    ASSUME EditsInv, Running
    PROVE  /\ DOMAIN commit.batch \subseteq Entries
           /\ \A e \in DOMAIN commit.batch :
                 /\ commit.batch[e] = buffer[e] /\ buffer[e] # 0
                 /\ commit.batch[e] \in Versions
<1>1. /\ DOMAIN commit.batch \subseteq Staged
      /\ \A e \in DOMAIN commit.batch : commit.batch[e] = buffer[e]
  BY DEF EditsInv, CommitInv
<1> QED BY <1>1 DEF Staged, EditsInv, StateInv

\* The Apply is over, and so is its transaction.
LEMMA ReturnKeeps ==
    ASSUME EditsInv, Running, NEW w,
           w.source \in [Entries -> Versions], w.broken \in SUBSET Files,
           NEW es \in SUBSET DOMAIN commit.batch, NEW fs, Return(w, es, fs),
           ~stray /\ ~undone =>
              w.broken = {} /\ \A e \in Entries : w.source[e] = applied'[e],
           ~Late' \/ applied' = applied,
           LetsGo, UNCHANGED <<tab, stray, undone>>
    PROVE  EditsInv'
<1>1. /\ source' = w.source /\ broken' = w.broken
      /\ buffer' = [e \in Entries |-> IF e \in es THEN 0 ELSE buffer[e]]
      /\ applied' = [e \in Entries |-> IF e \in es THEN commit.batch[e]
                                       ELSE IF e \in Overlooked(fs) THEN source[e]
                                       ELSE applied[e]]
      /\ commit' = NoCommit /\ event' = None
      /\ transaction' = None /\ mail' = "done"
  BY DEF Return, Become, Clear
<1>2. ~Running' /\ commit'.stage = "idle" /\ ~FirstEvent'
  BY <1>1 DEF Running, NoCommit, FirstEvent
<1>3. StateInv'
  <2>1. 0 \in Versions BY EditsAssumption DEF Versions
  <2>2. buffer' \in [Entries -> Versions]
    BY <1>1, <2>1 DEF EditsInv, StateInv
  <2>3. applied' \in [Entries -> Versions]
    BY <1>1, BatchIs DEF EditsInv, StateInv
  <2> QED BY <1>1, <2>2, <2>3 DEF EditsInv, StateInv
<1>4. TabInv' BY <1>1, <1>2 DEF tab, EditsInv, TabInv
<1>5. TransactionInv' /\ CommitInv' BY <1>1, <1>2 DEF TransactionInv, CommitInv
<1>6. EventInv' BY <1>1, <1>2 DEF EventInv
<1>7. AgentInv' BY LetsGoIs DEF EditsInv
<1>8. FirstInv' BY <1>1, <1>2, <1>7 DEF FirstInv, AgentInv
<1>9. TrustedInv'
  <2> SUFFICES ASSUME ~stray, ~undone
               PROVE  SettledInv' /\ TargetInv' /\ ProgressInv' /\ LateInv'
    BY DEF TrustedInv
  <2>1. source' = applied' /\ broken' = {}
    BY <1>1, <1>3 DEF StateInv
  <2>2. SettledInv' /\ TargetInv' /\ ProgressInv'
    BY <1>1, <1>2, <2>1 DEF SettledInv, TargetInv, ProgressInv
  <2>3. agent'.on # "event" BY <1>1, <1>7 DEF AgentInv
  <2>4. Late' => AsApplied(agent.snapshot)'
    <3> SUFFICES ASSUME Late' PROVE AsApplied(agent.snapshot)'
      OBVIOUS
    <3>1. agent.on \in {"event", "tombstone"} /\ agent.first
          /\ agent'.snapshot = agent.snapshot
      BY LateWasFirst DEF EditsInv
    <3>2. AsApplied(agent.snapshot)
      BY <3>1 DEF EditsInv, TrustedInv, LateInv
    <3> QED BY <3>1, <3>2 DEF AsApplied
  <2>5. LateInv' BY <1>2, <2>1, <2>3, <2>4 DEF LateInv, Late
  <2> QED BY <2>2, <2>5
<1> QED BY <1>3, <1>4, <1>5, <1>6, <1>7, <1>8, <1>9 DEF EditsInv

LEMMA EndsKeeps ==
    ASSUME EditsInv, Ends, LetsGo, UNCHANGED <<tab, stray, undone>>
    PROVE  EditsInv'
<1> DEFINE w == Restore(World, commit.base)
<1>1. /\ Running /\ transaction # None /\ GoodSnapshot(commit.base)
      /\ commit.base = transaction.snapshot
  BY BaseIs DEF Ends
<1>2. /\ source \in [Entries -> Versions] /\ broken \in SUBSET Files
      /\ applied \in [Entries -> Versions]
  BY DEF EditsInv, StateInv
<1>3. /\ w.source \in [Entries -> Versions] /\ w.broken \in SUBSET Files
      /\ \A e \in Entries : w.source[e] =
            IF FileOf[e] \in commit.base.files THEN commit.base.source[e]
            ELSE source[e]
      /\ w.broken = (broken \ commit.base.files) \cup commit.base.broken
  BY <1>1, <1>2, WorldIs, RestoreIs
<1>4. Return(w, {}, {}) BY DEF Ends, RollBackCommit
<1>5. applied' = applied
  <2>1. Overlooked({}) = {} BY DEF Overlooked
  <2>2. applied' = [e \in Entries |-> applied[e]]
    BY <1>4, <2>1 DEF Return, Clear
  <2> QED BY <1>2, <2>2
<1> HIDE DEF w
<1>6. ASSUME ~stray, ~undone
      PROVE  w.broken = {} /\ \A e \in Entries : w.source[e] = applied'[e]
  <2>1. TargetInv BY <1>6 DEF EditsInv, TrustedInv
  <2>2. \A e \in Entries : FileOf[e] \in commit.base.files =>
           e \in DOMAIN commit.base.source
    BY <1>1 DEF GoodSnapshot, Covered
  <2> QED BY <1>1, <1>3, <1>5, <2>1, <2>2 DEF TargetInv
<1> QED BY <1>1, <1>3, <1>4, <1>5, <1>6, ReturnKeeps

LEMMA SucceedsKeeps ==
    ASSUME EditsInv, Running, Succeeds, ~Late', LetsGo,
           UNCHANGED <<tab, stray, undone>>
    PROVE  EditsInv'
<1>1. PICK es \in SUBSET DOMAIN commit.batch, fs \in SUBSET Files :
        /\ \A e \in es : Shown(e)
        /\ ~stray /\ ~undone => AsTold(es, fs) /\ broken = {}
        /\ Return(World, es, fs)
  BY DEF Succeeds
<1>2. source \in [Entries -> Versions] /\ broken \in SUBSET Files
  BY DEF EditsInv, StateInv
<1>3. applied' = [e \in Entries |-> IF e \in es THEN commit.batch[e]
                                    ELSE IF e \in Overlooked(fs) THEN source[e]
                                    ELSE applied[e]]
  BY <1>1 DEF Return, Clear
<1>4. ASSUME ~stray, ~undone
      PROVE  broken = {} /\ \A e \in Entries : source[e] = applied'[e]
  BY <1>1, <1>3, <1>4 DEF AsTold, Shown
<1> DEFINE w == World
<1>5. w.source = source /\ w.broken = broken BY WorldIs
<1>6. Return(w, es, fs) BY <1>1
<1> HIDE DEF w
<1> QED BY <1>2, <1>4, <1>5, <1>6, ReturnKeeps

\* What an Apply that goes on leaves alone.
LEMMA GoesOn ==
    ASSUME EditsInv, Late => Late', UNCHANGED <<files, applied, stray, undone>>
    PROVE  /\ StateInv' /\ TransactionInv' /\ Staged' = Staged
           /\ ~stray /\ ~undone => SettledInv' /\ TargetInv'
<1>1. StateInv' BY DEF EditsInv, StateInv, files
<1>2. Staged' = Staged BY DEF files, Staged
<1>3. TransactionInv'
  <2>1. transaction' = transaction BY DEF files
  <2> QED BY <1>2, <2>1
          DEF EditsInv, TransactionInv, GoodSnapshot, Covered, FilesOf
<1>4. ~stray /\ ~undone => SettledInv' /\ TargetInv'
  BY <1>2 DEF files, EditsInv, TrustedInv, SettledInv, TargetInv
<1> QED BY <1>1, <1>2, <1>3, <1>4

\* The commit goes on with c, for which an event is dispatched.
LEMMA CommitGoesOn ==
    ASSUME EditsInv, Running, NEW c \in CommitRecords,
           c.batch = commit.batch, c.base = commit.base,
           c.stage = "apply" =>
              commit.stage = "apply" /\ c.applied \cup c.failed # {},
           c.todo \in Seq(SUBSET DOMAIN commit.batch),
           c.applied \subseteq DOMAIN commit.batch,
           ~stray /\ ~undone /\ c.stage = "repair" =>
              AsTold(c.applied, c.files) /\ broken \subseteq c.files,
           NEW es \in SUBSET DOMAIN commit.batch,
           commit' = c, event' = Dispatched(World, es),
           UNCHANGED <<files, applied, mail>>,
           ~Late, ~Late', LetsGo, UNCHANGED <<tab, stray, undone>>
    PROVE  EditsInv'
<1>1. /\ Running' /\ c.stage \in {"apply", "repair"} /\ ~FirstEvent'
  BY DEF Running, CommitRecords, FirstEvent
<1>2. /\ StateInv' /\ TransactionInv' /\ Staged' = Staged
      /\ ~stray /\ ~undone => SettledInv' /\ TargetInv'
  BY GoesOn
<1>3. TabInv' BY <1>1 DEF tab, EditsInv, TabInv
<1>4. CommitInv'
  <2>1. /\ DOMAIN commit.batch # {} /\ DOMAIN commit.batch \subseteq Staged
        /\ \A e \in DOMAIN commit.batch : commit.batch[e] = buffer[e]
        /\ transaction # None
        /\ commit.stage = "apply" => commit.base = transaction.snapshot
    BY DEF EditsInv, CommitInv
  <2>2. buffer' = buffer /\ transaction' = transaction BY DEF files
  <2> QED BY <1>2, <2>1, <2>2 DEF CommitInv, CommitRecords
<1>5. EventInv'
  <2>1. es \in SUBSET Entries BY BatchIs
  <2>2. source \in [Entries -> Versions] /\ broken \in SUBSET Files
    BY DEF EditsInv, StateInv
  <2> DEFINE w == World
             ev == Dispatched(w, es)
  <2>3. w.source = source /\ w.broken = broken BY WorldIs
  <2> HIDE DEF w
  <2>4. /\ ev \in ApplyEvents /\ ev # None /\ ev.entries = es
        /\ GoodSnapshot(ev.snapshot) /\ ev.snapshot.files = FilesOf(es)
    BY <2>1, <2>2, <2>3, DispatchedIs
  <2>5. event' = ev BY DEF w
  <2> HIDE DEF ev
  <2>6. GoodSnapshot(event.snapshot)'
    BY <2>4, <2>5 DEF GoodSnapshot, Covered
  <2>7. (event.snapshot.files = FilesOf(event.entries))'
    BY <2>4, <2>5 DEF FilesOf
  <2> QED BY <1>1, <2>4, <2>5, <2>6, <2>7 DEF EventInv, ApplyEvents, Snapshots
<1>6. AgentInv' BY LetsGoIs DEF EditsInv
<1>7. agent'.on # "event"
  BY DEF EditsInv, AgentInv, LetsGo, AgentRecords, NoWork
<1>8. FirstInv' BY <1>7 DEF FirstInv
<1>9. ~stray /\ ~undone => ProgressInv' /\ LateInv'
  <2> SUFFICES ASSUME ~stray, ~undone PROVE ProgressInv' /\ LateInv'
    OBVIOUS
  <2>1. source' = source /\ broken' = broken /\ applied' = applied
    BY DEF files
  <2>2. ASSUME c.stage = "apply" PROVE ProgressInv'
    BY <2>1, <2>2 DEF EditsInv, TrustedInv, ProgressInv
  <2>3. ASSUME c.stage = "repair" PROVE ProgressInv'
    BY <2>1, <2>3 DEF ProgressInv, AsTold, Overlooked, Shown
  <2>4. LateInv' BY <1>1, <1>7 DEF LateInv, Late
  <2> QED BY <1>1, <2>2, <2>3, <2>4
<1>10. TrustedInv' BY <1>2, <1>9 DEF TrustedInv
<1> QED BY <1>2, <1>3, <1>4, <1>5, <1>6, <1>8, <1>10 DEF EditsInv

LEMMA ContinuesKeeps ==
    ASSUME EditsInv, Running, Continues, ~Late, ~Late', LetsGo,
           UNCHANGED <<tab, stray, undone>>
    PROVE  EditsInv'
<1>1. PICK c \in CommitRecords :
        /\ c.stage = commit.stage /\ c.batch = commit.batch
        /\ c.base = commit.base /\ c.todo = commit.todo
        /\ c.applied \subseteq DOMAIN commit.batch
        /\ c.applied \cup c.failed # {}
        /\ commit.stage = "apply" /\ c.todo # <<>>
        /\ commit' = [c EXCEPT !.todo = Tail(@)]
        /\ event' = Dispatched(World, Head(c.todo))
        /\ UNCHANGED <<files, applied, mail>>
  BY DEF Continues
<1>2. c.todo \in Seq(SUBSET DOMAIN commit.batch)
  BY <1>1 DEF EditsInv, CommitInv
<1>3. c.todo # <<>> BY <1>1
<1>4. Head(c.todo) \in SUBSET DOMAIN commit.batch
      /\ Tail(c.todo) \in Seq(SUBSET DOMAIN commit.batch)
  BY ONLY <1>2, <1>3, HeadAndTail
<1> DEFINE d == [c EXCEPT !.todo = Tail(@)]
<1>5. Tail(c.todo) \in Seq(SUBSET Entries)
  <2>1. c.todo \in Seq(SUBSET Entries) BY DEF CommitRecords
  <2> QED BY ONLY <2>1, <1>3, HeadAndTail
<1>6. /\ d \in CommitRecords /\ d.stage = "apply" /\ d.batch = commit.batch
      /\ d.base = commit.base /\ d.applied = c.applied /\ d.failed = c.failed
      /\ d.todo = Tail(c.todo)
  BY <1>1, <1>5 DEF CommitRecords
<1>7. commit' = d BY <1>1
<1> HIDE DEF d
<1> QED BY <1>1, <1>4, <1>6, <1>7, CommitGoesOn

LEMMA RetriesKeeps ==
    ASSUME EditsInv, Running, Retries, ~Late, ~Late', LetsGo,
           UNCHANGED <<tab, stray, undone>>
    PROVE  EditsInv'
<1>1. PICK es \in SUBSET DOMAIN commit.batch, fs \in SUBSET Files :
        /\ ~stray /\ ~undone => AsTold(es, fs) /\ broken \subseteq fs
        /\ Repair(es, fs)
  BY DEF Retries
<1>2. commit \in CommitRecords
      /\ commit.todo \in Seq(SUBSET DOMAIN commit.batch)
  BY DEF EditsInv, CommitInv
<1>3. CASE commit.attempt < MaxAttempts
  <2> DEFINE c == [commit EXCEPT !.stage = "repair", !.attempt = @ + 1,
                                 !.applied = es, !.files = fs]
  <2>1. /\ commit' = c /\ event' = Dispatched(World, DOMAIN commit.batch)
        /\ UNCHANGED <<files, applied, mail>>
    BY <1>1, <1>3 DEF Repair
  <2>2. commit.attempt + 1 \in 0..MaxAttempts
    BY <1>2, <1>3, EditsAssumption DEF CommitRecords
  <2>3. es \in SUBSET Entries BY BatchIs
  <2>4. /\ c \in CommitRecords /\ c.stage = "repair" /\ c.batch = commit.batch
        /\ c.base = commit.base /\ c.applied = es /\ c.files = fs
        /\ c.todo = commit.todo
    BY <1>2, <2>2, <2>3 DEF CommitRecords
  <2> HIDE DEF c
  <2>5. DOMAIN commit.batch \in SUBSET DOMAIN commit.batch OBVIOUS
  <2> QED BY <1>1, <1>2, <2>1, <2>4, <2>5, CommitGoesOn
<1>4. CASE ~(commit.attempt < MaxAttempts)
  <2>1. /\ commit' = NoCommit /\ event' = None /\ mail' = "decision"
        /\ UNCHANGED <<files, applied>>
    BY <1>1, <1>4 DEF Repair
  <2>2. ~Running' /\ commit'.stage = "idle" /\ ~FirstEvent'
    BY <2>1 DEF Running, NoCommit, FirstEvent
  <2>3. /\ StateInv' /\ TransactionInv'
        /\ ~stray /\ ~undone => SettledInv' /\ TargetInv'
    BY <2>1, GoesOn
  <2>4. TabInv' BY <2>1, <2>2 DEF tab, EditsInv, TabInv
  <2>5. CommitInv' /\ EventInv' BY <2>1, <2>2 DEF CommitInv, EventInv
  <2>6. AgentInv' BY LetsGoIs DEF EditsInv
  <2>7. agent'.on # "event" BY <2>1, <2>6 DEF AgentInv
  <2>8. FirstInv' BY <2>7 DEF FirstInv
  <2>9. LateInv' BY <2>2, <2>7 DEF LateInv, Late
  <2>10. TrustedInv' BY <2>2, <2>3, <2>9 DEF TrustedInv, ProgressInv
  <2> QED BY <2>3, <2>4, <2>5, <2>6, <2>8, <2>10 DEF EditsInv
<1> QED BY <1>3, <1>4

LEMMA OutcomeKeeps ==
    ASSUME EditsInv, Running, Outcome, Ends \/ (~Late /\ ~Late'), LetsGo,
           UNCHANGED <<tab, stray, undone>>
    PROVE  EditsInv'
BY EndsKeeps, SucceedsKeeps, RetriesKeeps, ContinuesKeeps DEF Outcome

-----------------------------------------------------------------------------
(* What the steps keep                                                     *)

LEMMA InitKeeps == Init => EditsInv
<1> SUFFICES ASSUME Init PROVE EditsInv
  OBVIOUS
<1> USE DEF Init, NoCommit, NoWork, Running, FirstEvent, Late
<1>1. StateInv
  <2>1. 0 \in Versions BY EditsAssumption DEF Versions
  <2> QED BY <2>1 DEF StateInv
<1>2. TabInv BY DEF TabInv
<1>3. TransactionInv /\ CommitInv BY DEF TransactionInv, CommitInv
<1>4. EventInv /\ AgentInv BY DEF EventInv, AgentInv
<1>5. FirstInv BY DEF FirstInv
<1>6. TrustedInv BY DEF TrustedInv, SettledInv, TargetInv, ProgressInv, LateInv
<1> QED BY <1>1, <1>2, <1>3, <1>4, <1>5, <1>6 DEF EditsInv

\* A late agent that has changed nothing since, or is undone, leaves what is
\* applied.
LEMMA LateIsUndone ==
    ASSUME EditsInv, Late, ~stray, ~undone
    PROVE  /\ Restore(World, agent.snapshot).source = applied
           /\ Restore(World, agent.snapshot).broken = {}
<1> DEFINE s == agent.snapshot
           w == Restore(World, s)
<1>1. /\ source \in [Entries -> Versions] /\ broken \in SUBSET Files
      /\ applied \in [Entries -> Versions]
  BY DEF EditsInv, StateInv
<1>2. GoodSnapshot(s) BY DEF EditsInv, AgentInv, Late, NoWork
<1>3. /\ w.source \in [Entries -> Versions]
      /\ \A e \in Entries : w.source[e] =
            IF FileOf[e] \in s.files THEN s.source[e] ELSE source[e]
      /\ w.broken = (broken \ s.files) \cup s.broken
  BY <1>1, <1>2, WorldIs, RestoreIs
<1>4. \A e \in Entries : FileOf[e] \in s.files => e \in DOMAIN s.source
  BY <1>2 DEF GoodSnapshot, Covered
<1>5. LateInv BY DEF EditsInv, TrustedInv
<1>6. /\ s.broken = {} /\ \A e \in DOMAIN s.source : s.source[e] = applied[e]
      /\ \A e \in Entries : FileOf[e] \notin s.files => source[e] = applied[e]
      /\ broken \subseteq s.files
  BY <1>5 DEF LateInv, AsApplied, Late
<1> HIDE DEF w, s
<1>7. \A e \in Entries : w.source[e] = applied[e] BY <1>3, <1>4, <1>6
<1>8. w.source = applied BY <1>1, <1>3, <1>7
<1>9. w.broken = {} BY <1>3, <1>6
<1> QED BY <1>8, <1>9 DEF w, s

LEMMA Finished ==
    ASSUME EditsInv, Late, ~Unfinished, ~stray, ~undone
    PROVE  source = applied /\ broken = {}
<1>1. Restore(World, agent.snapshot) = World BY DEF Unfinished
<1> QED BY <1>1, LateIsUndone, WorldIs

LEMMA UnfinishedIsBoolean == Unfinished \in BOOLEAN
BY DEF Unfinished

\* What is restored when an Apply is given up is what the user was told.
LEMMA RolledBackIs ==
    ASSUME EditsInv
    PROVE  /\ RolledBack.source \in [Entries -> Versions]
           /\ RolledBack.broken \in SUBSET Files
           /\ ~stray /\ ~undone /\ (transaction # None \/ ~Late \/ ~Unfinished) =>
                 RolledBack.source = applied /\ RolledBack.broken = {}
<1>1. /\ source \in [Entries -> Versions] /\ broken \in SUBSET Files
      /\ applied \in [Entries -> Versions]
  BY DEF EditsInv, StateInv
<1>2. CASE transaction = None
  <2>1. RolledBack = World BY <1>2 DEF RolledBack
  <2>2. ~stray /\ ~undone /\ (~Late \/ ~Unfinished) =>
           source = applied /\ broken = {}
    BY <1>2, Finished DEF EditsInv, TrustedInv, SettledInv
  <2> QED BY <1>1, <1>2, <2>1, <2>2, WorldIs
<1>3. CASE transaction # None
  <2> DEFINE s == transaction.snapshot
             w == Restore(World, s)
  <2>1. /\ GoodSnapshot(s) /\ transaction.entries \cap Staged # {}
    BY <1>3 DEF EditsInv, TransactionInv
  <2>2. RolledBack = w BY <1>3, <2>1 DEF RolledBack
  <2>3. /\ w.source \in [Entries -> Versions]
        /\ \A e \in Entries : w.source[e] =
              IF FileOf[e] \in s.files THEN s.source[e] ELSE source[e]
        /\ w.broken = (broken \ s.files) \cup s.broken
        /\ w.broken \in SUBSET Files
    BY <1>1, <2>1, WorldIs, RestoreIs
  <2>4. ASSUME ~stray, ~undone PROVE w.source = applied /\ w.broken = {}
    <3>1. TargetInv BY <2>4 DEF EditsInv, TrustedInv
    <3>2. \A e \in Entries : FileOf[e] \in s.files => e \in DOMAIN s.source
      BY <2>1 DEF GoodSnapshot, Covered
    <3>3. /\ \A e \in DOMAIN s.source : s.source[e] = applied[e]
          /\ s.broken = {} /\ broken \subseteq s.files
          /\ \A e \in Entries : FileOf[e] \notin s.files => source[e] = applied[e]
      BY <1>3, <3>1 DEF TargetInv
    <3> HIDE DEF w, s
    <3>4. \A e \in Entries : w.source[e] = applied[e] BY <2>3, <3>2, <3>3
    <3>5. w.broken = {} BY <2>3, <3>3
    <3> QED BY <1>1, <2>3, <3>4, <3>5
  <2> HIDE DEF w
  <2> QED BY <2>2, <2>3, <2>4
<1> QED BY <1>2, <1>3

\* Nothing of the helper changes while no commit runs.
LEMMA StaysIdle ==
    ASSUME EditsInv, ~Running, UNCHANGED <<commit, event, agent>>
    PROVE  /\ ~Running' /\ CommitInv' /\ EventInv' /\ AgentInv' /\ ProgressInv'
           /\ ~FirstEvent' /\ agent.on # "event" /\ Late' = Late
<1>1. ~Running' /\ ~FirstEvent' BY DEF Running, FirstEvent
<1>2. event = None /\ event' = None BY DEF EditsInv, EventInv
<1>3. agent.on # "event" BY <1>2 DEF EditsInv, AgentInv
<1>4. AgentInv'
  <2>1. LetsGo BY <1>3 DEF LetsGo
  <2> QED BY <2>1, LetsGoIs DEF EditsInv
<1>5. Late' = Late BY DEF Late
<1> QED BY <1>1, <1>2, <1>3, <1>4, <1>5 DEF CommitInv, EventInv, ProgressInv, Running

\* The source is as the user was told, and no Apply is under way.
LEMMA Settles ==
    ASSUME EditsInv, ~Running, StateInv', TabInv', transaction' = None,
           Become(RolledBack), UNCHANGED <<commit, event, agent, history>>
    PROVE  EditsInv'
<1>1. /\ ~Running' /\ CommitInv' /\ EventInv' /\ AgentInv' /\ ProgressInv'
      /\ ~FirstEvent' /\ agent.on # "event" /\ Late' = Late
  BY StaysIdle
<1>2. TransactionInv' /\ TargetInv' BY DEF TransactionInv, TargetInv
<1>3. FirstInv' BY <1>1 DEF FirstInv
<1>4. ASSUME ~stray', ~undone' PROVE SettledInv' /\ LateInv'
  <2>1. ~stray /\ ~undone BY <1>4 DEF history
  <2>2. CASE ~Late
    <3>1. SettledInv' BY <2>1, <2>2, RolledBackIs DEF Become, history, SettledInv
    <3>2. LateInv' BY <1>1, <2>2 DEF LateInv, Late
    <3> QED BY <3>1, <3>2
  <2>3. CASE Late
    <3>1. transaction = None /\ LateInv
      <4>1. ~FirstEvent BY DEF FirstEvent, Running
      <4> QED BY <2>1, <2>3, <4>1 DEF EditsInv, FirstInv, TrustedInv
    <3>2. RolledBack = World BY <3>1 DEF RolledBack
    <3>3. source' = source /\ broken' = broken /\ applied' = applied
      BY <3>2, WorldIs DEF Become, history
    <3>4. LateInv' BY <1>1, <3>1, <3>3 DEF LateInv, AsApplied, Late
    <3>5. SettledInv' BY <1>1, <2>3 DEF SettledInv
    <3> QED BY <3>4, <3>5
  <2> QED BY <2>2, <2>3
<1> QED BY <1>1, <1>2, <1>3, <1>4 DEF EditsInv, TrustedInv

LEMMA StageKeeps ==
    ASSUME EditsInv, NEW e \in Entries, Stage(e)
    PROVE  EditsInv'
<1>1. ~locked /\ ~Running /\ mail = "none"
  BY DEF Stage, EditsInv, TabInv
<1>2. PICK v \in 1..MaxVersion : buffer' = [buffer EXCEPT ![e] = v]
  BY DEF Stage, StageEntry
<1>3. UNCHANGED <<source, broken, transaction, commit, event, agent, mail,
                  history>>
  BY DEF Stage
<1>4. v \in Versions /\ v # 0 BY EditsAssumption DEF Versions
<1>5. StateInv' BY <1>2, <1>3, <1>4 DEF history, EditsInv, StateInv
<1>6. Staged \subseteq Staged' BY <1>2, <1>4 DEF Staged, EditsInv, StateInv
<1>7. /\ ~Running' /\ CommitInv' /\ EventInv' /\ AgentInv' /\ ProgressInv'
      /\ ~FirstEvent' /\ agent.on # "event" /\ Late' = Late
  BY <1>1, <1>3, StaysIdle
<1>8. TabInv'
  <2>1. Loading \/ UNCHANGED tab BY DEF Stage, Counter
  <2>2. mail' = "none" /\ TabInv BY <1>1, <1>3 DEF EditsInv
  <2>3. CASE Loading BY <1>7, <2>2, <2>3 DEF Loading, TabInv
  <2>4. CASE UNCHANGED tab BY <1>7, <2>2, <2>4 DEF tab, TabInv
  <2> QED BY <2>1, <2>3, <2>4
<1>9. TransactionInv'
  <2>1. transaction' = transaction BY <1>3
  <2> QED BY <1>6, <2>1
          DEF EditsInv, TransactionInv, GoodSnapshot, Covered, FilesOf
<1>10. FirstInv'
  <2>1. transaction' = transaction /\ agent' = agent /\ commit' = commit BY <1>3
  <2>2. ~FirstEvent BY <1>1 DEF FirstEvent, Running
  <2> QED BY <1>1, <1>7, <2>1, <2>2 DEF EditsInv, FirstInv
<1>11. ~stray' /\ ~undone' => SettledInv' /\ TargetInv' /\ LateInv'
  <2>1. /\ source' = source /\ broken' = broken /\ transaction' = transaction
        /\ applied' = applied /\ stray' = stray /\ undone' = undone
        /\ agent' = agent
    BY <1>3 DEF history
  <2>2. ~stray /\ ~undone => SettledInv' /\ TargetInv'
    BY <1>6, <1>7, <2>1 DEF EditsInv, TrustedInv, SettledInv, TargetInv
  <2>3. ~stray /\ ~undone => LateInv'
    BY <1>7, <2>1 DEF EditsInv, TrustedInv, LateInv, AsApplied, Late
  <2> QED BY <2>1, <2>2, <2>3
<1> QED BY <1>5, <1>7, <1>8, <1>9, <1>10, <1>11 DEF EditsInv, TrustedInv

\* There is a first chunk: only the staged edits of an empty buffer have none.
LEMMA ChunkingsAre ==
    ASSUME NEW es \in SUBSET Entries, es # {}, NEW c \in Chunkings(es)
    PROVE  c \in Seq(SUBSET es) /\ c # <<>>
<1> DEFINE n == (Cardinality(es) + ChunkSize - 1) \div ChunkSize
<1>1. c \in [1..n -> SUBSET es] /\ UNION Range(c) = es BY DEF Chunkings
<1>2. Cardinality(es) \in Nat
  BY EditsAssumption, FS_Subset, FS_CardinalityType
<1>3. n \in Int BY <1>2, EditsAssumption
<1> HIDE DEF n
<1>4. n >= 1
  <2> SUFFICES ASSUME ~(n >= 1) PROVE FALSE
    OBVIOUS
  <2>1. 1..n = {} BY <1>3
  <2>2. Range(c) = {} BY <1>1, <2>1 DEF Range
  <2> QED BY <1>1, <2>2
<1>5. c \in Seq(SUBSET es) /\ Len(c) = n BY <1>1, <1>3, <1>4
<1> QED BY <1>4, <1>5

LEMMA ApplyKeeps ==
    ASSUME EditsInv, Apply
    PROVE  EditsInv'
<1> DEFINE w == RolledBack
           owned == Snapshot(w, FilesOf(Staged))
<1>1. PICK chunks \in Chunkings(Staged) :
        /\ Become(w)
        /\ transaction' = [entries |-> Staged, snapshot |-> owned]
        /\ commit' = [stage |-> "apply", batch |-> Restrict(buffer, Staged),
                      base |-> owned, whole |-> Len(chunks) = 1,
                      todo |-> Tail(chunks), applied |-> {}, failed |-> {},
                      files |-> {}, attempt |-> 0]
        /\ event' = Dispatched(w, Head(chunks))
  BY DEF Apply
<1>2. Staged # {} /\ ~locked /\ UNCHANGED <<buffer, agent, mail, applied, undone>>
      /\ Loading /\ stray' = (stray \/ Unfinished)
  BY DEF Apply, Enabled
<1>3. Staged \in SUBSET Entries /\ Staged' = Staged BY <1>2 DEF Staged
<1>4. ~Running /\ mail = "none" /\ event = None
  BY <1>2 DEF EditsInv, TabInv, EventInv
<1>5. /\ w.source \in [Entries -> Versions] /\ w.broken \in SUBSET Files
      /\ ~stray' /\ ~undone' => w.source = applied /\ w.broken = {}
  BY <1>2, RolledBackIs
<1> HIDE DEF w
<1>6. FilesOf(Staged) \in SUBSET Files BY <1>3, FilesAreFiles
<1>7. /\ GoodSnapshot(owned) /\ owned.files = FilesOf(Staged)
      /\ owned.broken = w.broken \cap FilesOf(Staged)
      /\ DOMAIN owned.source = Covered(FilesOf(Staged))
      /\ \A e \in Covered(FilesOf(Staged)) : owned.source[e] = w.source[e]
  BY <1>5, <1>6, SnapshotIs
<1> HIDE DEF owned
<1>8. chunks \in Seq(SUBSET Staged) /\ chunks # <<>>
  BY <1>2, <1>3, ChunkingsAre
<1>9. Head(chunks) \in SUBSET Staged /\ Tail(chunks) \in Seq(SUBSET Staged)
  BY ONLY <1>8, HeadAndTail
<1> DEFINE batch == Restrict(buffer, Staged)
<1>10. /\ batch \in [Staged -> Versions] /\ DOMAIN batch = Staged
       /\ \A e \in Staged : batch[e] = buffer[e]
  <2>1. buffer \in [Entries -> Versions] BY DEF EditsInv, StateInv
  <2> QED BY <1>3, <2>1, RestrictIs
<1>11. batch \in Texts BY <1>3, <1>10, TextsAre
<1> HIDE DEF batch
<1> DEFINE c == [stage |-> "apply", batch |-> batch, base |-> owned,
                 whole |-> Len(chunks) = 1, todo |-> Tail(chunks),
                 applied |-> {}, failed |-> {}, files |-> {}, attempt |-> 0]
<1>12. commit' = c BY <1>1 DEF batch
<1>13. /\ c.stage = "apply" /\ c.batch = batch /\ c.base = owned
       /\ c.todo = Tail(chunks) /\ c.applied = {} /\ c.failed = {}
  OBVIOUS
<1>14. c \in CommitRecords
  <2>1. Tail(chunks) \in Seq(SUBSET Entries)
    <3>1. chunks \in Seq(SUBSET Entries) BY <1>3, <1>8
    <3> QED BY ONLY <3>1, <1>8, HeadAndTail
  <2>2. 0 \in 0..MaxAttempts BY EditsAssumption
  <2>3. owned \in Snapshots BY <1>7 DEF GoodSnapshot
  <2> QED BY <1>11, <2>1, <2>2, <2>3 DEF CommitRecords
<1> HIDE DEF c
<1> DEFINE t == [entries |-> Staged, snapshot |-> owned]
<1>15. transaction' = t /\ t.entries = Staged /\ t.snapshot = owned BY <1>1
<1>16. t \in Transactions /\ t # None
  <2>1. owned \in Snapshots BY <1>7 DEF GoodSnapshot
  <2>2. t \in Transactions BY <1>3, <2>1 DEF Transactions
  <2> QED BY <2>2, EditsAssumption
<1> HIDE DEF t
<1>17. source' = w.source /\ broken' = w.broken BY <1>1 DEF Become
<1>18. Running' /\ FirstEvent' BY <1>12, <1>13 DEF Running, FirstEvent
<1>19. StateInv'
  <2>1. stray' \in BOOLEAN
    BY ONLY <1>2, UnfinishedIsBoolean, EditsInv DEF EditsInv, StateInv
  <2> QED BY <1>2, <1>5, <1>17, <2>1 DEF EditsInv, StateInv
<1>20. TabInv' BY <1>2, <1>4 DEF Loading, TabInv
<1>21. TransactionInv'
  <2>1. GoodSnapshot(transaction.snapshot)'
    BY <1>7, <1>15 DEF GoodSnapshot, Covered
  <2>2. (transaction.snapshot.files = FilesOf(transaction.entries))'
    BY <1>7, <1>15 DEF FilesOf
  <2> QED BY <1>2, <1>3, <1>15, <1>16, <2>1, <2>2
          DEF TransactionInv, Transactions, Snapshots
<1>22. CommitInv'
  <2>1. commit'.todo \in Seq(SUBSET DOMAIN commit'.batch)
    BY <1>9, <1>10, <1>12, <1>13
  <2>2. commit'.base = transaction'.snapshot /\ transaction' # None
    BY <1>12, <1>13, <1>15, <1>16
  <2>3. \A e \in DOMAIN commit'.batch : commit'.batch[e] = buffer'[e]
    BY <1>2, <1>10, <1>12, <1>13
  <2>4. /\ DOMAIN commit'.batch = Staged /\ commit'.applied = {}
        /\ commit' \in CommitRecords
    BY <1>10, <1>12, <1>13, <1>14
  <2> QED BY <1>2, <1>3, <2>1, <2>2, <2>3, <2>4 DEF CommitInv, CommitRecords
<1>23. EventInv'
  <2> DEFINE ev == Dispatched(w, Head(chunks))
  <2>1. Head(chunks) \in SUBSET Entries BY <1>3, <1>9
  <2>2. /\ ev \in ApplyEvents /\ ev # None /\ ev.entries = Head(chunks)
        /\ GoodSnapshot(ev.snapshot) /\ ev.snapshot.files = FilesOf(Head(chunks))
    BY <1>5, <2>1, DispatchedIs
  <2>3. event' = ev BY <1>1
  <2> HIDE DEF ev
  <2>4. GoodSnapshot(event.snapshot)'
    BY <2>2, <2>3 DEF GoodSnapshot, Covered
  <2>5. event'.entries \subseteq DOMAIN commit'.batch
    BY <1>9, <1>10, <1>12, <1>13, <2>2, <2>3
  <2>6. (event.snapshot.files = FilesOf(event.entries))'
    BY <2>2, <2>3 DEF FilesOf
  <2> QED BY <1>18, <2>2, <2>3, <2>4, <2>5, <2>6 DEF EventInv, ApplyEvents, Snapshots
<1>24. AgentInv'
  <2>1. LetsGo BY <1>2, <1>4 DEF EditsInv, AgentInv, LetsGo
  <2> QED BY <2>1, LetsGoIs DEF EditsInv
<1>25. FirstInv' BY <1>18 DEF FirstInv
<1>26. ASSUME ~stray', ~undone'
       PROVE  SettledInv' /\ TargetInv' /\ ProgressInv' /\ LateInv'
  <2>1. /\ applied' = applied /\ source' = applied /\ broken' = {}
        /\ ~stray /\ ~undone
    BY <1>2, <1>5, <1>17, <1>26
  <2>2. SettledInv' BY <2>1 DEF SettledInv
  <2>3. \A e \in DOMAIN owned.source : owned.source[e] = applied[e]
    BY <1>5, <1>7, <1>26
  <2>4. owned.broken = {} BY <1>5, <1>7, <1>26
  <2>5. TargetInv' BY <1>15, <2>1, <2>3, <2>4 DEF TargetInv
  <2>6. ProgressInv' BY <1>12, <1>13, <2>1 DEF ProgressInv
  <2>7. AsApplied(event.snapshot)'
    <3> DEFINE ev == Dispatched(w, Head(chunks))
    <3>1. Head(chunks) \in SUBSET Entries BY <1>3, <1>9
    <3>2. /\ ev.snapshot.broken \subseteq w.broken
          /\ \A e \in DOMAIN ev.snapshot.source : ev.snapshot.source[e] = w.source[e]
      BY <1>5, <3>1, DispatchedIs
    <3>3. event' = ev BY <1>1
    <3> HIDE DEF ev
    <3> QED BY <1>5, <1>26, <2>1, <3>2, <3>3 DEF AsApplied
  <2>8. agent' = agent /\ agent.on # "event"
    BY <1>2, <1>4 DEF EditsInv, AgentInv
  <2>9. LateInv'
    <3>1. LateInv BY <2>1 DEF EditsInv, TrustedInv
    <3> QED BY <2>1, <2>7, <2>8, <3>1 DEF LateInv, AsApplied, Late
  <2> QED BY <2>2, <2>5, <2>6, <2>9
<1> QED BY <1>19, <1>20, <1>21, <1>22, <1>23, <1>24, <1>25, <1>26
        DEF EditsInv, TrustedInv

LEMMA KeepFixingKeeps ==
    ASSUME EditsInv, KeepFixing
    PROVE  EditsInv'
<1>1. offered /\ Staged # {} /\ UNCHANGED <<agent, stray, undone>>
  BY DEF KeepFixing
<1>2. /\ ~Running /\ mail = "none" /\ disabled /\ event = None
      /\ commit.stage = "idle" /\ ~FirstEvent /\ agent.on # "event" /\ Late' = Late
  BY <1>1 DEF EditsInv, TabInv, EventInv, AgentInv, Running, FirstEvent, Late
<1>3. Staged \in SUBSET Entries BY DEF Staged
<1>4. /\ source \in [Entries -> Versions] /\ broken \in SUBSET Files
      /\ buffer \in [Entries -> Versions] /\ applied \in [Entries -> Versions]
  BY DEF EditsInv, StateInv
<1>5. AgentInv'
  <2>1. LetsGo BY <1>1, <1>2 DEF EditsInv, AgentInv, LetsGo
  <2> QED BY <2>1, LetsGoIs DEF EditsInv
<1>6. CASE transaction = None
  <2>1. Decide /\ UNCHANGED <<files, commit, event, mail, applied>>
    BY <1>6 DEF KeepFixing
  <2>2. /\ StateInv' /\ TransactionInv'
        /\ ~stray /\ ~undone => SettledInv' /\ TargetInv'
    BY <1>1, <1>2, <2>1, GoesOn
  <2>3. /\ ~Running' /\ CommitInv' /\ EventInv' /\ AgentInv' /\ ProgressInv'
        /\ ~FirstEvent'
    BY <1>1, <1>2, <2>1, StaysIdle
  <2>4. TabInv' BY <1>2, <2>1, <2>3 DEF Decide, TabInv
  <2>5. FirstInv'
    BY <1>1, <1>2, <1>6, <2>1, <2>3 DEF FirstInv, files
  <2>6. ~stray /\ ~undone => LateInv'
    BY <1>1, <1>2, <2>1, <2>3 DEF EditsInv, TrustedInv, LateInv, AsApplied, files, Late
  <2> QED BY <1>1, <2>2, <2>3, <2>4, <2>5, <2>6 DEF EditsInv, TrustedInv
<1>7. CASE transaction # None
  <2> DEFINE batch == Restrict(buffer, Staged)
             base == Snapshot(World, FilesOf(Staged))
             c == [stage |-> "apply", batch |-> batch, base |-> base,
                   whole |-> TRUE, todo |-> <<>>, applied |-> Staged,
                   failed |-> {}, files |-> FilesOf(Staged), attempt |-> 1]
             d == [c EXCEPT !.stage = "repair"]
             unshown ==
                \/ source # [e \in Entries |-> IF e \in Staged THEN buffer[e]
                                               ELSE source[e]]
                \/ broken \cap FilesOf(Staged) # {}
  <2>1. Loading /\ UNCHANGED <<source, broken>> BY <1>7 DEF KeepFixing, RepairOnly
  <2>2. /\ unshown => /\ commit' = d /\ event' = Dispatched(World, Staged)
                      /\ UNCHANGED <<buffer, transaction, applied, mail>>
        /\ ~unshown =>
              /\ buffer' = [e \in Entries |-> 0]
              /\ applied' = [e \in Entries |-> IF e \in Staged THEN buffer[e]
                                               ELSE applied[e]]
              /\ transaction' = None /\ mail' = "done"
              /\ UNCHANGED <<commit, event>>
    BY <1>7 DEF KeepFixing, RepairOnly
  <2>3. FilesOf(Staged) \in SUBSET Files BY <1>3, FilesAreFiles
  \* No agent is late: it would have begun before the transaction.
  <2>0. ~Late /\ ~Late' BY <1>2, <1>7 DEF EditsInv, FirstInv
  \* What the source shows of the edits that are not staged.
  <2>4. ASSUME ~stray, ~undone
        PROVE  /\ \A e \in Entries \ Staged : source[e] = applied[e]
               /\ broken \subseteq FilesOf(Staged)
    <3>1. TargetInv BY <2>4 DEF EditsInv, TrustedInv
    <3>2. /\ transaction.snapshot.files = FilesOf(transaction.entries)
          /\ transaction.entries \subseteq Staged
      BY <1>7 DEF EditsInv, TransactionInv
    <3>3. transaction.snapshot.files \subseteq FilesOf(Staged)
      BY <3>2 DEF FilesOf
    <3> QED BY <1>7, <2>0, <3>1, <3>3 DEF TargetInv
  <2>5. CASE unshown
    <3>1. /\ batch \in [Staged -> Versions] /\ DOMAIN batch = Staged
          /\ \A e \in Staged : batch[e] = buffer[e]
      BY <1>3, <1>4, RestrictIs
    <3>2. batch \in Texts BY <1>3, <3>1, TextsAre
    <3>3. base \in Snapshots
      BY <1>4, <2>3, WorldIs, SnapshotIs DEF GoodSnapshot
    <3>4. 1 \in 0..MaxAttempts BY EditsAssumption
    <3> HIDE DEF batch, base
    <3>5. /\ d \in CommitRecords /\ d.stage = "repair" /\ d.batch = batch
          /\ d.todo = <<>> /\ d.applied = Staged /\ d.files = FilesOf(Staged)
      <4>1. /\ c.stage = "apply" /\ c.batch = batch /\ c.todo = <<>>
            /\ c.applied = Staged /\ c.files = FilesOf(Staged)
        OBVIOUS
      <4>2. <<>> \in Seq(SUBSET Entries) OBVIOUS
      <4>3. c \in CommitRecords
        BY <1>3, <2>3, <3>2, <3>3, <3>4, <4>2 DEF CommitRecords
      <4> HIDE DEF c
      <4>4. d \in CommitRecords BY <4>3 DEF CommitRecords
      <4> QED BY <4>1, <4>3, <4>4 DEF CommitRecords
    <3>6. /\ commit' = d /\ event' = Dispatched(World, Staged)
          /\ UNCHANGED <<files, applied, mail>>
      BY <2>1, <2>2, <2>5 DEF files
    <3> HIDE DEF c, d
    <3>7. /\ StateInv' /\ TransactionInv' /\ Staged' = Staged
          /\ ~stray /\ ~undone => SettledInv' /\ TargetInv'
      BY <1>1, <2>0, <3>6, GoesOn
    <3>8. Running' /\ ~FirstEvent' BY <3>5, <3>6 DEF Running, FirstEvent
    <3>9. TabInv' BY <1>2, <2>1, <3>6 DEF Loading, TabInv
    <3>10. CommitInv'
      <4>1. commit'.todo \in Seq(SUBSET DOMAIN commit'.batch)
        <5>1. <<>> \in Seq(SUBSET DOMAIN commit'.batch) OBVIOUS
        <5> QED BY <3>5, <3>6, <5>1
      <4>2. \A e \in DOMAIN commit'.batch : commit'.batch[e] = buffer'[e]
        BY <3>1, <3>5, <3>6 DEF files
      <4>3. /\ DOMAIN commit'.batch = Staged /\ commit'.applied = Staged
            /\ commit' \in CommitRecords /\ commit'.stage = "repair"
        BY <3>1, <3>5, <3>6
      <4>4. transaction' # None BY <1>7, <3>6 DEF files
      <4> QED BY <1>1, <3>7, <4>1, <4>2, <4>3, <4>4 DEF CommitInv, CommitRecords
    <3>11. EventInv'
      <4> DEFINE w == World
                 ev == Dispatched(w, Staged)
      <4>1. w.source = source /\ w.broken = broken BY WorldIs
      <4> HIDE DEF w
      <4>2. /\ ev \in ApplyEvents /\ ev # None /\ ev.entries = Staged
            /\ GoodSnapshot(ev.snapshot) /\ ev.snapshot.files = FilesOf(Staged)
        BY <1>3, <1>4, <4>1, DispatchedIs
      <4>3. event' = ev BY <3>6 DEF w
      <4> HIDE DEF ev
      <4>4. GoodSnapshot(event.snapshot)'
        BY <4>2, <4>3 DEF GoodSnapshot, Covered
      <4>5. event'.entries \subseteq DOMAIN commit'.batch
        BY <3>1, <3>5, <3>6, <4>2, <4>3
      <4>6. (event.snapshot.files = FilesOf(event.entries))'
        BY <4>2, <4>3 DEF FilesOf
      <4> QED BY <3>8, <4>2, <4>3, <4>4, <4>5, <4>6
              DEF EventInv, ApplyEvents, Snapshots
    <3>12. ~stray /\ ~undone => ProgressInv' /\ LateInv'
      <4>1. commit'.stage = "repair" /\ commit'.applied = Staged
            /\ commit'.files = FilesOf(Staged)
        BY <3>5, <3>6
      <4>2. source' = source /\ broken' = broken /\ applied' = applied
        BY <3>6 DEF files
      <4>3. ~stray /\ ~undone => ProgressInv'
        BY <2>4, <4>1, <4>2 DEF ProgressInv, AsTold
      <4>4. LateInv' BY <1>1, <1>2, <2>0, <3>8 DEF LateInv, Late
      <4> QED BY <4>3, <4>4
    <3>13. FirstInv' BY <1>1, <1>2, <2>0 DEF FirstInv
    <3> QED BY <1>1, <1>5, <3>7, <3>9, <3>10, <3>11, <3>12, <3>13
            DEF EditsInv, TrustedInv
  <2>6. CASE ~unshown
    <3>1. /\ buffer' = [e \in Entries |-> 0]
          /\ applied' = [e \in Entries |-> IF e \in Staged THEN buffer[e]
                                           ELSE applied[e]]
          /\ transaction' = None /\ mail' = "done"
          /\ UNCHANGED <<commit, event>>
      BY <2>2, <2>6
    <3>2. \A e \in Staged : source[e] = buffer[e] BY <1>3, <1>4, <2>6
    <3>3. broken \cap FilesOf(Staged) = {} BY <2>6
    <3>4. StateInv'
      <4>1. 0 \in Versions BY EditsAssumption DEF Versions
      <4>2. buffer' \in [Entries -> Versions] BY <3>1, <4>1
      <4>3. applied' \in [Entries -> Versions] BY <1>4, <3>1
      <4> QED BY <1>1, <2>1, <4>2, <4>3 DEF EditsInv, StateInv
    <3>5. /\ ~Running' /\ CommitInv' /\ EventInv' /\ AgentInv' /\ ProgressInv'
          /\ ~FirstEvent'
      BY <1>1, <1>2, <3>1, StaysIdle
    <3>6. TabInv' BY <2>1, <3>1, <3>5 DEF Loading, TabInv
    <3>7. TransactionInv' /\ TargetInv' BY <3>1 DEF TransactionInv, TargetInv
    <3>8. ASSUME ~stray, ~undone PROVE SettledInv'
      <4>1. \A e \in Entries : source[e] = applied'[e]
        BY <2>4, <3>1, <3>2, <3>8
      <4>2. source = applied' BY <1>4, <3>1, <4>1
      <4>3. broken = {} BY <2>4, <3>3, <3>8
      <4> QED BY <2>1, <4>2, <4>3 DEF SettledInv
    <3>9. FirstInv' /\ LateInv'
      BY <1>1, <1>2, <2>0, <3>5 DEF FirstInv, LateInv, Late
    <3> QED BY <1>1, <3>4, <3>5, <3>6, <3>7, <3>8, <3>9 DEF EditsInv, TrustedInv
  <2> QED BY <2>5, <2>6
<1> QED BY <1>6, <1>7

LEMMA RollbackDecisionKeeps ==
    ASSUME EditsInv, RollbackDecision
    PROVE  EditsInv'
<1>1. /\ offered /\ Become(RolledBack) /\ transaction' = None /\ kept' = FALSE
      /\ UNCHANGED <<buffer, commit, event, agent, locked, offered, disabled,
                     mail, history>>
  BY DEF RollbackDecision
<1>2. ~Running BY <1>1 DEF EditsInv, TabInv
<1>3. ~Running' BY <1>1, <1>2, StaysIdle
<1>4. TabInv' BY <1>1, <1>3 DEF EditsInv, TabInv
<1>5. StateInv' BY <1>1, RolledBackIs DEF Become, history, EditsInv, StateInv
<1> QED BY <1>1, <1>2, <1>4, <1>5, Settles

LEMMA DiscardKeeps ==
    ASSUME EditsInv, Discard
    PROVE  EditsInv'
<1>1. /\ ~locked /\ Become(RolledBack) /\ transaction' = None /\ Hidden
      /\ buffer' = [e \in Entries |-> 0]
      /\ UNCHANGED <<commit, event, agent, mail, history>>
  BY DEF Discard, Enabled
<1>2. ~Running /\ mail = "none" BY <1>1 DEF EditsInv, TabInv
<1>3. ~Running' BY <1>1, <1>2, StaysIdle
<1>4. TabInv' BY <1>1, <1>2, <1>3 DEF Hidden, TabInv
<1>5. 0 \in Versions BY EditsAssumption DEF Versions
<1>6. buffer' \in [Entries -> Versions] BY <1>1, <1>5
<1>7. StateInv'
  BY <1>1, <1>6, RolledBackIs DEF Become, history, EditsInv, StateInv
<1> QED BY <1>1, <1>2, <1>4, <1>7, Settles

\* A step of the tab, or one that only reaches the source and the agent.
LEMMA Framed ==
    ASSUME EditsInv, UNCHANGED <<buffer, transaction, commit, event>>,
           StateInv', TabInv', AgentInv', FirstInv', TrustedInv'
    PROVE  EditsInv'
<1>1. Staged' = Staged BY DEF Staged
<1>2. TransactionInv'
  BY <1>1 DEF EditsInv, TransactionInv, GoodSnapshot, Covered, FilesOf
<1>3. CommitInv'
  BY <1>1 DEF EditsInv, CommitInv, Running, CommitRecords
<1>4. EventInv'
  BY DEF EditsInv, EventInv, Running, GoodSnapshot, Covered
<1> QED BY <1>2, <1>3, <1>4 DEF EditsInv

LEMMA TabKeeps ==
    ASSUME EditsInv, UNCHANGED <<files, commit, event, agent, history>>, TabInv'
    PROVE  EditsInv'
<1>1. StateInv' BY DEF EditsInv, StateInv, files, history
<1>2. Staged' = Staged BY DEF Staged, files
<1>3. AgentInv'
  BY DEF EditsInv, AgentInv, GoodSnapshot, Covered, AgentRecords
<1>4. FirstInv'
  BY DEF EditsInv, FirstInv, FirstEvent, Late, Running, files
<1>5. TrustedInv'
  BY <1>2 DEF EditsInv, TrustedInv, SettledInv, TargetInv, ProgressInv, AsTold,
              Overlooked, Shown, LateInv, AsApplied, FirstEvent, Late, files, history
<1> QED BY <1>1, <1>3, <1>4, <1>5, Framed DEF files

LEMMA ReceiveKeeps ==
    ASSUME EditsInv, Receive
    PROVE  EditsInv'
<1>1. mail # "none" /\ mail' = "none"
      /\ UNCHANGED <<files, commit, event, agent, history>>
  BY DEF Receive
<1>2. ~offered /\ ~Running /\ TabInv BY <1>1 DEF EditsInv, TabInv
<1>3. ~Running' BY <1>1, <1>2 DEF Running
<1>4. \/ Decide \/ Hidden
      \/ locked' = FALSE /\ kept' = FALSE /\ disabled' = FALSE /\ offered' = offered
  BY DEF Receive
<1>5. TabInv'
  <2>1. CASE Decide BY <1>1, <1>3, <2>1 DEF Decide, TabInv
  <2>2. CASE Hidden BY <1>1, <1>3, <2>2 DEF Hidden, TabInv
  <2>3. CASE locked' = FALSE /\ kept' = FALSE /\ disabled' = FALSE
             /\ offered' = offered
    BY <1>1, <1>2, <1>3, <2>3 DEF TabInv
  <2> QED BY <1>4, <2>1, <2>2, <2>3
<1> QED BY <1>1, <1>5, TabKeeps

LEMMA ReloadKeeps ==
    ASSUME EditsInv, Reload
    PROVE  EditsInv'
<1>1. mail' = "none" /\ UNCHANGED <<files, commit, event, agent, history>>
  BY DEF Reload
<1>2. Running' = Running BY <1>1 DEF Running
<1>3. Running => kept /\ Staged # {} BY DEF EditsInv, TabInv, CommitInv
<1>4. TabInv'
  <2>1. CASE kept /\ Staged # {}
    <3>1. Loading BY <2>1 DEF Reload
    <3> QED BY <1>1, <3>1 DEF Loading, TabInv
  <2>2. CASE ~(kept /\ Staged # {})
    <3>1. Hidden /\ ~Running BY <1>3, <2>2 DEF Reload
    <3> QED BY <1>1, <1>2, <3>1 DEF Hidden, TabInv
  <2> QED BY <2>1, <2>2
<1> QED BY <1>1, <1>4, TabKeeps

LEMMA ExpireKeeps ==
    ASSUME EditsInv, Expire
    PROVE  EditsInv'
<1>1. /\ ~Running /\ kept' = FALSE
      /\ UNCHANGED <<files, commit, event, agent, locked, offered, disabled,
                     mail, history>>
  BY DEF Expire
<1>2. ~Running' BY <1>1 DEF Running
<1>3. TabInv' BY <1>1, <1>2 DEF EditsInv, TabInv
<1> QED BY <1>1, <1>3, TabKeeps

LEMMA TakeKeeps ==
    ASSUME EditsInv, Take
    PROVE  EditsInv'
<1> DEFINE batch == Restrict(commit.batch, event.entries)
           ev == [event EXCEPT !.taken = TRUE]
           ag == [on |-> "event", snapshot |-> event.snapshot,
                  first |-> FirstEvent, batch |-> batch]
<1>1. /\ event # None /\ event' = ev /\ agent' = ag /\ agent = NoWork
      /\ UNCHANGED <<files, commit, tab, mail, history>>
  BY DEF Take
<1>2. /\ event \in ApplyEvents /\ event.entries \subseteq DOMAIN commit.batch
      /\ GoodSnapshot(event.snapshot) /\ Running
      /\ event.snapshot.files = FilesOf(event.entries)
  BY <1>1 DEF EditsInv, EventInv
<1>3. commit.batch \in Texts BY <1>2 DEF EditsInv, CommitInv, CommitRecords
<1>4. /\ batch \in [event.entries -> Versions] /\ DOMAIN batch = event.entries
      /\ \A e \in event.entries : batch[e] = commit.batch[e]
  <2> DEFINE f == commit.batch
             D == DOMAIN f
             es == event.entries
  <2>1. f \in [D -> Versions] /\ es \in SUBSET D BY <1>2, <1>3, TextsAre
  <2>2. batch = Restrict(f, es) OBVIOUS
  <2>3. \A e \in es : Restrict(f, es)[e] = f[e] BY DEF Restrict
  <2> HIDE DEF f, D, es
  <2>4. Restrict(f, es) \in [es -> Versions] /\ DOMAIN Restrict(f, es) = es
    BY ONLY <2>1, RestrictIs
  <2> HIDE DEF batch
  <2> QED BY <2>2, <2>3, <2>4 DEF f, es
<1>5. batch \in Texts BY <1>2, <1>4, TextsAre DEF ApplyEvents
<1> HIDE DEF batch
<1>6. /\ ev \in ApplyEvents /\ ev.entries = event.entries /\ ev.taken
      /\ ev.snapshot = event.snapshot
  BY <1>2 DEF ApplyEvents
<1>7. ev # None BY <1>6, EditsAssumption
<1>8. /\ ag \in AgentRecords /\ ag.on = "event" /\ ag.batch = batch
      /\ ag.snapshot = event.snapshot /\ ag.first = FirstEvent
  <2>1. FirstEvent \in BOOLEAN BY DEF FirstEvent
  <2> QED BY <1>2, <1>5, <2>1 DEF AgentRecords, GoodSnapshot
<1> HIDE DEF ev, ag
<1>9. commit' = commit /\ Running' = Running /\ Staged' = Staged
  BY <1>1 DEF Running, Staged, files
<1>10. StateInv' BY <1>1 DEF files, history, EditsInv, StateInv
<1>11. TabInv' BY <1>1, <1>9 DEF tab, EditsInv, TabInv
<1>12. TransactionInv'
  <2>1. transaction' = transaction BY <1>1 DEF files
  <2> QED BY <1>9, <2>1
          DEF EditsInv, TransactionInv, GoodSnapshot, Covered, FilesOf
<1>13. CommitInv'
  <2>1. transaction' = transaction /\ buffer' = buffer BY <1>1 DEF files
  <2> QED BY <1>9, <2>1 DEF EditsInv, CommitInv
<1>14. EventInv'
  <2>1. GoodSnapshot(event.snapshot)'
    BY <1>1, <1>2, <1>6 DEF GoodSnapshot, Covered
  <2>2. (event.snapshot.files = FilesOf(event.entries))'
    BY <1>1, <1>2, <1>6 DEF FilesOf
  <2> QED BY <1>1, <1>2, <1>6, <1>7, <1>9, <2>1, <2>2
          DEF EventInv, ApplyEvents, Snapshots
<1>15. AgentInv'
  <2>1. GoodSnapshot(agent.snapshot)'
    BY <1>1, <1>2, <1>8 DEF GoodSnapshot, Covered
  <2>2. /\ event' # None /\ event'.taken
        /\ DOMAIN agent'.batch \subseteq DOMAIN commit'.batch
        /\ \A e \in DOMAIN agent'.batch : agent'.batch[e] = commit'.batch[e]
    BY <1>1, <1>2, <1>4, <1>6, <1>7, <1>8, <1>9
  <2>3. \A e \in DOMAIN agent'.batch : FileOf[e] \in agent'.snapshot.files
    BY <1>1, <1>2, <1>4, <1>8 DEF FilesOf
  <2> QED BY <1>1, <1>8, <2>1, <2>2, <2>3 DEF AgentInv, AgentRecords
<1>16. ~Late /\ ~Late' /\ FirstEvent' = FirstEvent
  BY <1>1, <1>8, <1>9 DEF Late, NoWork, FirstEvent
<1>17. FirstInv' BY <1>1, <1>8, <1>16 DEF FirstInv
<1>18. TrustedInv'
  <2>1. /\ UNCHANGED <<source, broken, transaction, applied, stray, undone>>
    BY <1>1 DEF files, history
  <2>2. ~stray /\ ~undone => SettledInv' /\ TargetInv' /\ ProgressInv'
    BY <1>9, <1>16, <2>1
       DEF EditsInv, TrustedInv, SettledInv, TargetInv, ProgressInv, AsTold,
           Overlooked, Shown
  <2>3. ASSUME ~stray, ~undone PROVE LateInv'
    <3>1. FirstEvent => AsApplied(event.snapshot)
      BY <2>3 DEF EditsInv, TrustedInv, LateInv
    <3>2. event'.snapshot = event.snapshot /\ agent'.snapshot = event.snapshot
          /\ agent'.first = FirstEvent
      BY <1>1, <1>6, <1>8
    <3> QED BY <1>16, <2>1, <3>1, <3>2 DEF LateInv, AsApplied
  <2> QED BY <2>1, <2>2, <2>3 DEF TrustedInv
<1> QED BY <1>10, <1>11, <1>12, <1>13, <1>14, <1>15, <1>17, <1>18 DEF EditsInv

\* What an agent that is not astray works on.
LEMMA NotAstray ==
    ASSUME EditsInv, NEW e \in Entries, agent # NoWork,
           e \in DOMAIN agent.batch, ~Astray(e)
    PROVE  /\ transaction # None => FileOf[e] \in transaction.snapshot.files
           /\ Late => /\ FileOf[e] \in agent.snapshot.files
                      /\ transaction # None => commit.stage = "apply"
                      /\ commit.stage # "repair"
           /\ ~Late =>
                 /\ transaction # None
                 /\ e \in DOMAIN commit.batch /\ e \in Staged
                 /\ commit.stage = "repair" =>
                       e \in commit.applied /\ FileOf[e] \in commit.files
<1>1. transaction # None => FileOf[e] \in transaction.snapshot.files
  BY DEF Astray
<1>2. CASE Late
  <2>1. FileOf[e] \in agent.snapshot.files BY DEF EditsInv, AgentInv
  <2>2. transaction # None \/ Running => commit.stage = "apply"
    BY <1>2 DEF EditsInv, FirstInv, FirstEvent
  <2>3. commit.stage # "repair" BY <2>2 DEF Running
  <2> QED BY <1>1, <1>2, <2>1, <2>2, <2>3
<1>3. CASE ~Late
  <2>1. agent.on = "event" BY <1>3 DEF Astray
  <2>2. event # None /\ e \in DOMAIN commit.batch
    BY <2>1 DEF EditsInv, AgentInv
  <2>3. Running BY <2>2 DEF EditsInv, EventInv
  <2>4. transaction # None /\ DOMAIN commit.batch \subseteq Staged
    BY <2>3 DEF EditsInv, CommitInv
  <2> QED BY <1>1, <1>3, <2>1, <2>2, <2>4 DEF Astray
<1> QED BY <1>2, <1>3

\* The agent writes e, or the file of e.
LEMMA WriteKeeps ==
    ASSUME EditsInv, NEW e \in Entries, agent # NoWork, e \in DOMAIN agent.batch,
           source' \in [Entries -> Versions],
           \A x \in Entries \ {e} : source'[x] = source[x],
           broken' \subseteq broken \cup {FileOf[e]},
           stray' = (stray \/ Astray(e)),
           UNCHANGED <<buffer, transaction, commit, event, agent, tab, mail,
                       applied, undone>>
    PROVE  EditsInv'
<1>1. Astray(e) \in BOOLEAN BY DEF Astray
<1>2. StateInv'
  <2>1. broken' \in SUBSET Files
    BY EditsAssumption DEF EditsInv, StateInv
  <2>2. stray' \in BOOLEAN BY <1>1 DEF EditsInv, StateInv
  <2> QED BY <2>1, <2>2 DEF EditsInv, StateInv
<1>3. TabInv' BY DEF tab, EditsInv, TabInv, Running
<1>4. AgentInv'
  BY DEF EditsInv, AgentInv, GoodSnapshot, Covered, AgentRecords
<1>5. Late' = Late /\ FirstEvent' = FirstEvent /\ Running' = Running
      /\ Staged' = Staged
  BY DEF Late, FirstEvent, Running, Staged
<1>6. FirstInv' BY <1>5 DEF EditsInv, FirstInv
<1>7. TrustedInv'
  <2> SUFFICES ASSUME ~stray', ~undone'
               PROVE  SettledInv' /\ TargetInv' /\ ProgressInv' /\ LateInv'
    BY DEF TrustedInv
  <2>1. ~stray /\ ~undone /\ ~Astray(e) OBVIOUS
  <2>2. SettledInv /\ TargetInv /\ ProgressInv /\ LateInv
    BY <2>1 DEF EditsInv, TrustedInv
  <2>3. /\ transaction # None => FileOf[e] \in transaction.snapshot.files
        /\ Late => /\ FileOf[e] \in agent.snapshot.files
                   /\ commit.stage # "repair"
        /\ ~Late =>
              /\ transaction # None
              /\ e \in DOMAIN commit.batch /\ e \in Staged
              /\ commit.stage = "repair" =>
                    e \in commit.applied /\ FileOf[e] \in commit.files
    BY <2>1, NotAstray
  <2>4. SettledInv' BY <1>5, <2>3 DEF SettledInv
  <2>5. TargetInv' BY <1>5, <2>2, <2>3 DEF TargetInv
  <2>6. ProgressInv'
    <3>1. CASE commit.stage = "repair"
      <4>1. ~Late /\ e \in commit.applied /\ FileOf[e] \in commit.files
        BY <2>3, <3>1
      <4>2. AsTold(commit.applied, commit.files) /\ broken \subseteq commit.files
        BY <2>2, <3>1 DEF ProgressInv
      <4>3. AsTold(commit.applied, commit.files)'
        BY <4>1, <4>2 DEF AsTold, Overlooked, Shown
      <4> QED BY <3>1, <4>1, <4>2, <4>3 DEF ProgressInv
    <3>2. CASE commit.stage # "repair"
      BY <1>5, <2>2, <2>3, <3>2 DEF ProgressInv
    <3> QED BY <3>1, <3>2
  <2>7. LateInv'
    BY <1>5, <2>2, <2>3 DEF LateInv, AsApplied
  <2> QED BY <2>4, <2>5, <2>6, <2>7
<1> QED BY <1>2, <1>3, <1>4, <1>6, <1>7, Framed

LEMMA EditEntryKeeps ==
    ASSUME EditsInv, NEW e \in Entries, EditEntry(e)
    PROVE  EditsInv'
<1>1. /\ agent # NoWork /\ e \in DOMAIN agent.batch
      /\ stray' = (stray \/ Astray(e))
      /\ UNCHANGED <<broken, buffer, transaction, commit, event, agent, tab, mail,
                     applied, undone>>
  BY DEF EditEntry
<1>2. PICK v \in Versions : source' = [source EXCEPT ![e] = v] BY DEF EditEntry
<1>3. source' \in [Entries -> Versions] BY <1>2 DEF EditsInv, StateInv
<1>4. \A x \in Entries \ {e} : source'[x] = source[x]
  BY <1>2 DEF EditsInv, StateInv
<1>5. broken' \subseteq broken \cup {FileOf[e]} BY <1>1
<1> QED BY <1>1, <1>3, <1>4, <1>5, WriteKeeps

LEMMA DamageFileKeeps ==
    ASSUME EditsInv, NEW e \in Entries, DamageFile(e)
    PROVE  EditsInv'
<1>1. /\ agent # NoWork /\ e \in DOMAIN agent.batch
      /\ broken' = IF FileOf[e] \in broken THEN broken \ {FileOf[e]}
                   ELSE broken \cup {FileOf[e]}
      /\ stray' = (stray \/ Astray(e))
      /\ UNCHANGED <<source, buffer, transaction, commit, event, agent, tab, mail,
                     applied, undone>>
  BY DEF DamageFile
<1>2. broken' \subseteq broken \cup {FileOf[e]} BY <1>1
<1>3. source' \in [Entries -> Versions] BY <1>1 DEF EditsInv, StateInv
<1>4. \A x \in Entries \ {e} : source'[x] = source[x] BY <1>1
<1> QED BY <1>1, <1>2, <1>3, <1>4, WriteKeeps

LEMMA ReplyKeeps ==
    ASSUME EditsInv, Reply
    PROVE  EditsInv'
<1>1. /\ agent.on = "event" /\ agent' = NoWork
      /\ UNCHANGED <<tab, stray, undone>>
  BY DEF Reply
<1>2. event # None /\ Running BY <1>1 DEF EditsInv, AgentInv, EventInv
<1>3. PICK r \in Replies(event.entries) : Resolved(r) BY DEF Reply
<1>4. ~Late /\ ~Late' BY <1>1 DEF Late, NoWork
<1>5. Outcome BY <1>2, <1>3, <1>4, ResolvedIs
<1>6. LetsGo BY <1>1 DEF LetsGo
<1> QED BY <1>1, <1>2, <1>4, <1>5, <1>6, OutcomeKeeps

LEMMA TimeoutKeeps ==
    ASSUME EditsInv, Timeout
    PROVE  EditsInv'
<1>1. /\ event # None /\ Rejected /\ UNCHANGED <<tab, stray, undone>>
      /\ agent' = IF agent.on = "event" THEN [agent EXCEPT !.on = "tombstone"]
                  ELSE agent
  BY DEF Timeout
<1>2. Running BY <1>1 DEF EditsInv, EventInv
<1>3. Outcome /\ (FirstEvent => Ends) BY <1>1, RejectedIs
<1>4. LetsGo BY <1>1 DEF LetsGo
\* An agent that becomes late was at work on a first event.
<1>5. ASSUME ~FirstEvent PROVE ~Late /\ ~Late'
  <2>1. ~Late BY <1>2, <1>5 DEF EditsInv, FirstInv
  <2>2. agent.on = "event" => ~agent.first BY <1>5 DEF EditsInv, FirstInv
  <2>3. Late' => agent.on \in {"event", "tombstone"} /\ agent.first
    BY <1>4, LateWasFirst DEF EditsInv
  <2> QED BY <2>1, <2>2, <2>3 DEF Late
<1> QED BY <1>1, <1>2, <1>3, <1>4, <1>5, OutcomeKeeps

\* The agent is done, and what it leaves in source is as it was, or applied.
LEMMA DoneKeeps ==
    ASSUME EditsInv, agent' = NoWork, StateInv',
           UNCHANGED <<buffer, transaction, commit, event, tab, mail, applied>>,
           ~stray' /\ ~undone' =>
              /\ ~stray /\ ~undone
              /\ \/ ~Late /\ source' = source /\ broken' = broken
                 \/ source' = applied /\ broken' = {}
    PROVE  EditsInv'
<1>1. TabInv' BY DEF tab, EditsInv, TabInv, Running
<1>2. AgentInv'
  <2>1. LetsGo BY DEF LetsGo
  <2> QED BY <2>1, LetsGoIs DEF EditsInv
<1>3. /\ ~Late' /\ FirstEvent' = FirstEvent /\ Staged' = Staged
      /\ agent'.on \notin {"event", "tombstone"}
  BY DEF Late, NoWork, FirstEvent, Staged
<1>4. FirstInv' BY <1>3 DEF FirstInv
<1>5. TrustedInv'
  <2> SUFFICES ASSUME ~stray', ~undone'
               PROVE  SettledInv' /\ TargetInv' /\ ProgressInv' /\ LateInv'
    BY DEF TrustedInv
  <2>1. SettledInv /\ TargetInv /\ ProgressInv /\ LateInv
    BY DEF EditsInv, TrustedInv
  <2>2. LateInv' BY <1>3, <2>1 DEF LateInv, AsApplied
  <2>3. CASE ~Late /\ source' = source /\ broken' = broken
    BY <1>3, <2>1, <2>2, <2>3
       DEF SettledInv, TargetInv, ProgressInv, AsTold, Overlooked, Shown
  <2>4. CASE source' = applied /\ broken' = {}
    BY <1>3, <2>1, <2>2, <2>4 DEF SettledInv, TargetInv, ProgressInv, AsTold
  <2> QED BY <2>3, <2>4
<1> QED BY <1>1, <1>2, <1>4, <1>5, Framed

LEMMA ReplyLateKeeps ==
    ASSUME EditsInv, ReplyLate
    PROVE  EditsInv'
<1> DEFINE s == agent.snapshot
           w == Restore(World, s)
<1>1. /\ agent.on \in {"tombstone", "unknown"} /\ agent' = NoWork
      /\ agent.on = "tombstone" => Become(w)
      /\ agent.on # "tombstone" => Become(World)
      /\ undone' = (undone \/ (agent.on = "tombstone" /\ ~agent.first))
      /\ UNCHANGED <<buffer, transaction, commit, event, tab, mail, applied, stray>>
  BY DEF ReplyLate, Undo
<1>2. GoodSnapshot(s) BY <1>1 DEF EditsInv, AgentInv, NoWork
<1>3. source \in [Entries -> Versions] /\ broken \in SUBSET Files
  BY DEF EditsInv, StateInv
<1>4. w.source \in [Entries -> Versions] /\ w.broken \in SUBSET Files
  BY <1>2, <1>3, WorldIs, RestoreIs
<1>5. Late /\ ~stray /\ ~undone => w.source = applied /\ w.broken = {}
  BY LateIsUndone
<1> HIDE DEF w, s
<1>6. source' \in [Entries -> Versions] /\ broken' \in SUBSET Files
  BY <1>1, <1>3, <1>4, WorldIs DEF Become
<1>7. undone' \in BOOLEAN
  BY ONLY <1>1, EditsInv DEF EditsInv, StateInv
<1>8. StateInv' BY <1>1, <1>6, <1>7 DEF EditsInv, StateInv
<1>9. ASSUME ~stray', ~undone'
      PROVE  /\ ~stray /\ ~undone
             /\ \/ ~Late /\ source' = source /\ broken' = broken
                \/ source' = applied /\ broken' = {}
  <2>1. ~stray /\ ~undone /\ (agent.on = "tombstone" => agent.first)
    BY <1>1, <1>9
  <2>2. CASE agent.on = "tombstone"
    <3>1. Late BY <2>1, <2>2 DEF Late
    <3> QED BY <1>1, <1>5, <2>1, <2>2, <3>1 DEF Become
  <2>3. CASE agent.on # "tombstone"
    BY <1>1, <2>1, <2>3, WorldIs DEF Become, Late
  <2> QED BY <2>2, <2>3
<1> QED BY <1>1, <1>8, <1>9, DoneKeeps

LEMMA DieKeeps ==
    ASSUME EditsInv, Die
    PROVE  EditsInv'
<1>1. /\ agent' = NoWork /\ stray' = (stray \/ Unfinished)
      /\ UNCHANGED <<files, commit, event, tab, mail, applied, undone>>
  BY DEF Die
<1>2. stray' \in BOOLEAN
  BY ONLY <1>1, UnfinishedIsBoolean, EditsInv DEF EditsInv, StateInv
<1>3. StateInv' BY <1>1, <1>2 DEF files, EditsInv, StateInv
<1>4. source' = source /\ broken' = broken BY <1>1 DEF files
<1>5. ASSUME ~stray', ~undone'
      PROVE  /\ ~stray /\ ~undone
             /\ \/ ~Late /\ source' = source /\ broken' = broken
                \/ source' = applied /\ broken' = {}
  <2>1. ~stray /\ ~undone /\ ~Unfinished BY <1>1, <1>5
  <2> QED BY <1>4, <2>1, Finished
<1> QED BY <1>1, <1>3, <1>5, DoneKeeps DEF files

LEMMA RestartKeeps ==
    ASSUME EditsInv, Restart
    PROVE  EditsInv'
<1>1. /\ Become(RolledBack) /\ transaction' = None
      /\ commit' = NoCommit /\ event' = None /\ mail' = "none" /\ Hidden
      /\ stray' = (stray \/ Unfinished)
      /\ UNCHANGED <<buffer, applied, undone>>
  BY DEF Restart
<1>2. StateInv'
  <2>1. stray' \in BOOLEAN
    BY ONLY <1>1, UnfinishedIsBoolean, EditsInv DEF EditsInv, StateInv
  <2> QED BY <1>1, <2>1, RolledBackIs DEF Become, EditsInv, StateInv
<1>3. ~Running' /\ commit'.stage = "idle" /\ ~FirstEvent'
  BY <1>1 DEF Running, NoCommit, FirstEvent
<1>4. TabInv' BY <1>1, <1>3 DEF Hidden, TabInv
<1>5. TransactionInv' /\ CommitInv' /\ EventInv'
  BY <1>1, <1>3 DEF TransactionInv, CommitInv, EventInv
<1>6. AgentInv'
  <2>1. LetsGo BY DEF Restart, LetsGo
  <2> QED BY <2>1, LetsGoIs DEF EditsInv
<1>7. agent'.on \notin {"event", "tombstone"} /\ ~Late'
  BY DEF Restart, EditsInv, AgentInv, AgentRecords, NoWork, Late
<1>8. FirstInv' BY <1>7 DEF FirstInv
<1>9. TrustedInv'
  <2>1. ~stray' /\ ~undone' => SettledInv'
    BY <1>1, RolledBackIs DEF Become, SettledInv
  <2>2. LateInv' BY <1>3, <1>7 DEF LateInv
  <2> QED BY <1>1, <1>3, <2>1, <2>2 DEF TrustedInv, TargetInv, ProgressInv
<1> QED BY <1>2, <1>4, <1>5, <1>6, <1>8, <1>9 DEF EditsInv

-----------------------------------------------------------------------------
(* The theorems                                                            *)

LEMMA StutterKeeps ==
    ASSUME EditsInv, UNCHANGED vars
    PROVE  EditsInv'
<1>1. /\ UNCHANGED <<files, commit, event, agent, tab, mail, history>>
  BY DEF vars
<1>2. TabInv' BY <1>1 DEF tab, EditsInv, TabInv, Running
<1> QED BY <1>1, <1>2, TabKeeps

LEMMA NextKeeps == EditsInv /\ [Next]_vars => EditsInv'
<1> SUFFICES ASSUME EditsInv, [Next]_vars PROVE EditsInv'
  OBVIOUS
<1>1. CASE User
  BY <1>1, StageKeeps, ApplyKeeps, KeepFixingKeeps, RollbackDecisionKeeps,
     DiscardKeeps DEF User
<1>2. CASE Tab
  BY <1>2, ReceiveKeeps, ReloadKeeps, ExpireKeeps DEF Tab
<1>3. CASE Agent
  BY <1>3, TakeKeeps, EditEntryKeeps, DamageFileKeeps, ReplyKeeps,
     ReplyLateKeeps, DieKeeps DEF Agent
<1>4. CASE Timeout \/ Restart BY <1>4, TimeoutKeeps, RestartKeeps
<1>5. CASE UNCHANGED vars BY <1>5, StutterKeeps
<1> QED BY <1>1, <1>2, <1>3, <1>4, <1>5 DEF Next

LEMMA Invariant == Spec => []EditsInv
BY InitKeeps, NextKeeps, PTL DEF Spec

\* Every variable has its type, and an event is awaited exactly while a commit
\* runs (commitManualEdits, pushApplyEventAndWait).
THEOREM EditsTypeCorrect == Spec => []TypeOK
<1>1. EditsInv => TypeOK
  <2> SUFFICES ASSUME EditsInv PROVE TypeOK
    OBVIOUS
  <2>1. StateInv /\ TabInv /\ TransactionInv /\ CommitInv /\ EventInv /\ AgentInv
    BY DEF EditsInv
  <2>2. transaction # None => /\ transaction.entries \subseteq Entries
                              /\ transaction.snapshot \in Snapshots
    BY <2>1 DEF TransactionInv, Transactions
  <2>3. Running => /\ commit.stage \in {"apply", "repair"}
                   /\ DOMAIN commit.batch \subseteq Staged
                   /\ commit.attempt \in 0..MaxAttempts
                   /\ commit.base \in Snapshots
    BY <2>1 DEF CommitInv, CommitRecords
  <2>4. {locked, kept, offered, disabled, stray, undone} \subseteq BOOLEAN
    <3>1. /\ locked \in BOOLEAN /\ kept \in BOOLEAN /\ offered \in BOOLEAN
          /\ disabled \in BOOLEAN /\ stray \in BOOLEAN /\ undone \in BOOLEAN
      BY <2>1 DEF TabInv, StateInv
    <3> QED BY ONLY <3>1
  <2>5. agent.on = "event" => event # None /\ event.taken
    BY <2>1 DEF AgentInv
  <2>6. Running <=> event # None BY <2>1 DEF EventInv
  <2> QED BY <2>1, <2>2, <2>3, <2>4, <2>5, <2>6 DEF TypeOK, StateInv, TabInv
<1> QED BY <1>1, Invariant, PTL

\* Once an Apply is over the source has exactly the edits the user was told are
\* applied (rollbackChangedFiles, rollbackManualApplyTransaction).
THEOREM SourceSettles == Spec => []SettledSource
<1>1. EditsInv => SettledSource
  BY DEF EditsInv, TrustedInv, SettledInv, SettledSource, SourceIsApplied, Late
<1> QED BY <1>1, Invariant, PTL

\* What a rollback will restore is what was applied when the Apply began,
\* however often it was repaired since (writeManualApplyTransaction).
THEOREM RollbackRestores == Spec => []RollbackTarget
<1>1. EditsInv => RollbackTarget
  <2> SUFFICES ASSUME EditsInv, transaction # None, ~stray, ~undone
               PROVE  LET w == Restore(World, transaction.snapshot)
                      IN  w.source = applied /\ w.broken = {}
    BY DEF RollbackTarget
  <2>1. transaction.entries \cap Staged # {} BY DEF EditsInv, TransactionInv
  <2>2. RolledBack = Restore(World, transaction.snapshot) BY <2>1 DEF RolledBack
  <2>3. RolledBack.source = applied /\ RolledBack.broken = {} BY RolledBackIs
  <2> QED BY <2>2, <2>3
<1> QED BY <1>1, Invariant, PTL

\* An edit that leaves the buffer in a step does so discarded, or shown.
LEMMA LeavesShown ==
    ASSUME EditsInv, [Next]_vars, NEW e \in Entries, Running \/ offered,
           buffer[e] # 0, buffer'[e] = 0
    PROVE  source'[e] = buffer[e]
<1>1. buffer \in [Entries -> Versions] BY DEF EditsInv, StateInv
<1>2. buffer' # buffer OBVIOUS
\* The helper ends the Apply: only what the source shows is cleared.
<1>3. ASSUME Running, Outcome PROVE source'[e] = buffer[e]
  <2>1. \/ RollBackCommit
        \/ \E es \in SUBSET DOMAIN commit.batch, fs \in SUBSET Files :
              /\ \A x \in es : Shown(x)
              /\ Return(World, es, fs)
        \/ buffer' = buffer
    BY <1>3 DEF Outcome, Ends, Succeeds, Retries, Repair, Continues, files
  <2>2. CASE RollBackCommit
    BY <1>1, <2>2 DEF RollBackCommit, Return, Clear
  <2>3. CASE \E es \in SUBSET DOMAIN commit.batch, fs \in SUBSET Files :
                /\ \A x \in es : Shown(x)
                /\ Return(World, es, fs)
    <3>1. PICK es \in SUBSET DOMAIN commit.batch, fs \in SUBSET Files :
             /\ \A x \in es : Shown(x)
             /\ Return(World, es, fs)
      BY <2>3
    <3>2. e \in es BY <1>1, <3>1 DEF Return, Clear
    <3>3. source' = source BY <3>1, WorldIs DEF Return, Become
    <3> QED BY <1>3, <3>1, <3>2, <3>3, BatchIs DEF Shown
  <2> QED BY <1>2, <2>1, <2>2, <2>3
<1>4. CASE User
  <2>1. ASSUME NEW x \in Entries, Stage(x) PROVE FALSE
    <3>1. PICK v \in 1..MaxVersion : buffer' = [buffer EXCEPT ![x] = v]
      BY <2>1 DEF Stage, StageEntry
    <3> QED BY <1>1, <3>1, EditsAssumption
  <2>2. ASSUME Apply \/ RollbackDecision PROVE FALSE
    BY <1>2, <2>2 DEF Apply, RollbackDecision
  <2>3. ASSUME Discard PROVE FALSE
    BY <2>3 DEF Discard, Enabled, EditsInv, TabInv
  <2>4. ASSUME KeepFixing PROVE source'[e] = buffer[e]
    <3>1. RepairOnly BY <1>2, <2>4 DEF KeepFixing, files
    <3>2. /\ source' = source
          /\ source = [x \in Entries |-> IF x \in Staged THEN buffer[x]
                                         ELSE source[x]]
      BY <1>2, <3>1 DEF RepairOnly
    <3>3. e \in Staged BY DEF Staged
    <3> QED BY <3>2, <3>3
  <2> QED BY <1>4, <2>1, <2>2, <2>3, <2>4 DEF User
<1>5. CASE Tab
  BY <1>2, <1>5 DEF Tab, Receive, Reload, Expire, files
<1>6. CASE Agent
  <2>1. CASE Reply
    <3>1. event # None /\ Running /\ ~Late
      BY <2>1 DEF Reply, EditsInv, AgentInv, EventInv, Late
    <3>2. PICK r \in Replies(event.entries) : Resolved(r) BY <2>1 DEF Reply
    <3>3. Outcome BY <3>1, <3>2, ResolvedIs
    <3> QED BY <1>3, <3>1, <3>3
  <2>2. CASE ~Reply
    BY <1>2, <1>6, <2>2
    DEF Agent, Take, EditEntry, DamageFile, ReplyLate, Die, files
  <2> QED BY <2>1, <2>2
<1>7. CASE Timeout
  <2>1. event # None /\ Running BY <1>7 DEF Timeout, EditsInv, EventInv
  <2>2. Outcome BY <1>7, <2>1, RejectedIs DEF Timeout
  <2> QED BY <1>3, <2>1, <2>2
<1>8. CASE Restart \/ UNCHANGED vars
  BY <1>2, <1>8 DEF Restart, vars, files
<1> QED BY <1>4, <1>5, <1>6, <1>7, <1>8 DEF Next

\* A saved edit leaves the buffer only because the user discards it or because
\* the source shows its latest text (clearAppliedEntries removes by id).
THEOREM NothingLost == Spec => NoEditLost
<1> DEFINE Kept == \A e \in Entries :
             (Running \/ offered) /\ buffer[e] # 0 /\ buffer'[e] = 0
                => source'[e] = buffer[e]
<1>1. EditsInv /\ [Next]_vars => [Kept]_vars
  BY LeavesShown
<1> QED BY <1>1, Invariant, PTL DEF Spec, NoEditLost
=============================================================================
