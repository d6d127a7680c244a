------------------------------ MODULE EditHook ------------------------------
(***************************************************************************)
(* The design hook of the impeccable skill: a process that a coding agent  *)
(* runs around each edit.  After an edit, hook.mjs scans the files it      *)
(* touched and tells the session what the detector found, each finding     *)
(* once, until a file was edited too often.  Before an edit, on Cursor,    *)
(* hook-before-edit.mjs denies a write with findings, until it was denied  *)
(* too often.  Both remember what they did in one file of the project,     *)
(* .impeccable/hook.cache.json, which every process reads, changes and     *)
(* writes whole, without a lock.                                           *)
(***************************************************************************)
EXTENDS Integers, Sequences

CONSTANTS
    Sessions,       \* sessions of coding agents in one project
    Gated,          \* those of Cursor, whose writes are checked before they land
    Files,          \* files whose extension is in ALLOWED_EXTS
    Styles,         \* per file, the stylesheets it imports or lies next to
    Patches,        \* what one edit can touch, at most MAX_SCAN_TARGETS files
                    \* with their stylesheets: the hook scans no more
    Findings,       \* what the detector can find in a file; an answer has room
                    \* for all of them (limits.maxFindings, limits.maxChars)
    Processes,      \* hook processes that can run at the same time
    Threshold,      \* EDIT_COUNT_THRESHOLD
    MaxSessions,    \* CACHE_MAX_SESSIONS
    MaxEdits,       \* bound: edits in all
    MaxUpsets,      \* bound: /impeccable hooks commands, processes killed, scans
                    \* that throw and writes that fail, together
    NoSession

ASSUME HookAssumption ==
    /\ Gated \subseteq Sessions /\ NoSession \notin Sessions
    /\ Styles \in [Files -> SUBSET Files] /\ Patches \subseteq SUBSET Files
    /\ {Threshold, MaxSessions} \subseteq Nat \ {0}
    /\ {MaxEdits, MaxUpsets} \subseteq Nat

VARIABLES
    content,        \* what the detector finds in a file as it is on disk
    cache,          \* hook.cache.json
    config,         \* config.json: enabled, ignored rules, ignored files
    hook,           \* the local state of the processes
    told,           \* history: findings shown to a session, with their file
    repeated,       \* history: sessions that were shown a finding again
    denied,         \* history: denials of a session
    made,           \* history: edits of a file in a session
    serial,         \* history: sessions of which nothing was ever forgotten
    edits, faults, commands

history == <<told, repeated, denied, made>>
counters == <<edits, faults, commands>>
vars == <<content, cache, config, hook, history, serial, counters>>

-----------------------------------------------------------------------------
(* The cache.  Sessions are ordered by updatedAt, the newest first: a       *)
(* process changes its own only, and now is later than all it has read.     *)
(* An absent, truncated or malformed file reads as the empty cache.         *)

Unseen == [edits |-> 0, known |-> {}, denials |-> [f \in SUBSET Findings |-> 0]]

Empty == [recent |-> <<>>, entry |-> [s \in Sessions |-> [f \in Files |-> Unseen]]]

Cached(c) == {c.recent[i] : i \in DOMAIN c.recent}

Without(seq, s) ==
    IF \E i \in DOMAIN seq : seq[i] = s
    THEN LET i == CHOOSE i \in DOMAIN seq : seq[i] = s
         IN  SubSeq(seq, 1, i - 1) \o SubSeq(seq, i + 1, Len(seq))
    ELSE seq

\* c with this entry, now that s was updated.
Updated(c, s, entry) == [recent |-> <<s>> \o Without(c.recent, s), entry |-> entry]

\* ensureSession: a session that is there keeps its time.
Ensure(c, s) == IF s \in Cached(c) THEN c ELSE Updated(c, s, c.entry)

BumpEditCount(c, s, f) == Updated(c, s, [c.entry EXCEPT ![s][f].edits = @ + 1])

RememberFindings(c, s, f, fresh) ==
    Updated(c, s, [c.entry EXCEPT ![s][f].known = @ \union fresh])

BumpCursorDenial(c, s, f, found) ==
    Updated(c, s, [c.entry EXCEPT ![s][f].denials[found] = @ + 1])

\* Mutant: nothing is evicted.
EvictedNever(c) == c

\* persistCache keeps the MaxSessions newest.
Evicted(c) ==
    LET kept == IF Len(c.recent) > MaxSessions THEN SubSeq(c.recent, 1, MaxSessions)
                ELSE c.recent
        stays(s) == \E i \in DOMAIN kept : kept[i] = s
    IN  [recent |-> kept,
         entry |-> [s \in Sessions |-> IF stays(s) THEN c.entry[s] ELSE Empty.entry[s]]]

-----------------------------------------------------------------------------
(* Processes.                                                               *)

\* "patch" are the files of the edit and "todo" those still to scan; "fresh" is
\* what the answer will tell, and "found" is that and what was known; "proposed"
\* is what the detector finds in a write that is checked before it lands, and
\* "count" how often it was proposed.
Idle == [pc |-> "idle", session |-> NoSession, patch |-> {}, todo |-> {},
         config |-> [enabled |-> TRUE, rules |-> {}, files |-> {}], snap |-> Empty,
         fresh |-> {}, found |-> {}, proposed |-> {}, count |-> 0]

Running(p) == hook[p].pc # "idle"

\* p has read the cache and not yet written it.
Holds(p) == hook[p].pc \in {"scan", "write"}

\* expandScanTargets: the files of the edit and, after them, their stylesheets.
Targets(patch) == patch \union UNION {Styles[f] : f \in patch}

-----------------------------------------------------------------------------
(* The agents and the user.                                                *)

Fire(p, s, patch, proposed) ==
    /\ ~Running(p) /\ edits < MaxEdits
    /\ hook' = [hook EXCEPT ![p] = [Idle EXCEPT !.pc = "start", !.session = s,
                                                !.patch = patch, !.proposed = proposed]]
    /\ edits' = edits + 1
    /\ UNCHANGED <<cache, config, told, repeated, denied, serial, faults, commands>>

\* An edit lands and the hook of the tool runs.
Edit(p, s, patch, after) ==
    /\ s \notin Gated
    /\ Fire(p, s, patch, {})
    /\ content' = [f \in Files |-> IF f \in patch THEN after[f] ELSE content[f]]
    /\ made' = [made EXCEPT ![s] = [f \in Files |->
                    IF f \in patch THEN @[f] + 1 ELSE @[f]]]

\* A write is proposed; it lands when the hook allows it.
Propose(p, s, f, after) ==
    /\ s \in Gated
    /\ Fire(p, s, {f}, after)
    /\ UNCHANGED <<content, made>>

Command ==
    /\ faults + commands < MaxUpsets /\ commands' = commands + 1
    /\ UNCHANGED <<content, hook, history, edits, faults>>

\* hook-admin.mjs on, off, ignore-rule and ignore-file.
Configure ==
    /\ Command
    /\ \/ config' = [config EXCEPT !.enabled = ~@]
       \/ \E x \in Findings : config' = [config EXCEPT !.rules = @ \union {x}]
       \/ \E f \in Files : config' = [config EXCEPT !.files = @ \union {f}]
    /\ UNCHANGED <<cache, serial>>

Reset ==
    /\ Command
    /\ config' = Idle.config
    /\ cache' = Empty
    /\ serial' = {}

-----------------------------------------------------------------------------
(* The processes.                                                          *)

Step == UNCHANGED <<config, made, edits, commands>>

\* The configuration and the cache are read at one time.
ReadCache(p, next) ==
    /\ hook' = [hook EXCEPT ![p] = next]
    /\ serial' = IF \E q \in Processes : Holds(q) THEN {} ELSE serial

\* runHook: the files to scan are those of the edit and their stylesheets.
StartHook(p) ==
    LET h == hook[p]
    IN  /\ h.pc = "start" /\ h.session \notin Gated
        /\ IF config.enabled
           THEN ReadCache(p, [h EXCEPT !.pc = "scan", !.todo = Targets(h.patch),
                                       !.config = config, !.snap = cache])
           ELSE hook' = [hook EXCEPT ![p] = Idle] /\ UNCHANGED serial
        /\ Step /\ UNCHANGED <<content, cache, told, repeated, denied, faults>>

\* Mutant: what another session was told is not told again.
FreshInProject(c, s, f, found) ==
    found \ UNION {c.entry[t][f].known : t \in Cached(c)}

\* dedupeAgainstCache
Fresh(c, s, f, found) == found \ c.entry[s][f].known

\* Mutant: what was told is not remembered.
ScannedForgetful(c, s, f, found, fresh) == IF found = {} THEN c ELSE Ensure(c, s)

\* What the cache is after a scan of f that found these.
Scanned(c, s, f, found, fresh) ==
    IF found = {} THEN c
    ELSE IF fresh = {} THEN Ensure(c, s)
    ELSE RememberFindings(c, s, f, fresh)

\* Mutant: a scan beside the edit of a component counts too.
CountedEach(h, f) == BumpEditCount(h.snap, h.session, f)

\* Only an edit of the file itself counts, not a scan beside one of a component.
Counted(h, f) == IF f \in h.patch THEN BumpEditCount(h.snap, h.session, f) ELSE h.snap

\* A file that was edited too often is not scanned for its own sake.
ScanFile(p, f, detected) ==
    LET h == hook[p]
        s == h.session
        primary == f \in h.patch
        counted == Counted(h, f)
        suppressed == primary /\ counted.entry[s][f].edits > Threshold
        found == detected \ h.config.rules
        fresh == Fresh(counted, s, f, found)
        next == [h EXCEPT !.todo = @ \ {f}]
    IN  /\ h.pc = "scan" /\ f \in h.todo
        /\ primary \/ h.todo \intersect h.patch = {}
        /\ hook' = [hook EXCEPT ![p] =
               IF f \in h.config.files THEN next
               ELSE IF suppressed THEN [next EXCEPT !.snap = counted]
               ELSE [next EXCEPT !.snap = Scanned(counted, s, f, found, fresh),
                                 !.fresh = @ \union ({f} \X fresh),
                                 !.found = @ \union ({f} \X found)]]
        /\ Step /\ UNCHANGED <<content, cache, told, repeated, denied, serial>>

Scan(p) == \E f \in hook[p].todo : ScanFile(p, f, content[f])

Landed(p) == [f \in Files |-> IF f \in hook[p].patch THEN hook[p].proposed ELSE content[f]]

\* hook-before-edit.mjs: a write without findings lands, another is counted.
CheckWrite(p, detected) ==
    LET h == hook[p]
        f == CHOOSE f \in Files : h.patch = {f}
        found == detected \ config.rules
    IN  /\ h.pc = "start" /\ h.session \in Gated
        /\ IF ~config.enabled \/ f \in config.files \/ found = {}
           THEN /\ content' = Landed(p)
                /\ hook' = [hook EXCEPT ![p] = Idle]
                /\ UNCHANGED serial
           ELSE LET counted == BumpCursorDenial(cache, h.session, f, found)
                IN  /\ ReadCache(p, [h EXCEPT !.pc = "scan", !.fresh = {f} \X found,
                                       !.snap = counted,
                                       !.count = counted.entry[h.session][f].denials[found]])
                    /\ UNCHANGED content
        /\ Step /\ UNCHANGED <<cache, told, repeated, denied>>

\* A detector that throws has found nothing.
ScanThrows(p) ==
    /\ faults + commands < MaxUpsets /\ faults' = faults + 1
    /\ (\E f \in hook[p].todo : ScanFile(p, f, {})) \/ CheckWrite(p, {})

\* What p knows when it reports: the cache and the configuration are done with.
Reported(p) == [hook[p] EXCEPT !.pc = "answer", !.snap = Empty, !.config = Idle.config]

\* persistCache: opening the file truncates it,
Truncate(p) ==
    /\ hook[p].pc = "scan" /\ hook[p].todo = {}
    /\ cache' = Empty
    /\ hook' = [hook EXCEPT ![p].pc = "write"]
    /\ Step /\ UNCHANGED <<content, told, repeated, denied, serial, faults>>

\* and then it is written.
Persist(p) ==
    /\ hook[p].pc = "write"
    /\ cache' = Evicted(hook[p].snap)
    /\ serial' = {s \in serial : s \in Cached(hook[p].snap) => s \in Cached(cache')}
    /\ hook' = [hook EXCEPT ![p] = Reported(p)]
    /\ Step /\ UNCHANGED <<content, told, repeated, denied, faults>>

\* The file cannot be written: the error is swallowed.
PersistFails(p) ==
    /\ hook[p].pc = "scan" /\ hook[p].todo = {}
    /\ faults + commands < MaxUpsets /\ faults' = faults + 1
    /\ hook' = [hook EXCEPT ![p] = Reported(p)]
    /\ serial' = {}
    /\ Step /\ UNCHANGED <<content, cache, told, repeated, denied>>

\* The grouped reminder has what is fresh in every file; without any there is
\* at most an acknowledgement, which names nothing new.
Reminder(h) == h.fresh

Answer(p) ==
    LET h == hook[p]
        s == h.session
    IN  /\ h.pc = "answer" /\ s \notin Gated
        /\ told' = [told EXCEPT ![s] = @ \union Reminder(h)]
        /\ repeated' = IF Reminder(h) \intersect told[s] = {} THEN repeated
                       ELSE repeated \union {s}
        /\ hook' = [hook EXCEPT ![p] = Idle]
        /\ Step /\ UNCHANGED <<content, cache, denied, serial, faults>>

\* A write that was denied too often for the same findings lands with a warning.
AnswerWrite(p) ==
    LET h == hook[p]
        s == h.session
        f == CHOOSE f \in Files : h.patch = {f}
        found == {x \in Findings : <<f, x>> \in h.fresh}
    IN  /\ h.pc = "answer" /\ s \in Gated
        /\ IF h.count > Threshold
           THEN content' = Landed(p) /\ UNCHANGED denied
           ELSE denied' = [denied EXCEPT ![s][f][found] = @ + 1] /\ UNCHANGED content
        /\ hook' = [hook EXCEPT ![p] = Idle]
        /\ Step /\ UNCHANGED <<cache, told, repeated, serial, faults>>

\* The agent's timeout for a hook is five seconds.
Killed(p) ==
    /\ Running(p) /\ faults + commands < MaxUpsets /\ faults' = faults + 1
    /\ hook' = [hook EXCEPT ![p] = Idle]
    /\ serial' = {}
    /\ \/ UNCHANGED content
       \/ hook[p].session \in Gated /\ content' = Landed(p)
    /\ Step /\ UNCHANGED <<cache, told, repeated, denied>>

-----------------------------------------------------------------------------

Init ==
    /\ content = [f \in Files |-> {}]
    /\ cache = Empty
    /\ config = Idle.config
    /\ hook = [p \in Processes |-> Idle]
    /\ told = [s \in Sessions |-> {}]
    /\ repeated = {}
    /\ denied = [s \in Sessions |-> [f \in Files |-> Unseen.denials]]
    /\ made = [s \in Sessions |-> [f \in Files |-> 0]]
    /\ serial = Sessions
    /\ edits = 0 /\ faults = 0 /\ commands = 0

HookStep(p) ==
    \/ StartHook(p)
    \/ (Scan(p) \/ CheckWrite(p, hook[p].proposed)) /\ UNCHANGED faults
    \/ Truncate(p) \/ Persist(p) \/ Answer(p) \/ AnswerWrite(p)

Next ==
    \/ \E p \in Processes, s \in Sessions :
        \/ \E patch \in Patches, after \in [Files -> SUBSET Findings] : Edit(p, s, patch, after)
        \/ \E f \in Files, after \in SUBSET Findings : Propose(p, s, f, after)
    \/ \E p \in Processes :
        \/ HookStep(p) \/ ScanThrows(p) \/ PersistFails(p) \/ Killed(p)
    \/ Configure
    \/ Reset

Spec == Init /\ [][Next]_vars

-----------------------------------------------------------------------------
(* Properties.                                                             *)

Entry == [edits : Nat, known : SUBSET Findings, denials : [SUBSET Findings -> Nat]]

Caches == [recent : Seq(Sessions), entry : [Sessions -> [Files -> Entry]]]

\* The cache never has more than MaxSessions sessions, each once, and keeps
\* nothing of any other (persistCache).
TypeOK ==
    /\ content \in [Files -> SUBSET Findings]
    /\ cache \in Caches
    /\ Len(cache.recent) <= MaxSessions
    /\ \A i, j \in DOMAIN cache.recent : cache.recent[i] = cache.recent[j] => i = j
    /\ \A s \in Sessions \ Cached(cache) : cache.entry[s] = Empty.entry[s]
    /\ \A p \in Processes : hook[p].snap \in Caches /\ hook[p].fresh \subseteq Files \X Findings

\* No file is held to be edited more often than it was: scans beside the edit
\* of a component do not count, and no overwritten cache adds to it.
CountedWasMade ==
    \A s \in Sessions, f \in Files : cache.entry[s][f].edits <= made[s][f]

\* When no two processes of the project overlapped, none failed, and its
\* session was not evicted, an agent is told of each finding once, and a write
\* is denied Threshold times and then let through, so that it cannot loop.
ExactOneByOne ==
    \A s \in serial :
        /\ s \notin repeated
        /\ \A f \in Files, found \in SUBSET Findings : denied[s][f][found] <= Threshold

\* Whatever overlaps, forgets and evicts: an agent that got an answer was told of
\* all that was found in the files its hook scanned, now or before; or another
\* answer is on its way to it.
NothingIsKept ==
    [][\A p \in Processes :
        Answer(p) /\ faults = 0 =>
            LET s == hook[p].session
            IN  \A g \in hook[p].found :
                    \/ g \in told'[s]
                    \/ \E q \in Processes : hook'[q].pc = "answer" /\ hook'[q].session = s
                                            /\ g \in hook'[q].fresh]_vars
=============================================================================
