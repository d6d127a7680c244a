--------------------------- MODULE VariantMarkers ---------------------------
(***************************************************************************)
(* The blocks that live mode keeps in a source file while the user looks   *)
(* at variants: live-wrap.mjs puts one around the picked element,          *)
(* live-insert.mjs beside it, the agent writes the variants into it, and   *)
(* live-accept.mjs replaces it by the chosen variant or by the original.   *)
(*                                                                         *)
(* A file is a sequence of lines.  A line is a tag, a text, a comment or   *)
(* blank, and has an indentation; everything the scripts look for in it is *)
(* in its record.  Sessions overlap, as when one was abandoned: a block    *)
(* may lie inside another one.                                             *)
(***************************************************************************)
EXTENDS Integers, FiniteSets, Sequences

CONSTANTS
    Sessions,       \* ids; each is wrapped once
    Source,         \* the lines of the file before the first session
    Count,          \* variants of a session
    Editable,       \* texts of Source that copy edits are made to
    NoId

\* The file parses, and nothing in it is from an earlier session.
UserLine(l) ==
    /\ l.tag \in {"div", "/div", "text", "blank"}
    /\ l = [tag |-> l.tag, role |-> IF l.tag \in {"div", "text"} THEN "user" ELSE "any",
            id |-> l.id, n |-> 0, ind |-> l.ind, new |-> FALSE]
    /\ l.ind \in Nat

VARIABLES
    file,           \* the lines
    jsx,            \* its comment syntax is JSX (detectCommentSyntax)
    outcome,        \* what became of a session
    mode,           \* "wrap" or "insert", once it has begun
    staged          \* texts with a copy edit in the buffer, not applied

vars == <<file, jsx, outcome, mode, staged>>

-----------------------------------------------------------------------------
(* Lines.                                                                  *)

\* A <div>: the user's, a block's ("wrapper"), one around the original or a
\* variant, or the one around CSS still to fold in ("carbonize").  A text is
\* an element on one line; "new" once a copy edit is in it.
Line(tag, role, id, n, ind) ==
    [tag |-> tag, role |-> role, id |-> id, n |-> n, ind |-> ind, new |-> FALSE]

Open(role, id, n, ind) == Line("div", role, id, n, ind)
Shut(ind) == Line("/div", "any", NoId, 0, ind)
Text(name, ind) == Line("text", "user", name, 0, ind)
Mark(role, id, ind) == Line("mark", role, id, 0, ind)
Css(id, ind) == Line("style", "css", id, 0, ind)
Blank == Line("blank", "any", NoId, 0, 0)

IsBlank(line) == line.tag = "blank"

First(S) == IF S = {} THEN 0 ELSE CHOOSE i \in S : \A j \in S : i <= j
Final(S) == IF S = {} THEN 0 ELSE CHOOSE i \in S : \A j \in S : j <= i

\* How many <div>s are open after line j.
Depth(s, j) ==
    Cardinality({k \in 1..j : s[k].tag = "div"})
        - Cardinality({k \in 1..j : s[k].tag = "/div"})

\* The line that closes what line i opens, or the last one.
Closing(s, i) ==
    LET outer == Depth(s, i - 1)
        ends == {j \in i..Len(s) : Depth(s, j) <= outer}
    IN  IF s[i].tag # "div" THEN i ELSE IF ends = {} THEN Len(s) ELSE First(ends)

MinIndent(s) ==
    First({s[i].ind : i \in {j \in DOMAIN s : ~IsBlank(s[j])}})

\* s with its least indentation replaced by "base".
Reindent(s, base) ==
    [i \in DOMAIN s |-> IF IsBlank(s[i]) THEN Blank
                        ELSE [s[i] EXCEPT !.ind = base + @ - MinIndent(s)]]

\* The <div>s of s nest.
Nested(s) == Depth(s, Len(s)) = 0 /\ \A j \in DOMAIN s : Depth(s, j) >= 0

\* The elements of s at the places in S, in their order.
Kept(s, S) ==
    [m \in 1..Cardinality(S) |->
        s[CHOOSE k \in S : Cardinality({j \in S : j <= k}) = m]]

ASSUME MarkersAssumption ==
    /\ Count \in Nat \ {0} /\ NoId \notin Sessions
    /\ Len(Source) \in Nat /\ Source = [i \in 1..Len(Source) |-> Source[i]]
    /\ \A i \in DOMAIN Source : UserLine(Source[i])
    /\ Nested(Source)

\* s with its lines i to j replaced.
Splice(s, i, j, new) == SubSeq(s, 1, i - 1) \o new \o SubSeq(s, j + 1, Len(s))

-----------------------------------------------------------------------------
(* live-wrap.mjs and live-insert.mjs.                                      *)

\* findElement never starts at a line of a block's scaffold.
Pickable(s, i) == s[i].tag = "text" \/ (s[i].tag = "div" /\ s[i].role = "user")

\* What the user was looking at: the staged copy edits are in it.
WithEdits(lines) ==
    [i \in DOMAIN lines |->
        IF lines[i].tag = "text" /\ lines[i].id \in staged
        THEN [lines[i] EXCEPT !.new = TRUE] ELSE lines[i]]

OriginalLines(id, lines, ind) ==
    <<Mark("original", id, ind + 2), Open("original", id, 0, ind + 2)>>
        \o Reindent(WithEdits(lines), ind + 4)
        \o <<Shut(ind + 2), Mark("insert", id, ind + 2)>>

\* Mutant: a comment, a <div>, a comment in JSX too.
CommentsOutside(id, inner, ind) ==
    <<Mark("start", id, ind), Open("wrapper", id, 0, ind)>> \o inner
        \o <<Shut(ind), Mark("end", id, ind)>>

\* In JSX the comments are inside the <div>, so that it is an only child.
Wrapper(id, inner, ind) ==
    IF jsx
    THEN <<Open("wrapper", id, 0, ind), Mark("start", id, ind + 2)>> \o inner
            \o <<Mark("end", id, ind + 2), Shut(ind)>>
    ELSE <<Mark("start", id, ind), Open("wrapper", id, 0, ind)>> \o inner
            \o <<Shut(ind), Mark("end", id, ind)>>

Wrap(id, i) ==
    /\ outcome[id] = "none" /\ Pickable(file, i)
    /\ LET j == Closing(file, i)
           ind == file[i].ind
           inner == OriginalLines(id, SubSeq(file, i, j), ind)
       IN  file' = Splice(file, i, j, Wrapper(id, inner, ind))
    /\ outcome' = [outcome EXCEPT ![id] = "open"]
    /\ mode' = [mode EXCEPT ![id] = "wrap"]
    /\ UNCHANGED <<jsx, staged>>

\* The block goes before the anchor's line, or after its end.
Insert(id, i, position) ==
    /\ outcome[id] = "none" /\ Pickable(file, i)
    /\ LET k == IF position = "before" THEN i ELSE Closing(file, i) + 1
           ind == IF k <= Len(file) THEN file[k].ind ELSE file[i].ind
       IN  file' = Splice(file, k, k - 1,
                          Wrapper(id, <<Mark("insert", id, ind + 2)>>, ind))
    /\ outcome' = [outcome EXCEPT ![id] = "open"]
    /\ mode' = [mode EXCEPT ![id] = "insert"]
    /\ UNCHANGED <<jsx, staged>>

-----------------------------------------------------------------------------
(* The agent writes the variants below the line that asks for them, with   *)
(* CSS or without, all at once (reference/live.md).                        *)

VariantLines(id, n, ind) ==
    <<Open("variant", id, n, ind), Open("user", NoId, 0, ind + 2),
      Text(<<id, n>>, ind + 4), Shut(ind + 2), Shut(ind)>>

At(role, id) == {i \in DOMAIN file : file[i].role = role /\ file[i].id = id}

AllVariants(id, ind) ==
    [k \in 1..(5 * Count) |->
        VariantLines(id, 1 + ((k - 1) \div 5), ind)[1 + ((k - 1) % 5)]]

WriteVariants(id, css) ==
    LET k == First(At("insert", id))
        ind == file[k].ind
    IN  /\ outcome[id] = "open" /\ k # 0 /\ At("variant", id) = {}
        /\ file' = Splice(file, k + 1, k,
                          (IF css THEN <<Css(id, ind)>> ELSE <<>>) \o AllVariants(id, ind))
        /\ UNCHANGED <<jsx, outcome, mode, staged>>

-----------------------------------------------------------------------------
(* live-accept.mjs.                                                        *)

None == [start |-> 0, end |-> 0]

FindMarkerBlock(id) ==
    LET start == First(At("start", id))
        end == First(At("end", id))
    IN  IF start # 0 /\ end # 0 THEN [start |-> start, end |-> end] ELSE None

\* Mutant: the comments are taken for the whole block.
MarkersOnly(block, id) == block

\* In JSX the <div> around the comments goes too.
ExpandReplaceRange(block, id) ==
    LET openers == {i \in At("wrapper", id) : i < block.start}
        start == Final(openers)
    IN  IF ~jsx \/ openers = {} THEN block
        ELSE [start |-> start, end |-> Closing(file, start)]

\* Of a <style> an empty line is left.
Lines(block) ==
    [k \in 1..(block.end - block.start + 1) |->
        LET line == file[block.start + k - 1]
        IN  IF line.tag = "style" THEN Blank ELSE line]

DivsOf(lines, role) == {i \in DOMAIN lines : lines[i].role = role /\ lines[i].tag = "div"}

\* What is inside the <div> at line i of a block: the rest of the opener's
\* line, and the indentation of the closer, count as lines.
InnerByAttr(lines, i) ==
    IF i = 0 THEN <<>>
    ELSE <<Blank>> \o SubSeq(lines, i + 1, Closing(lines, i) - 1) \o <<Blank>>

\* Mutant: up to the first closer, whatever is nested.
OriginalToFirstCloser(block) ==
    LET lines == Lines(block)
        i == First(DivsOf(lines, "original"))
        j == First({k \in DOMAIN lines : k > i /\ lines[k].tag = "/div"})
    IN  IF i = 0 THEN <<>> ELSE <<Blank>> \o SubSeq(lines, i + 1, j - 1) \o <<Blank>>

ExtractOriginal(block) ==
    LET lines == Lines(block)
    IN  InnerByAttr(lines, First(DivsOf(lines, "original")))

\* Without the empty lines at both ends; one is left if there is no other.
Trimmed(s) ==
    LET full == {i \in DOMAIN s : ~IsBlank(s[i])}
    IN  IF full = {} THEN <<Blank>> ELSE SubSeq(s, First(full), Final(full))

\* Mutant: the first variant there is.
ExtractAny(block, n) ==
    LET lines == Lines(block)
        i == First(DivsOf(lines, "variant"))
    IN  IF i = 0 THEN <<>> ELSE Trimmed(InnerByAttr(lines, i))

\* Whoever's variant it is: the attribute has only the number.
ExtractVariant(block, n) ==
    LET lines == Lines(block)
        i == First({k \in DivsOf(lines, "variant") : lines[k].n = n})
    IN  IF i = 0 THEN <<>> ELSE Trimmed(InnerByAttr(lines, i))

HasCss(block, id) ==
    \E i \in block.start..block.end : file[i].tag = "style" /\ file[i].id = id

\* buildCarbonizeReplacement; the values of parameters are one of its comments.
CarbonizeBody(id, n, lines, ind) ==
    <<Mark("carbonize-start", id, ind), Css(id, ind), Mark("carbonize-end", id, ind),
      Open("variant", id, n, ind)>> \o Reindent(lines, ind + 2) \o <<Shut(ind)>>

Replacement(id, n, lines, css, ind) ==
    IF ~css THEN Reindent(lines, ind)
    ELSE IF jsx
    THEN <<Open("carbonize", id, 0, ind)>> \o CarbonizeBody(id, n, lines, ind + 2)
            \o <<Shut(ind)>>
    ELSE CarbonizeBody(id, n, lines, ind)

\* Mutant: every staged edit whose text is in the file.
ScrubbedFileWide(block) ==
    {t \in staged : \E i \in DOMAIN file : file[i].tag = "text" /\ file[i].id = t}

\* The staged edits whose text was in the block are dropped: the variants
\* were made of it.
Scrubbed(block) ==
    LET original == ExtractOriginal(block)
    IN  {t \in staged : \E i \in DOMAIN original :
                            original[i].tag = "text" /\ original[i].id = t}

Accept(id, n) ==
    LET block == FindMarkerBlock(id)
        range == ExpandReplaceRange(block, id)
        lines == ExtractVariant(block, n)
        helpers == \E i \in DOMAIN lines : lines[i].role \in {"original", "variant", "wrapper"}
        css == HasCss(block, id)
    IN  /\ outcome[id] = "open" /\ block # None /\ lines # <<>>
        /\ file' = Splice(file, range.start, range.end,
                          Replacement(id, n, lines, css, file[range.start].ind))
        /\ outcome' = [outcome EXCEPT ![id] = IF css \/ helpers THEN "carbonize" ELSE "accepted"]
        /\ staged' = staged \ Scrubbed(block)
        /\ UNCHANGED <<jsx, mode>>

\* Mutant: the indentation is taken from the start comment.
DiscardAtMarker(id) ==
    LET block == FindMarkerBlock(id)
        range == ExpandReplaceRange(block, id)
    IN  /\ outcome[id] = "open" /\ block # None
        /\ file' = Splice(file, range.start, range.end,
                          Reindent(ExtractOriginal(block), file[block.start].ind))
        /\ outcome' = [outcome EXCEPT ![id] = "discarded"]
        /\ UNCHANGED <<jsx, mode, staged>>

Discard(id) ==
    LET block == FindMarkerBlock(id)
        range == ExpandReplaceRange(block, id)
    IN  /\ outcome[id] = "open" /\ block # None
        /\ file' = Splice(file, range.start, range.end,
                          Reindent(ExtractOriginal(block), file[range.start].ind))
        /\ outcome' = [outcome EXCEPT ![id] = "discarded"]
        /\ UNCHANGED <<jsx, mode, staged>>

\* The agent folds the CSS in and removes what it stood in.
Carbonize(id) ==
    /\ outcome[id] = "carbonize"
    /\ LET c == First(At("carbonize-start", id))
           v == First({i \in DOMAIN file : i > c /\ file[i].role = "variant"})
           first == IF jsx THEN c - 1 ELSE c
           last == Closing(file, v)
       IN  IF c = 0 THEN UNCHANGED file
           ELSE file' = Splice(file, first, IF jsx THEN Closing(file, first) ELSE last,
                               Reindent(SubSeq(file, v + 1, last - 1), file[first].ind))
    /\ outcome' = [outcome EXCEPT ![id] = "accepted"]
    /\ UNCHANGED <<jsx, mode, staged>>

-----------------------------------------------------------------------------
(* Copy edits, of ManualEdits.tla, as far as the scripts meet them: none is *)
(* applied here.                                                           *)

Stage(t) ==
    /\ t \notin staged
    /\ \E i \in DOMAIN file : file[i].tag = "text" /\ file[i].id = t /\ ~file[i].new
    /\ staged' = staged \union {t}
    /\ UNCHANGED <<file, jsx, outcome, mode>>

DropEdits ==
    /\ staged # {} /\ staged' = {}
    /\ UNCHANGED <<file, jsx, outcome, mode>>

-----------------------------------------------------------------------------

Init ==
    /\ file = Source
    /\ jsx \in BOOLEAN
    /\ outcome = [id \in Sessions |-> "none"]
    /\ mode = [id \in Sessions |-> "none"]
    /\ staged = {}

Next ==
    \/ \E id \in Sessions :
        \/ \E i \in DOMAIN file : Wrap(id, i)
        \/ \E i \in DOMAIN file, position \in {"before", "after"} : Insert(id, i, position)
        \/ \E css \in BOOLEAN : WriteVariants(id, css)
        \/ \E n \in 1..Count : Accept(id, n)
        \/ Discard(id)
        \/ Carbonize(id)
    \/ \E t \in Editable : Stage(t)
    \/ DropEdits

Spec == Init /\ [][Next]_vars

-----------------------------------------------------------------------------
(* Properties.                                                             *)

Scaffold == {"start", "end", "wrapper", "original", "insert", "variant", "css",
             "carbonize", "carbonize-start", "carbonize-end"}

\* The file always parses: its <div>s nest.  A session that is over has left
\* nothing of its block behind, whatever other block it was in or around
\* (live-accept.mjs replaces the whole of it).
TypeOK ==
    /\ outcome \in [Sessions -> {"none", "open", "carbonize", "accepted", "discarded"}]
    /\ mode \in [Sessions -> {"none", "wrap", "insert"}]
    /\ staged \subseteq Editable
    /\ Nested(file)
    /\ \A i \in DOMAIN file :
        file[i].role \in Scaffold => outcome[file[i].id] \in {"open", "carbonize"}

\* The user's elements from line i to line j, as the page would have them
\* without the variants that are not accepted, by the outcomes o.
Content(s, o, i, j) ==
    LET hidden == UNION {k..Closing(s, k) : k \in {k \in DOMAIN s :
                            s[k].role = "variant" /\ o[s[k].id] = "open"}}
    IN  Kept([k \in DOMAIN s |-> [tag |-> s[k].tag, id |-> s[k].id]],
             {k \in i..j : s[k].role = "user" /\ k \notin hidden})

\* Line i is inside a <div> of session id that has this role.
Within(i, id, role) ==
    \E j \in 1..(i - 1) : /\ file[j].tag = "div" /\ file[j].role = role /\ file[j].id = id
                         /\ Closing(file, j) > i

\* No variant of another session, or what an accept left of one, is in the
\* block of session id: extractVariant could find it first.
NoOtherVariant(id) ==
    \A i \in DOMAIN file : file[i].role = "variant" /\ file[i].id # id
        => ~Within(i, id, "wrapper")

\* No original of another session is in the block of session id, which has
\* none itself: extractOriginal would find it.
NoOtherOriginal(id) ==
    mode[id] = "insert" =>
        \A i \in DOMAIN file : file[i].role = "original" => ~Within(i, id, "wrapper")

Accepts(id) == outcome[id] = "open" /\ outcome'[id] \in {"carbonize", "accepted"}

\* Wrapping, inserting, writing variants, discarding and the cleanup of CSS
\* keep every element of the page, in its place: only an accept changes what
\* the page is (live-wrap.mjs, live-insert.mjs, handleDiscard).
OnlyAcceptChanges ==
    [][(\E id \in Sessions : Accepts(id) \/ (Discard(id) /\ ~NoOtherOriginal(id)))
        \/ Content(file', outcome', 1, Len(file')) = Content(file, outcome, 1, Len(file))]_vars

LineOf(role, id, n) ==
    First({i \in At(role, id) : file[i].tag = "div" /\ file[i].n = n})

\* An accept puts the chosen variant, all of it and nothing else, in the place
\* of the session's block, and touches no element outside of it.
AcceptIsExact ==
    [][\A id \in Sessions, n \in 1..Count :
        Accept(id, n) /\ NoOtherVariant(id) =>
            LET w == LineOf("wrapper", id, 0)
                v == LineOf("variant", id, n)
            IN  Content(file', outcome', 1, Len(file'))
                    = Content(file, outcome, 1, w)
                        \o Content(file, outcome', v, Closing(file, v))
                        \o Content(file, outcome, Closing(file, w), Len(file))]_vars

\* An accept drops no staged edit whose text is still on the page (the scrub of
\* live-accept.mjs once dropped unrelated ones).
EditLeavesWithItsText ==
    [][\A t \in staged \ staged' :
        \/ DropEdits
        \/ LET rest == Content(file', outcome', 1, Len(file'))
           IN  \A i \in DOMAIN rest : rest[i].id # t]_vars

\* When every session is discarded and nothing was inserted, the user's lines
\* have the indentation they had at first, HTML and JSX alike.
IndentRestored ==
    (\A id \in Sessions : outcome[id] \in {"none", "discarded"} /\ mode[id] # "insert")
        => Kept([i \in DOMAIN file |-> [file[i] EXCEPT !.new = FALSE]],
                {i \in DOMAIN file : ~IsBlank(file[i])}) = Source

\* The lines at the top level of the file: the children of a JSX slot.
Slot ==
    {i \in DOMAIN file : file[i].tag \notin {"/div", "blank"} /\ Depth(file, i - 1) = 0}

\* In JSX a session never makes siblings of what was one child: a wrapper, an
\* original, a variant and its CSS all come as one element (live-wrap.mjs,
\* buildCarbonizeReplacement).  A session that inserts adds one.
OneChild ==
    jsx => Cardinality(Slot) <= 1 + Cardinality({id \in Sessions : mode[id] = "insert"})

\* "Source itself stays untouched here - only the wrap block's embedded
\* "original" copy is adjusted": outside the blocks of open sessions no text
\* has an edit that was not applied.
EditsStayStaged ==
    \A i \in DOMAIN file : file[i].new =>
        \E j \in 1..(i - 1) : /\ file[j].role = "wrapper" /\ outcome[file[j].id] = "open"
                              /\ Closing(file, j) > i
=============================================================================
