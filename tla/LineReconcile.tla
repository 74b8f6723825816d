--------------------------- MODULE LineReconcile ---------------------------
(***************************************************************************)
(* How reconcileHumanEdits merges the human's text of one file into the    *)
(* Agent's (buildLineMap, splitSymbol, reconcileFile and findEditRanges of *)
(* plugin/dualview/dualview-human-edit.ts), over rounds of human edits.    *)
(*                                                                         *)
(* Untrusted data is a sequence of lines.  A symbol stands for a range of  *)
(* the lines of one datum: splitting it makes symbols of smaller ranges.   *)
(* It is a line of its own or has something before it on its line.  The    *)
(* raw lines of all data are distinct, and the human writes none.          *)
(***************************************************************************)
EXTENDS Naturals, Sequences, SequencesExt

CONSTANTS
  Datum,       \* untrusted data
  Height,      \* the number of lines of each datum
  Own,         \* lines the agent or the human writes
  Documents,   \* the Agent texts to begin with
  MaxLines,    \* bound on the lines of the human's text
  HumanEdits   \* what the human does: "replace", "insert", "delete"

RawLine(d, i) == [raw |-> d, at |-> i]
SymbolOf(d, i, j) == [symbol |-> d, from |-> i, to |-> j]

Symbols == {s \in UNION {{SymbolOf(d, i, j) : i, j \in 1 .. Height[d]} : d \in Datum} :
              s.from <= s.to}
RawLines == UNION {{RawLine(d, i) : i \in 1 .. Height[d]} : d \in Datum}

\* A symbol, and a raw line, with spaces or with other text before it.
Dressed == [beside : {"space", "text"}, symbol : Symbols]
Mixed == [beside : {"space", "text"}, raw : RawLines]

ASSUME LinesAssumption ==
  /\ Height \in [Datum -> Nat \ {0}]
  /\ HumanEdits \subseteq {"replace", "insert", "delete"}
  /\ MaxLines \in Nat
  /\ Own \cap (Symbols \cup Dressed \cup RawLines \cup Mixed) = {}
  /\ Documents \subseteq Seq(Own \cup Symbols \cup Dressed)

VARIABLES
  agent,      \* the Agent text: lines, some of them with symbols
  human,      \* the Human text: lines
  committed,  \* the Human text both branches were last committed with
  obsolete,   \* symbols with obsoleted_at set
  shifted     \* history: where the human has added or deleted lines of a text
              \* with symbols: nowhere, only below all of them, or above one

vars == <<agent, human, committed, obsolete, shifted>>

IsSymbol(l) == \E d \in Datum : \E i \in 1 .. Height[d] : \E j \in i .. Height[d] :
                 l = SymbolOf(d, i, j)

\* The lines of a symbol's value.
Value(s) == [k \in 1 .. s.to + 1 - s.from |-> RawLine(s.symbol, s.from + k - 1)]

\* What resolveAllSymbols makes of a line: what is before a symbol stays before
\* the first line of its value.
Meaning(l) ==
  IF IsSymbol(l) THEN Value(l)
  ELSE IF l \in Dressed
       THEN [Value(l.symbol) EXCEPT ![1] = [beside |-> l.beside, raw |-> @]]
       ELSE <<l>>

Resolve(text) == FlattenSeq([i \in DOMAIN text |-> Meaning(text[i])])

TypeOK ==
  /\ agent \in Seq(Own \cup Symbols \cup Dressed \cup RawLines \cup Mixed)
  /\ human \in Seq(Own \cup RawLines \cup Mixed)
  /\ committed \in Seq(Own \cup RawLines \cup Mixed)
  /\ obsolete \in SUBSET Symbols
  /\ shifted \in {"no", "below", "above"}

Init ==
  /\ agent \in Documents
  /\ human = Resolve(agent)
  /\ committed = human
  /\ obsolete = {}
  /\ shifted = "no"

\* Symbols without a common line.
Disjoint(s, t) == s.symbol = t.symbol => s.to < t.from \/ t.to < s.from

\* Each symbol of a document is a line of its own.
EachBare == \A text \in Documents : \A i \in DOMAIN text : text[i] \notin Dressed

\* No line of untrusted data is in a document twice.
EachUsedOnce ==
  \A text \in Documents : \A i, j \in DOMAIN text :
    i # j /\ IsSymbol(text[i]) /\ IsSymbol(text[j]) => Disjoint(text[i], text[j])

\* No document has two neighbouring symbols that continue each other.
EachCoarse ==
  \A text \in Documents : \A i \in 1 .. Len(text) - 1 :
    IsSymbol(text[i]) /\ IsSymbol(text[i + 1]) /\ text[i].symbol = text[i + 1].symbol
      => text[i].to + 1 # text[i + 1].from

---------------------------------------------------------------------------
(***************************************************************************)
(* buildLineMap: a line of the Agent text that is an active symbol, spaces *)
(* aside, spans as many lines of the Human text as its value has; any      *)
(* other spans one, also if it has a symbol among other text.              *)
(***************************************************************************)
SymbolIn(l) == IF l \in Dressed THEN l.symbol ELSE l

IsSegment(l) ==
  /\ \/ IsSymbol(l)
     \/ l \in Dressed /\ l.beside = "space"
  /\ SymbolIn(l) \notin obsolete

Span(l) == IF IsSegment(l) THEN Len(Value(SymbolIn(l))) ELSE 1

HumanStartUnspanned(i) == i     \* seeded fault: every line is mapped 1:1

HumanStart(i) ==
  LET start[k \in 1 .. i] ==
        IF k = 1 THEN 1 ELSE start[k - 1] + Span(agent[k - 1])
  IN start[i]

HasSymbol(l) == IsSymbol(l) \/ l \in Dressed

HasSymbols == \E i \in DOMAIN agent : HasSymbol(agent[i])

---------------------------------------------------------------------------
(***************************************************************************)
(* The human edits one line at a time.                                     *)
(***************************************************************************)
\* Where the lines from the i-th on are, relative to the symbols.
Shift(i) ==
  IF ~HasSymbols THEN shifted
  ELSE IF \E k \in DOMAIN agent :
            HasSymbol(agent[k]) /\ i < HumanStart(k) + Span(agent[k])
  THEN "above"
  ELSE IF shifted = "no" THEN "below" ELSE shifted

HumanReplaces ==
  /\ "replace" \in HumanEdits
  /\ \E i \in DOMAIN human, o \in Own : human' = [human EXCEPT ![i] = o]
  /\ UNCHANGED <<agent, committed, obsolete, shifted>>

HumanInserts ==
  /\ "insert" \in HumanEdits
  /\ Len(human) < MaxLines
  /\ \E i \in 1 .. Len(human) + 1, o \in Own :
       human' = InsertAt(human, i, o) /\ shifted' = Shift(i)
  /\ UNCHANGED <<agent, committed, obsolete>>

HumanDeletes ==
  /\ "delete" \in HumanEdits
  /\ Len(human) > 1
  /\ \E i \in DOMAIN human :
       human' = RemoveAt(human, i) /\ shifted' = Shift(i)
  /\ UNCHANGED <<agent, committed, obsolete>>

---------------------------------------------------------------------------
(***************************************************************************)
(* reconcileFile.                                                          *)
(***************************************************************************)
\* The human lines of a segment: fewer than its span where the text ends.
HumanSlice(i) ==
  LET last == HumanStart(i) + Span(agent[i]) - 1 IN
  SubSeq(human, HumanStart(i), IF last <= Len(human) THEN last ELSE Len(human))

SplitNothing(s, slice) == slice  \* seeded fault: replaced whole, not split

SplitByLine(s, slice) ==            \* seeded fault: one symbol for each line
  FlattenSeq([k \in DOMAIN slice |->
    IF slice[k] = Value(s)[k]
    THEN <<SymbolOf(s.symbol, s.from + k - 1, s.from + k - 1)>>
    ELSE <<slice[k]>>])

SplitPastEnd(s, slice) ==           \* seeded fault: lineEnd is exclusive
  FlattenSeq([k \in DOMAIN slice |->
    IF slice[k] = Value(s)[k]
    THEN <<SymbolOf(s.symbol, s.from + k - 1, s.from + k)>>
    ELSE <<slice[k]>>])

\* findEditRanges and splitSymbol: each run of lines the human has left as they
\* were becomes a symbol of its own, the lines between are the human's.
Split(s, slice) ==
  LET value == Value(s)
      kept(k) == k \in DOMAIN value /\ slice[k] = value[k]
      runEnd(k) == CHOOSE e \in DOMAIN value :
        /\ e >= k
        /\ \A j \in k .. e : kept(j)
        /\ ~kept(e + 1)
  IN FlattenSeq([k \in DOMAIN value |->
       IF ~kept(k) THEN <<slice[k]>>
       ELSE IF kept(k - 1) THEN <<>>
       ELSE <<SymbolOf(s.symbol, s.from + k - 1, s.from + runEnd(k) - 1)>>])

PromotedAlways(i) == IsSegment(agent[i])    \* seeded fault: no comparison

Promoted(i) ==
  IsSegment(agent[i]) /\ HumanSlice(i) # Value(SymbolIn(agent[i]))

\* A symbol the human has not touched stays; one with some lines changed is
\* split; one with all lines changed, or not as many lines, is replaced.  One
\* with spaces before it never equals its value.
Reconciled(i) ==
  LET line == agent[i]
      slice == HumanSlice(i)
      value == Value(SymbolIn(line)) IN
  IF ~IsSegment(line) THEN IF slice = <<>> THEN <<line>> ELSE slice
  ELSE IF slice = value THEN <<line>>
  ELSE IF Len(slice) = Len(value) THEN Split(SymbolIn(line), slice)
  ELSE slice

\* A text without symbols is copied.
Reconcile ==
  /\ human # committed
  /\ agent' = IF HasSymbols
              THEN FlattenSeq([i \in DOMAIN agent |-> Reconciled(i)])
              ELSE human
  /\ obsolete' = obsolete
       \cup {SymbolIn(agent[i]) : i \in {k \in DOMAIN agent : Promoted(k)}}
  /\ committed' = human
  /\ UNCHANGED <<human, shifted>>

Next == HumanReplaces \/ HumanInserts \/ HumanDeletes \/ Reconcile

Spec == Init /\ [][Next]_vars

---------------------------------------------------------------------------
(***************************************************************************)
(* Properties.                                                             *)
(***************************************************************************)
Synced == human = committed

\* Untrusted lines never show in the Agent text, whatever the human edits.
NoRawLines == \A i \in DOMAIN agent : agent[i] \notin RawLines \cup Mixed

\* They do not as long as the human edits lines in place, or adds and deletes
\* lines only below the last symbol of the text.
NoRawLinesInPlace == shifted # "above" => NoRawLines

\* After a reconciliation the Agent text means the human's text, line by line:
\* nothing the human wrote in place is dropped, moved or doubled.
RoundTrip == Synced /\ shifted = "no" => Resolve(agent) = human

\* A symbol in the Agent text is active: an obsoleted one is taken for a
\* literal line by the next reconciliation.
SymbolsActive == \A i \in DOMAIN agent : agent[i] \notin obsolete

\* Symbols are split no further than the human's lines cut them: no two
\* neighbouring ones continue each other.
SplitIsCoarsest ==
  \A i \in 1 .. Len(agent) - 1 :
    IsSymbol(agent[i]) /\ IsSymbol(agent[i + 1])
      /\ agent[i].symbol = agent[i + 1].symbol
      => agent[i].to + 1 # agent[i + 1].from

===========================================================================
