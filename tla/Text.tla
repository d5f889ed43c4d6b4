--------------------------------- MODULE Text ---------------------------------
(***************************************************************************)
(* What becomes of a text on its way to a voice (clispeak-text): it is     *)
(* refused if it would not read well aloud, rewritten on request, and cut  *)
(* into chunks.  A text is a sequence of characters, of which one of each  *)
(* kind the code tells apart is enough; a few words that it looks for as a *)
(* whole are one character here.  The claims at the end are evaluated over *)
(* all short texts.                                                        *)
(***************************************************************************)
EXTENDS Integers, Sequences, SequencesExt, FiniteSetsExt

CONSTANTS
    MaxChunk,   \* chunk::MAX_CHUNK
    MaxSpan,    \* validate::MAX_SPAN
    Longest     \* bound: characters of a text that the claims are evaluated on

ASSUME TextAssumption == MaxChunk \in Nat \ {0} /\ MaxSpan \in Nat /\ Longest \in Nat

\* "Dr" is any abbreviation, without its period; "@" any pictograph.
Digits  == {"1"}
Lower   == {"a"}
Upper   == {"B", "Dr"}
Letters == Lower \cup Upper
White   == {" ", "\n"}
Stops   == {".", "!"}
Emoji   == {"@"}
Marks   == {"#", ">", "-", "star", "tick", "bar", "open", "to", "close", "/", "http://", "www."}
Ink     == Digits \cup Letters \cup Stops \cup {","} \cup Emoji \cup Marks

Spoken(c) == c \in Digits \cup Letters
Said(s)   == SelectSeq(s, Spoken)

In(s, set)       == {i \in DOMAIN s : s[i] \in set}
Upto(s, p)       == SubSeq(s, 1, p)
From(s, p)       == SubSeq(s, p, Len(s))
Has(s, i, set)   == i \in DOMAIN s /\ s[i] \in set

\* How many of set s begins with, and s without those.
Run(s, set) == CHOOSE n \in 0 .. Len(s) :
    /\ \A i \in 1 .. n : s[i] \in set
    /\ n < Len(s) => s[n + 1] \notin set
TrimStart(s) == From(s, Run(s, White) + 1)
Trim(s) == Reverse(TrimStart(Reverse(TrimStart(s))))

\* The pieces of s, when it is cut after each of the positions.
Cut(s, positions) ==
    LET ends == SetToSortSeq(positions \cup {Len(s)}, <)
    IN  [k \in DOMAIN ends |-> SubSeq(s, IF k = 1 THEN 1 ELSE ends[k - 1] + 1, ends[k])]

Each(Op(_), parts) == [k \in DOMAIN parts |-> Op(parts[k])]
Words(s) == SelectSeq(Each(Trim, Cut(s, In(s, White))), LAMBDA w : w # <<>>)
Glue(words) == FlattenSeq([k \in DOMAIN words |->
                              IF k = 1 THEN words[k] ELSE <<" ">> \o words[k]])

-----------------------------------------------------------------------------
(* protect.rs.  A range is the number of characters before it, and up to   *)
(* its end; a position is the number of characters before it.              *)

TokenStart(s, i) == CHOOSE j \in 0 .. i - 1 :
    /\ j = 0 \/ s[j] \in White
    /\ \A k \in j + 1 .. i - 1 : s[k] \notin White
TokenEnd(s, i) ==
    LET all == i - 1 + Run(From(s, i), Ink)
        loose == Stops \cup {","}
    IN  CHOOSE e \in i - 1 .. all :
            /\ \A k \in e + 1 .. all : s[k] \in loose
            /\ e > i - 1 => s[e] \notin loose

Dotted(s) == {<<TokenStart(s, i), TokenEnd(s, i)>> :
                i \in {j \in In(s, {"."}) : /\ 1 < j /\ j < Len(s)
                                            /\ {s[j - 1], s[j + 1]} \cap White = {}}}
Abbreviated(s) == {<<i - 1, i + 1>> : i \in {j \in In(s, {"Dr"}) :
                       /\ j < Len(s) /\ s[j + 1] = "."
                       /\ j = 1 \/ s[j - 1] \in White}}
Ellipses(s) == {r \in (0 .. Len(s)) \X (0 .. Len(s)) :
                    /\ r[2] - r[1] >= 3
                    /\ \A i \in r[1] + 1 .. r[2] : s[i] = "."
                    /\ r[1] > 0 => s[r[1]] # "."
                    /\ r[2] < Len(s) => s[r[2] + 1] # "."}
ProtectedRanges(s) == Dotted(s) \cup Abbreviated(s) \cup Ellipses(s)

\* A cut is not made in a range, nor at its end, whatever space is between.
IsProtected(s, ranges, p) ==
    LET q == Len(Reverse(TrimStart(Reverse(Upto(s, p)))))
    IN  \E r \in ranges : (r[1] < p /\ p < r[2]) \/ q = r[2]

-----------------------------------------------------------------------------
(* chunk.rs                                                                *)

\* Where UAX #29 ends a sentence: after a line, and after a terminator with
\* the space behind it, unless what follows carries the sentence on.
CarriesOn(s, i, p) ==
    \/ s[p + 1] \in White \cup Stops \cup {",", "-"}
    \/ /\ s[i] = "."
       /\ \/ p = i /\ s[p + 1] \in Digits
          \/ p = i /\ i > 1 /\ s[i - 1] \in Letters /\ s[p + 1] \in Upper
          \/ LET skipped == Run(From(s, p + 1), Digits \cup {",", "-", "@", " "})
             IN  p + skipped < Len(s) /\ s[p + skipped + 1] \in Lower
SentenceEnds(s) ==
    {p \in 1 .. Len(s) - 1 :
        \/ s[p] = "\n"
        \/ \E i \in In(s, Stops) :
            i <= p /\ (\A k \in i + 1 .. p : s[k] = " ") /\ ~CarriesOn(s, i, p)}

\* unicode_sentences: those of them that hold a letter or a digit.
Sentences(s) == SelectSeq(Cut(s, SentenceEnds(s)), LAMBDA q : Said(q) # <<>>)

PushTrimmed(out, s) == IF Trim(s) = <<>> THEN out ELSE Append(out, Trim(s))

\* A sentence that ends in a protected range goes on with the next.  The
\* position is the length of the sentences so far.
Rejoined(s) ==
    LET ranges == ProtectedRanges(s)
        Add(g, q) ==
            LET all == g.held \o q
                at  == g.at + Len(q)
            IN  IF IsProtected(s, ranges, at)
                THEN [g EXCEPT !.held = all, !.at = at]
                ELSE [out |-> PushTrimmed(g.out, all), held |-> <<>>, at |-> at]
        end == FoldLeft(Add, [out |-> <<>>, held |-> <<>>, at |-> 0], Sentences(s))
    IN  PushTrimmed(end.out, end.held)

\* Parts packed up to the cap, with a gap in between.  A part that is too long
\* by itself is left as it is.
Packed(parts, gap) ==
    LET Add(g, q) ==
            IF g.held = <<>> THEN [g EXCEPT !.held = q]
            ELSE IF Len(g.held) + Len(gap) + Len(q) > MaxChunk
            THEN [out |-> PushTrimmed(g.out, g.held), held |-> q]
            ELSE [g EXCEPT !.held = @ \o gap \o q]
        end == FoldLeft(Add, [out |-> <<>>, held |-> <<>>], parts)
    IN  PushTrimmed(end.out, end.held)

InNumber(s, i) == /\ 1 < i /\ i < Len(s)
                  /\ s[i] = "," /\ s[i - 1] \in Digits /\ s[i + 1] \in Digits
Clauses(s) == Cut(s, {i \in In(s, {","}) : ~InNumber(s, i)})
SplitWords(s) == IF Len(s) <= MaxChunk THEN <<s>> ELSE Packed(Words(s), <<" ">>)
SplitLong(s) ==
    IF Len(s) <= MaxChunk THEN <<s>>
    ELSE LET parts == Packed(Clauses(s), <<>>)
         IN  FlattenSeq(Each(SplitWords, parts))
Chunk(text) == FlattenSeq(Each(SplitLong, Rejoined(Trim(text))))

-----------------------------------------------------------------------------
(* validate.rs: where the problems of a text begin.                        *)

\* The lines, as what comes before each and what it says after its indent.
LineStarts(s) == {0} \cup In(s, {"\n"})
Line(s, p)    == LET rest == From(s, p + 1) IN Upto(rest, Run(rest, Ink \cup {" "}))

LineMarker(t) ==
    LET hashes == Run(t, {"#"})
        digits == Run(t, Digits)
    IN  \/ hashes \in 1 .. 6 /\ Has(t, hashes + 1, {" "})
        \/ Has(t, 1, {">"}) /\ (Len(t) = 1 \/ t[2] = " ")
        \/ Has(t, 1, {"-", "star"}) /\ Has(t, 2, {" "})
        \/ digits \in 1 .. 2 /\ Has(t, digits + 1, {"."}) /\ Has(t, digits + 2, {" "})
IsTableRow(t) == Has(t, 1, {"bar"}) /\ Cardinality(In(t, {"bar"})) >= 3

MarkedLines(s) ==
    {p + Run(Line(s, p), White) : p \in {q \in LineStarts(s) : LineMarker(TrimStart(Line(s, q)))}}
    \cup {p \in LineStarts(s) : IsTableRow(TrimStart(Line(s, p)))}

Find(s, word, from) == {i \in from .. Len(s) - Len(word) + 1 : SubSeq(s, i, i + Len(word) - 1) = word}
Least(set)          == {i \in set : \A j \in set : i <= j}

\* The first of a pair of delimiters, if the second is not far.
FindPaired(s, delim) ==
    {i - 1 : i \in {o \in Least(Find(s, delim, 1)) :
        \E c \in Least(Find(s, delim, o + Len(delim))) : c - o <= MaxSpan}}

\* Delimiters that hug what they enclose, on one line.
FindEmphasis(s, d) ==
    {i - 1 : i \in {o \in In(s, {d}) :
        /\ o = 1 \/ s[o - 1] \in White
        /\ Has(s, o + 1, (Ink \cup {"\n"}) \ {d})
        /\ \E c \in In(s, {d}) : /\ o < c /\ c - o <= MaxSpan /\ s[c - 1] # " "
                                 /\ \A k \in o .. c : s[k] # "\n"}}

FindLink(s) ==
    {i - 1 : i \in {o \in In(s, {"open"}) :
        \E m \in Least(Find(s, <<"to">>, o)) :
            \E c \in Least(Find(s, <<"close">>, m)) : c - o <= MaxSpan}}

DetectMarkdown(s) == Least(
    MarkedLines(s) \cup FindLink(s) \cup FindEmphasis(s, "star")
    \cup UNION {FindPaired(s, delim) : delim \in {<<"tick", "tick", "tick">>, <<"star", "star">>, <<"tick">>}})

DetectUrl(s) ==
    LET schemes == In(s, {"http://"})
        hosts   == {i \in In(s, {"www."}) :
                      (i = 1 \/ ~Spoken(s[i - 1])) /\ Has(s, i + 1, Digits \cup Letters)}
    IN  {i - 1 : i \in Least(IF schemes # {} THEN schemes ELSE hosts)}

\* validate: nothing, or where the problem begins that is reported.
Validate(s) == Least(DetectMarkdown(s) \cup DetectUrl(s))

-----------------------------------------------------------------------------
(* strip.rs                                                                *)

StripLineMarkers(t) ==
    LET hashes == Run(t, {"#"})
        digits == Run(t, Digits)
    IN  IF hashes \in 1 .. 6 THEN TrimStart(From(t, hashes + 1))
        ELSE IF Has(t, 1, {">"}) THEN TrimStart(Tail(t))
        ELSE IF Has(t, 1, {"-", "star"}) /\ Has(t, 2, {" "}) THEN From(t, 3)
        ELSE IF digits > 0 /\ Has(t, digits + 1, {"."}) /\ Has(t, digits + 2, {" "})
        THEN From(t, digits + 3)
        ELSE t

\* The first link gives way to its text, and then the next.
RECURSIVE UnwrapLinks(_)
UnwrapLinks(s) ==
    LET links == {<<o, m, c>> \in (DOMAIN s) \X (DOMAIN s) \X (DOMAIN s) :
                    /\ o \in Least(In(s, {"open"}))
                    /\ m \in Least(Find(s, <<"to">>, o))
                    /\ c \in Least(Find(s, <<"close">>, m))}
    IN  IF links = {} THEN s
        ELSE LET l == CHOOSE l \in links : TRUE
             IN  Upto(s, l[1] - 1) \o SubSeq(s, l[1] + 1, l[2] - 1) \o UnwrapLinks(From(s, l[3] + 1))

ShortenUrl(word) ==
    IF Has(word, 1, {"http://", "www."})
    THEN Upto(Tail(word), Run(Tail(word), Ink \ {"/"}))
    ELSE word

StripWord(word) == SelectSeq(ShortenUrl(word), LAMBDA c : c \notin {"star", "tick"} \cup Emoji)
StripLine(t)    == Each(StripWord, Words(UnwrapLinks(StripLineMarkers(t))))

\* A block of code gives way to a remark on its length.
Remark == <<<<"a">>, <<"a", ",">>, <<"1">>, <<"a", ".">>>>

Strip(s) ==
    LET starts == SetToSortSeq(LineStarts(s), <)
        Add(g, p) ==
            LET t     == TrimStart(Line(s, p))
                fence == Len(t) >= 3 /\ Upto(t, 3) = <<"tick", "tick", "tick">>
            IN  [words |-> g.words \o (IF g.code THEN <<>> ELSE IF fence THEN Remark ELSE StripLine(t)),
                 code  |-> g.code # fence]
        end == FoldLeft(Add, [words |-> <<>>, code |-> FALSE], starts)
    IN  Glue(SelectSeq(end.words, LAMBDA w : w # <<>>))

-----------------------------------------------------------------------------
(* What the command makes of it: refuses a text and suggests another, or   *)
(* says that there is none.                                                *)

Refused(s)   == Validate(s) # {}
Suggested(s) == Refused(s) /\ Strip(s) # <<>> /\ Strip(s) # s

TextsOf(chars, longest) == {Trim(s) : s \in UNION {[1 .. n -> chars] : n \in 0 .. longest}}
Prose  == TextsOf({"a", "B", "Dr", "1", " ", "\n", ".", "!", ",", "@"}, Longest)
Markup == TextsOf({"a", "1", " ", "\n", ".", "#", ">", "star", "tick", "bar", "open", "to", "close", "http://", "www.", "/"}, Longest - 1)
-----------------------------------------------------------------------------
(* What holds of every short text.                                         *)

\* Every letter and digit of a text is said, in order, whichever cuts are made:
\* a segment that is dropped has none.
ASSUME NothingUnsaid == \A s \in Prose : Said(FlattenSeq(Chunk(s))) = Said(s)

\* "Never mid-word": a chunk is too long only if it is a single word.
ASSUME ChunksFit ==
    \A s \in Prose : \A c \in ToSet(Chunk(s)) : Len(c) <= MaxChunk \/ Len(Words(c)) = 1

\* A number is not spoken with a pause inside, unless it is part of a word that
\* the cuts for length leave whole anyway.
ASSUME NumbersWhole ==
    \A s \in Prose :
        LET inside(t) == Cardinality({i \in DOMAIN t : InNumber(t, i)})
        IN  inside(s) = FoldSeq(LAMBDA c, n : n + inside(c), 0, Chunk(s))

\* Who follows the advice comes to an end: a rewrite that is refused again is
\* shorter than what it replaces.
ASSUME AdviceEnds == \A s \in Markup : Suggested(s) /\ Refused(Strip(s)) => Len(Strip(s)) < Len(s)

(* What the code says and does not do, each with a text that shows it.     *)

\* "The rewrite suggested in an error message must itself be acceptable"
\* (tests/text.rs): only one of two prefixes of a URL is taken off.
ASSUME RewriteRefused == LET s == <<"http://", "www.", "a">> IN Suggested(s) /\ Refused(Strip(s))

\* "Error when there is an obvious correction" (validate.rs): a URL in brackets is
\* refused with no rewrite, since it is no prefix of its word.
ASSUME NoRewrite == LET s == <<"open", "http://", "a">> IN Refused(s) /\ ~Suggested(s)

\* "2024. was a good year is a sentence somebody means to have read aloud"
\* (validate.rs): accepted as it is, and with --strip the year goes.
ASSUME YearDropped ==
    LET s == <<"1", "1", "1", ".", " ", "a">> IN ~Refused(s) /\ Said(Strip(s)) # Said(s)

\* "Spans that must never be split" (protect.rs): the positions count the segments
\* that were kept only, so one that was dropped moves what is protected.
ASSUME ProtectionDrifts ==
    Chunk(<<"@", "\n", "Dr", ".", " ", "B">>) = <<<<"Dr", ".">>, <<"B">>>>

\* "Longest chunk this will produce" (chunk.rs): a word may be longer.
ASSUME WordTooLong == \E s \in Prose : \E c \in ToSet(Chunk(s)) : Len(c) > MaxChunk

\* "Returns the first problem in document order" (validate.rs): a www. is looked
\* for after all the schemes.
ASSUME LaterReported ==
    LET s == <<"www.", "a", " ", "http://">> IN Validate(s) = {3} /\ Refused(Upto(s, 2))

=============================================================================
