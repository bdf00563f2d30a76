------------------------------ MODULE IndexText ------------------------------
(***************************************************************************)
(* The text part of the index document built by MailStorage.store in      *)
(* src/node/bin/mailstorage.js: the candidate text (lines 107-117) and its *)
(* tokenisation in the save callback (lines 149-196).  A string is a       *)
(* sequence of UTF-16 code units; the model keeps code units below 256,   *)
(* where toLowerCase and the character-class replacements are exact.     *)
(* The index text is optional: {} when index.text is deleted or never     *)
(* set, {t} when it is t.                                                 *)
(*                                                                         *)
(* The module also holds a reference definition of the tokenisation, by  *)
(* the positions of maximal words, and a one-step specification that      *)
(* builds the index text of one mail, for TLC to compare the two.         *)
(***************************************************************************)
EXTENDS Naturals, Sequences, SequencesExt

CONSTANTS
    Alphabet,       \* the code units mail texts are made of
    MaxLen,         \* the longest plain-text body enumerated
    Htmls           \* the texts jquery(mail.html).text() may return

ASSUME IndexTextAssumption ==
    /\ Alphabet \subseteq 0..255
    /\ MaxLen \in Nat
    /\ Htmls \subseteq Seq(Alphabet)

Space == 32

(* \s of the trim regular expression, below code unit 256. *)
WhiteSpace == {9, 10, 11, 12, 13, 32, 160}

RECURSIVE TrimStart(_)
TrimStart(s) == IF s # <<>> /\ Head(s) \in WhiteSpace THEN TrimStart(Tail(s)) ELSE s

(* sanitize(x).trim(): whitespace removed at both ends. *)
Trim(s) == Reverse(TrimStart(Reverse(TrimStart(s))))

(* Lines 108-117: the sanitised plain text when it is not empty, else the *)
(* text of the HTML part (empty when there is none).                      *)
CandidateText(text, html) == IF Trim(text) # <<>> THEN Trim(text) ELSE html

(* String.prototype.toLowerCase on Latin-1: A-Z and the accented capitals *)
(* other than the multiplication sign.                                    *)
ToLowerUnit(c) == IF c \in 65..90 \/ (c \in 192..222 /\ c # 215) THEN c + 32 ELSE c

(* The replace calls of lines 174-180, in order. *)
ReplaceUnit(c) ==
    CASE c \in 0..31 \cup 33..47 \cup 58..63 -> Space
      [] c \in 232..235 -> 101      \* e
      [] c \in 242..246 -> 111      \* o
      [] OTHER -> c

Normalize(s) == [i \in DOMAIN s |-> ReplaceUnit(ToLowerUnit(s[i]))]

(* index.text.split(' '): empty words included, as JavaScript gives them. *)
RECURSIVE Split(_)
Split(s) ==
    IF \A i \in DOMAIN s : s[i] # Space THEN <<s>>
    ELSE LET k == SelectInSeq(s, LAMBDA c : c = Space)
         IN  <<SubSeq(s, 1, k - 1)>> \o Split(SubSeq(s, k + 1, Len(s)))

(* Mutant: a two-unit word is kept. *)
KeepTokensShort(words) == SelectSeq(words, LAMBDA w : Len(w) >= 2)

(* Lines 182-187: the words longer than two code units, in order. *)
KeepTokens(words) == SelectSeq(words, LAMBDA w : Len(w) > 2)

(* keep.join(" "). *)
Join(words) ==
    IF words = <<>> THEN <<>>
    ELSE FoldLeft(LAMBDA acc, w : acc \o <<Space>> \o w, Head(words), Tail(words))

(* Lines 153-156 and 170-196: index.text is set when the trimmed text is  *)
(* not empty, then rebuilt from its long words and deleted when that is   *)
(* empty or shorter than five code units.                                 *)
IndexTextOf(text, html) ==
    LET t   == Trim(CandidateText(text, html))
        out == Join(KeepTokens(Split(Normalize(t))))
    IN  IF t = <<>> \/ Len(out) < 5 THEN {} ELSE {out}

-----------------------------------------------------------------------------
(* Reference definition (spec 4.3, steps 4-8): the words of a normalised  *)
(* string are its maximal runs of non-separators, given by their first    *)
(* and last positions; the text is the long words in order, one space     *)
(* between two, and none when shorter than five units.                    *)
Words(s, Sep) ==
    {p \in (DOMAIN s) \X (DOMAIN s) :
        /\ p[1] <= p[2]
        /\ \A k \in p[1]..p[2] : s[k] \notin Sep
        /\ p[1] = 1 \/ s[p[1] - 1] \in Sep
        /\ p[2] = Len(s) \/ s[p[2] + 1] \in Sep}

RefText(s, Sep) ==
    LET long  == SetToSortSeq({p \in Words(s, Sep) : p[2] - p[1] >= 2},
                              LAMBDA a, b : a[1] < b[1])
        n     == Len(long)
        parts == [i \in 1..(2 * n - 1) |->
                    IF i % 2 = 1 THEN SubSeq(s, long[(i + 1) \div 2][1], long[(i + 1) \div 2][2])
                    ELSE <<Space>>]
        out   == IF n = 0 THEN <<>> ELSE FlattenSeq(parts)
    IN  IF Len(out) < 5 THEN {} ELSE {out}

-----------------------------------------------------------------------------
VARIABLES text, html, doc, built

itVars == <<text, html, doc, built>>

ITInit ==
    /\ text \in BoundedSeq(Alphabet, MaxLen)
    /\ html \in Htmls
    /\ doc = {}
    /\ built = FALSE

(* The save callback computes the index text of the mail. *)
Tokenize ==
    /\ ~built
    /\ built' = TRUE
    /\ doc' = IndexTextOf(text, html)
    /\ UNCHANGED <<text, html>>

ITSpec == ITInit /\ [][Tokenize]_itVars

(* The index text the code builds is the one the spec's steps define:      *)
(* split, the length filter, the join and the five-unit floor together    *)
(* keep exactly the long words of the normalised text, in order, with one *)
(* space between two, whatever runs of separators the text holds.         *)
MatchesReference ==
    built =>
        doc = RefText(Normalize(Trim(CandidateText(text, html))), {Space})
=============================================================================
