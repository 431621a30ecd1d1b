------------------------------- MODULE Author -------------------------------
(***************************************************************************)
(* What it is to write a .gdextest.toml that means something: how values   *)
(* are spelt, and how the lines of a file go through the assignments its   *)
(* author meant.  docs/configuration.md describes the form; the model is   *)
(* what load_toml (tools/gdextest_config.py) must be able to read.         *)
(*                                                                         *)
(* document.outline tells of each line how far the file is after it: which *)
(* assignment, how many pieces of its value, and the section.              *)
(***************************************************************************)
EXTENDS Config

-----------------------------------------------------------------------------
(* Values.                                                                  *)

EscapedToken(token) == IF token \in {Quote, Escape} THEN <<Escape, token>> ELSE <<token>>
EscapeStep == [token \in Tokens |-> [before \in Seq(Tokens) |-> before \o EscapedToken(token)]]
Escaped(text) == Run(EscapeStep, <<>>, text)[Len(text)]
Literal(text) == <<Quote>> \o Escaped(text) \o <<Quote>>

\* Listed(texts)[k]: the first k strings of an array.
Separated(texts) ==
    [k \in DOMAIN texts |-> Literal(texts[k]) \o IF k < Len(texts) THEN <<Comma>> ELSE <<>>]
ListStep == [item \in Seq(Tokens) |-> [before \in Seq(Tokens) |-> before \o item]]
Listed(texts) == Run(ListStep, <<>>, Separated(texts))

\* An array may be broken between its pieces: the brackets and the strings.
Pieces(a) == IF a.kind = "array" THEN Len(a.value) + 2 ELSE 1
Spelling(a, upto) ==
    CASE a.kind = "text" -> Literal(a.value)
      [] a.kind = "number" -> <<a.word>>
      [] a.kind = "array" ->
            IF upto < Pieces(a) THEN <<Open>> \o Listed(a.value)[upto - 1]
            ELSE <<Open>> \o Listed(a.value)[Len(a.value)] \o <<Close>>

\* A list where a list is expected, a text where a text is; in the place of a number,
\* anything but a text that spells one.  A setting is no section.
Fits(a) ==
    \A field \in DOMAIN Places : \A k \in DOMAIN Places[field] : \A root \in {<<>>, Text("gdextest")} :
        /\ ~IsStrictPrefix(root \o Places[field][k], a.path)
        /\ a.path = root \o Places[field][k] =>
            CASE field \in Integral -> a.kind = "text" => AsRead(a.value) \notin DOMAIN Numbers
              [] field \in Lists -> a.kind = "array"
              [] OTHER -> a.kind = "text"
Meaningful(a) ==
    /\ a.path \in Seq(Words) \ {<<>>} /\ Fits(a)
    /\ \/ a.kind = "text" /\ a.value \in Seq(Tokens)
       \/ a.kind = "array" /\ a.value \in Seq(Seq(Tokens))
       \/ /\ a.kind = "number" /\ a.word \in Words
          /\ Text(a.word) \in DOMAIN Numbers /\ a.value = Numbers[Text(a.word)]

\* The closing delimiters of a value, and where in the value number k is.
Closings(a) ==
    CASE a.kind = "text" -> {1} [] a.kind = "number" -> {} [] a.kind = "array" -> 1..Len(a.value) + 1
ClosesString(a, k) == a.kind = "text" \/ k <= Len(a.value)
Place(a, k) ==
    IF a.kind = "array" /\ k <= Len(a.value)
    THEN Len(<<Open>> \o Listed(a.value)[k - 1] \o Literal(a.value[k]))
    ELSE Len(Spelling(a, Pieces(a)))
Without(spelt, place) == IF place <= Len(spelt) THEN RemoveAt(spelt, place) ELSE spelt

\* A value as it stands in the file, a missing delimiter left out.
Spelt(d, of, upto) ==
    LET a == d.means[of] IN
    IF of = d.torn THEN Without(Spelling(a, upto), Place(a, d.lacks)) ELSE Spelling(a, upto)

-----------------------------------------------------------------------------
(* Lines.                                                                   *)

Beginning == [of |-> 0, upto |-> 0, section |-> <<>>]
After(d, n) == IF n = 0 THEN Beginning ELSE d.outline[n]
Complete(d, at) == at.of # 0 => at.upto = Pieces(d.means[at.of])

\* The code of a line ends with it or before a comment.
IsCode(code, line) == IsPrefix(code, line) /\ (code # line => line[Len(code) + 1] = Hash)
Comment(code, line) == SubSeq(line, Len(code) + 1, Len(line))
\* Beside a string that is not closed a comment brings no quote of its own: it would
\* close it.
IsCodeOf(d, of, code, line) ==
    /\ IsCode(code, line)
    /\ of = d.torn /\ ClosesString(d.means[of], d.lacks) =>
           {Quote, Escape} \cap Range(Comment(code, line)) = {}

BlankLine(d, before, after, line) == after = before /\ IsCode(<<>>, line)

\* The header of the assignment that follows.
HeaderLine(d, before, after, line) ==
    /\ Complete(d, before) /\ before.of < Len(d.means)
    /\ after = [before EXCEPT !.section = Front(d.means[before.of + 1].path)]
    /\ after.section # <<>>
    /\ IsCode(<<Open>> \o after.section \o <<Close>>, line)

FirstLine(d, before, after, line) ==
    LET a == d.means[after.of] IN
    /\ Complete(d, before) /\ after.of = before.of + 1
    /\ after.section = before.section /\ after.section = Front(a.path)
    /\ after.upto \in 1..Pieces(a)
    /\ IsCodeOf(d, after.of, <<Last(a.path), Equals>> \o Spelt(d, after.of, after.upto), line)

FurtherLine(d, before, after, line) ==
    LET spelt == Spelt(d, after.of, after.upto) IN
    /\ ~Complete(d, before)
    /\ after.of = before.of /\ after.section = before.section
    /\ after.upto \in before.upto + 1..Pieces(d.means[after.of])
    /\ IsCodeOf(d, after.of, SubSeq(spelt, Len(Spelt(d, before.of, before.upto)) + 1, Len(spelt)), line)

Outlines(d) == Seq([of : 0..Len(d.means), upto : Nat, section : Seq(Words)])
Written(d) ==
    /\ d.means \in Seq(Range(d.means)) /\ \A i \in DOMAIN d.means : Meaningful(d.means[i])
    /\ d.outline \in Outlines(d) /\ Len(d.outline) = Len(d.text)
    /\ \A n \in DOMAIN d.text :
        \/ BlankLine(d, After(d, n - 1), After(d, n), d.text[n])
        \/ HeaderLine(d, After(d, n - 1), After(d, n), d.text[n])
        \/ FirstLine(d, After(d, n - 1), After(d, n), d.text[n])
        \/ FurtherLine(d, After(d, n - 1), After(d, n), d.text[n])
    /\ LET end == After(d, Len(d.text)) IN Complete(d, end) /\ end.of = Len(d.means)

Damaged(d) ==
    /\ d.torn \in DOMAIN d.means /\ d.lacks \in Closings(d.means[d.torn])
    /\ d.damaged \in DOMAIN d.text
    /\ \A n \in 0..Len(d.text) : After(d, n).of < d.torn <=> n < d.damaged

\* A document was written to mean what it means, but for at most one delimiter.
ASSUME WrittenAssumption ==
    \A d \in Documents :
        /\ Written(d)
        /\ d.damaged = 0 => d.torn = 0
        /\ d.damaged # 0 => Damaged(d)
=============================================================================
