--------------------------------- MODULE Toml --------------------------------
(***************************************************************************)
(* load_toml (tools/gdextest_config.py): the reader of the small TOML      *)
(* dialect of .gdextest.toml, one action per kind of line.                 *)
(*                                                                         *)
(* A line is a sequence of tokens: the five delimiters below stand for     *)
(* their character, any other token for a run of harmless ones.  Blanks    *)
(* are left out, and so are the dots between the names of a section.       *)
(***************************************************************************)
EXTENDS Integers, FiniteSets, FiniteSetsExt, SequencesExt

CONSTANTS
    Words,      \* tokens that are not delimiters
    Mojibake,   \* word -> what is left of it when its bytes are taken for Latin-1: itself
                \* if it is ASCII
    Escapes,    \* word -> what a backslash and the word stand for: \n, \t, \x41 and the
                \* like at its beginning; where it begins no escape the two stay
    BadEscapes, \* words whose beginning is an escape cut short, as \x without digits
    Documents   \* files to read: their text, a sequence of lines, and whatever
                \* their author meant by it

Quote == "quote"
Escape == "backslash"
Hash == "hash"
Open == "open"
Close == "close"
Comma == "comma"
Equals == "equals"
Delimiters == {Quote, Escape, Hash, Open, Close, Comma, Equals}
Tokens == Words \cup Delimiters
ASSUME WordsAssumption == Words \cap Delimiters = {}
ASSUME EncodingAssumption ==
    Mojibake \in [Words -> Words] /\ Escapes \in [Words -> Seq(Tokens)] /\ BadEscapes \subseteq Words

VARIABLES
    document, \* the file
    index,    \* lines consumed
    section,  \* the path of the section the reader is in
    sections, \* the sections there are, empty ones included
    pending,  \* the assignment whose value may go on in the next line
    table,    \* path -> value, read so far
    outcome   \* how the reading goes, and the line an error names

reader == <<document, index, section, sections, pending, table, outcome>>
lines == document.text

-----------------------------------------------------------------------------
(* The scanners.                                                            *)

\* The states a scanner goes through: it takes a step for each token of s.
Run(step, start, s) ==
    LET after[i \in 0..Len(s)] == IF i = 0 THEN start ELSE step[s[i]][after[i - 1]]
    IN after

ScanStates == [in_string : BOOLEAN, escaped : BOOLEAN]
ScanStep == [token \in Tokens |-> [before \in ScanStates |->
    IF before.in_string
    THEN [in_string |-> before.escaped \/ token # Quote,
          escaped |-> ~before.escaped /\ token = Escape]
    ELSE [in_string |-> token = Quote, escaped |-> FALSE]]]
NoString == [in_string |-> FALSE, escaped |-> FALSE]
Scan(s) == Run(ScanStep, NoString, s)

Outside(s, token) == {i \in DOMAIN s : s[i] = token /\ ~Scan(s)[i - 1].in_string}

UpTo(s, marks) == IF marks = {} THEN s ELSE SubSeq(s, 1, Min(marks) - 1)
StripAtAnyHash(line) == UpTo(line, {i \in DOMAIN line : line[i] = Hash})
StripComment(line) == UpTo(line, Outside(line, Hash))

UnbalancedBrackets(s) == Cardinality(Outside(s, Open)) - Cardinality(Outside(s, Close))
UnterminatedString(s) == Scan(s)[Len(s)].in_string
ArrayIncomplete(s) == UnterminatedString(s) \/ UnbalancedBrackets(s) > 0

StartsWith(s, token) == s # <<>> /\ Head(s) = token
EndsWith(s, token) == s # <<>> /\ Last(s) = token
Inner(s) == SubSeq(s, 2, Len(s) - 1)

-----------------------------------------------------------------------------
(* Values.                                                                  *)

Malformed == [kind |-> "malformed"]

\* bytes(s, "utf-8").decode("unicode_escape"): the bytes are taken for Latin-1.
AsLatin1(token) == IF token \in Words THEN Mojibake[token] ELSE token
Unescaped(token) ==
    CASE token \in {Quote, Escape} -> <<token>>
      [] token \in Words -> Escapes[token]
      [] OTHER -> <<Escape, token>>
DecodeStates == [escape : BOOLEAN, broken : BOOLEAN, text : Seq(Tokens)]
DecodeStep == [token \in Tokens |-> [before \in DecodeStates |->
    IF before.escape
    THEN [escape |-> FALSE, broken |-> before.broken \/ token \in BadEscapes,
          text |-> before.text \o Unescaped(token)]
    ELSE [escape |-> token = Escape, broken |-> before.broken,
          text |-> IF token = Escape THEN before.text ELSE Append(before.text, AsLatin1(token))]]]
Decode(s) ==
    LET end == Run(DecodeStep, [escape |-> FALSE, broken |-> FALSE, text |-> <<>>], s)[Len(s)]
    IN IF end.escape \/ end.broken THEN Malformed ELSE [kind |-> "string", text |-> end.text]

\* re.split at every comma, without the empty items.
SplitStates == [items : Seq(Seq(Tokens)), item : Seq(Tokens)]
Cut(split) == IF split.item = <<>> THEN split.items ELSE Append(split.items, split.item)
SplitStep == [token \in Tokens |-> [before \in SplitStates |->
    IF token = Comma THEN [items |-> Cut(before), item |-> <<>>]
    ELSE [before EXCEPT !.item = Append(@, token)]]]
SplitItems(s) == Cut(Run(SplitStep, [items |-> <<>>, item |-> <<>>], s)[Len(s)])

ParseScalar(value) ==
    CASE ~StartsWith(value, Quote) -> [kind |-> "bare", text |-> value]
      [] OTHER -> IF Len(value) < 2 \/ ~EndsWith(value, Quote) THEN Malformed
                  ELSE Decode(Inner(value))
ParseValue[value \in Seq(Tokens)] ==
    IF ~StartsWith(value, Open) THEN ParseScalar(value)
    ELSE LET items == SplitItems(Inner(value))
             parsed == [k \in DOMAIN items |-> ParseValue[items[k]]]
         IN IF ~EndsWith(value, Close) \/ Malformed \in Range(parsed)
            THEN Malformed ELSE [kind |-> "array", items |-> parsed]

-----------------------------------------------------------------------------
(* The reader.                                                              *)

Nothing == [line |-> 0, key |-> <<>>, value |-> <<>>]
Line == StripComment(lines[index + 1])
Reading == outcome.status = "reading"
AtALine == Reading /\ pending = Nothing /\ index < Len(lines)
Fail(status, line) == outcome' = [status |-> status, line |-> line]

ReadInit ==
    /\ document \in Documents
    /\ index = 0 /\ section = <<>> /\ sections = {} /\ pending = Nothing /\ table = <<>>
    /\ outcome = [status |-> "reading", line |-> 0]

IsHeader(line) == StartsWith(line, Open) /\ EndsWith(line, Close)

\* A blank line, or one without "=".
SkipLine ==
    /\ AtALine
    /\ ~IsHeader(Line) /\ ~Contains(Line, Equals)
    /\ index' = index + 1
    /\ UNCHANGED <<document, section, sections, pending, table, outcome>>

\* A scalar in the place of a section has no setdefault; nothing catches that.
EnterSection ==
    /\ AtALine
    /\ IsHeader(Line)
    /\ index' = index + 1
    /\ section' = Inner(Line)
    /\ sections' = sections \cup {section'}
    /\ IF \E p \in DOMAIN table : IsStrictPrefix(p, section')
       THEN Fail("crash", index + 1) ELSE outcome' = outcome
    /\ UNCHANGED <<document, pending, table>>

FirstEquals(line) == Min({i \in DOMAIN line : line[i] = Equals})
BeginAssignmentLate ==
    /\ AtALine
    /\ ~IsHeader(Line) /\ Contains(Line, Equals)
    /\ LET eq == FirstEquals(Line) IN
       pending' = [line |-> index + 2, key |-> IF eq = 1 THEN <<"">> ELSE SubSeq(Line, 1, eq - 1),
                   value |-> SubSeq(Line, eq + 1, Len(Line))]
    /\ index' = index + 1
    /\ UNCHANGED <<document, section, sections, table, outcome>>
BeginAssignment ==
    /\ AtALine
    /\ ~IsHeader(Line) /\ Contains(Line, Equals)
    /\ LET eq == FirstEquals(Line) IN
       pending' = [line |-> index + 1, key |-> IF eq = 1 THEN <<"">> ELSE SubSeq(Line, 1, eq - 1),
                   value |-> SubSeq(Line, eq + 1, Len(Line))]
    /\ index' = index + 1
    /\ UNCHANGED <<document, section, sections, table, outcome>>

Continues == StartsWith(pending.value, Open) /\ ArrayIncomplete(pending.value)

JoinLine ==
    /\ Reading /\ pending # Nothing /\ Continues /\ index < Len(lines)
    /\ pending' = [pending EXCEPT !.value = @ \o Line]
    /\ index' = index + 1
    /\ UNCHANGED <<document, section, sections, table, outcome>>

RaiseUnterminated ==
    /\ Reading /\ pending # Nothing /\ Continues /\ index = Len(lines)
    /\ Fail("error", pending.line)
    /\ UNCHANGED <<document, index, section, sections, pending, table>>

\* section[key] = value: it replaces what was there, a subsection included.
Assigned(path, value) ==
    LET kept == {p \in DOMAIN table : ~IsPrefix(path, p)}
    IN [p \in kept \cup {path} |-> IF p = path THEN value ELSE table[p]]

StoreSilently ==
    /\ Reading /\ pending # Nothing /\ ~Continues
    /\ table' = Assigned(section \o pending.key, ParseValue[pending.value])
    /\ pending' = Nothing
    /\ UNCHANGED <<document, index, section, sections, outcome>>

Store ==
    /\ Reading /\ pending # Nothing /\ ~Continues
    /\ LET value == ParseValue[pending.value]
           line == pending.line IN
       \/ value = Malformed /\ Fail("error", line) /\ UNCHANGED <<table, pending, sections>>
       \/ /\ value # Malformed /\ \E p \in DOMAIN table : IsPrefix(p, section)
          /\ Fail("crash", line) /\ UNCHANGED <<table, pending, sections>>
       \/ /\ value # Malformed /\ \A p \in DOMAIN table : ~IsPrefix(p, section)
          /\ table' = Assigned(section \o pending.key, value)
          /\ sections' = {p \in sections : ~IsPrefix(section \o pending.key, p)}
          /\ pending' = Nothing /\ outcome' = outcome
    /\ UNCHANGED <<document, index, section>>

Finish ==
    /\ Reading /\ pending = Nothing /\ index = Len(lines)
    /\ outcome' = [status |-> "read", line |-> 0]
    /\ UNCHANGED <<document, index, section, sections, pending, table>>

Read ==
    \/ SkipLine \/ EnterSection \/ BeginAssignment \/ JoinLine
    \/ RaiseUnterminated \/ Store \/ Finish
=============================================================================
