--------------------------- MODULE SpellingProofs ---------------------------
(***************************************************************************)
(* What load_toml (tools/gdextest_config.py) makes of a value that is      *)
(* spelt as Author says and of the lines that spell it, whatever strings,  *)
(* comments and line breaks are in them.                                   *)
(***************************************************************************)
EXTENDS Author, FiniteSetTheorems, TLAPS

Ops == INSTANCE OperatorProofs

-----------------------------------------------------------------------------
(* Runs of a scanner.                                                       *)

\* Both parts of a text are found in it.
LEMMA ConcatParts ==
    ASSUME NEW s \in Seq(Tokens), NEW u \in Seq(Tokens)
    PROVE  /\ s \o u \in Seq(Tokens)
           /\ Len(s \o u) = Len(s) + Len(u)
           /\ \A i \in 1..Len(s) : (s \o u)[i] = s[i]
           /\ \A i \in 1..Len(u) : (s \o u)[Len(s) + i] = u[i]
  OBVIOUS

\* Texts may be joined in any order.
LEMMA ConcatAssociates ==
    ASSUME NEW s \in Seq(Tokens), NEW t \in Seq(Tokens), NEW u \in Seq(Tokens)
    PROVE  (s \o t) \o u = s \o (t \o u)
  OBVIOUS

\* f is a run as far as token k.
RunStep(f, step, start, s, k) ==
    f = [i \in 0..k |-> IF i = 0 THEN start ELSE step[s[i]][f[i - 1]]]

\* A run exists, goes by its steps, and stays in every set that they stay in.
LEMMA RunDefined ==
    ASSUME NEW s, Len(s) \in Nat, NEW S, NEW start \in S, NEW step,
           \A i \in 1..Len(s) : \A x \in S : step[s[i]][x] \in S
    PROVE  /\ Run(step, start, s) \in [0..Len(s) -> S]
           /\ Run(step, start, s)[0] = start
           /\ \A i \in 1..Len(s) :
                Run(step, start, s)[i] = step[s[i]][Run(step, start, s)[i - 1]]
  <1> DEFINE n == Len(s)
             G == {k \in Nat : \E f \in [0..k -> S] : RunStep(f, step, start, s, k)}
             F == CHOOSE f : RunStep(f, step, start, s, n)
  <1>0. n \in Nat
    OBVIOUS
  <1>1. 0 \in G
    <2> DEFINE f == [i \in 0..0 |-> start]
    <2>1. f \in [0..0 -> S]
      OBVIOUS
    <2>2. f = [i \in 0..0 |-> IF i = 0 THEN start ELSE step[s[i]][f[i - 1]]]
      OBVIOUS
    <2> QED
      BY <2>1, <2>2 DEF RunStep
  <1>2. \A k \in 0..n - 1 : k \in G => k + 1 \in G
    <2> SUFFICES ASSUME NEW k \in 0..n - 1, k \in G PROVE k + 1 \in G
      OBVIOUS
    <2>1. PICK f \in [0..k -> S] : f = [i \in 0..k |-> IF i = 0 THEN start ELSE step[s[i]][f[i - 1]]]
      BY DEF RunStep
    <2> DEFINE v == step[s[k + 1]][f[k]]
               g == [i \in 0..k + 1 |-> IF i = k + 1 THEN v ELSE f[i]]
    <2>2. v \in S
      <3>1. k + 1 \in 1..Len(s) /\ f[k] \in S
        OBVIOUS
      <3> QED
        BY <3>1
    <2>3. \A i \in 0..k : f[i] = IF i = 0 THEN start ELSE step[s[i]][f[i - 1]]
      BY <2>1
    <2>4. v = step[s[k + 1]][f[k]]
      OBVIOUS
    <2> HIDE DEF v
    <2>5. g \in [0..k + 1 -> S]
      BY <2>2
    <2>6. g[k + 1] = v /\ \A i \in 0..k : g[i] = f[i]
      OBVIOUS
    <2> HIDE DEF g
    <2>7. ASSUME NEW i \in 0..k + 1
          PROVE  g[i] = IF i = 0 THEN start ELSE step[s[i]][g[i - 1]]
      <3>1. CASE i = k + 1
        <4>1. i # 0 /\ i - 1 = k /\ g[i] = v /\ g[k] = f[k]
          BY <3>1, <2>6
        <4> QED
          BY <4>1, <2>4, <3>1
      <3>2. CASE i \in 0..k
        <4>1. g[i] = f[i] /\ (i # 0 => g[i - 1] = f[i - 1])
          BY <3>2, <2>6
        <4> QED
          BY <4>1, <2>3, <3>2
      <3> QED
        BY <3>1, <3>2
    <2>8. g = [i \in 0..k + 1 |-> IF i = 0 THEN start ELSE step[s[i]][g[i - 1]]]
      BY <2>5, <2>7
    <2>9. RunStep(g, step, start, s, k + 1)
      BY <2>8 DEF RunStep
    <2> QED
      BY <2>5, <2>9
  <1>3. n \in G
    <2> HIDE DEF G, n
    <2>1. \A k \in 0..n : k \in G
      BY <1>0, <1>1, <1>2, Ops!UpTo
    <2> QED
      BY <2>1, <1>0
  <1> HIDE DEF n
  <1>4. RunStep(F, step, start, s, n)
    BY <1>3
  <1>5. Run(step, start, s) = F
    BY Zenon DEF Run, RunStep, n
  <1> HIDE DEF F
  <1>6. /\ DOMAIN F = 0..n
        /\ \A i \in 0..n : F[i] = IF i = 0 THEN start ELSE step[s[i]][F[i - 1]]
        /\ F = [i \in 0..n |-> F[i]]
    BY <1>4 DEF RunStep
  <1>7. F[0] = start /\ \A i \in 1..n : F[i] = step[s[i]][F[i - 1]]
    BY <1>6, <1>0
  <1>8. \A k \in 0..n : F[k] \in S
    <2> DEFINE H == {k \in Nat : F[k] \in S}
    <2>1. 0 \in H
      BY <1>7
    <2>2. \A k \in 0..n - 1 : k \in H => k + 1 \in H
      <3> SUFFICES ASSUME NEW k \in 0..n - 1, F[k] \in S PROVE F[k + 1] \in S
        OBVIOUS
      <3>1. k + 1 \in 1..n /\ (k + 1) - 1 = k
        BY <1>0
      <3>2. F[k + 1] = step[s[k + 1]][F[k]]
        BY <3>1, <1>7
      <3> QED
        BY <3>1, <3>2 DEF n
    <2> HIDE DEF H
    <2>3. \A k \in 0..n : k \in H
      BY <1>0, <2>1, <2>2, Ops!UpTo
    <2> QED
      BY <2>3 DEF H
  <1>9. F \in [0..n -> S]
    BY <1>6, <1>8
  <1> QED
    BY <1>5, <1>7, <1>9 DEF n

\* A run over nothing stays where it is.
LEMMA RunOfNothing ==
    ASSUME NEW S, NEW start \in S, NEW step
    PROVE  Run(step, start, <<>>)[0] = start
  <1> DEFINE none == <<>>
  <1>1. none \in Seq({}) /\ \A i \in 1..Len(none) : \A x \in S : step[none[i]][x] \in S
    OBVIOUS
  <1> HIDE DEF none
  <1>2. /\ Run(step, start, none) \in [0..Len(none) -> S]
        /\ Run(step, start, none)[0] = start
        /\ \A i \in 1..Len(none) :
             Run(step, start, none)[i] = step[none[i]][Run(step, start, none)[i - 1]]
    BY <1>1, RunDefined
  <1> QED
    BY <1>2 DEF none

\* A run over two sequences, one after the other, goes on where the first ended.
LEMMA RunOn ==
    ASSUME NEW T, NEW S, NEW start \in S, NEW step \in [T -> [S -> S]],
           NEW s \in Seq(T), NEW u \in Seq(T)
    PROVE  LET first == Run(step, start, s)
               second == Run(step, first[Len(s)], u)
               both == Run(step, start, s \o u)
           IN /\ \A i \in 0..Len(s) : both[i] = first[i]
              /\ \A i \in 0..Len(u) : both[Len(s) + i] = second[i]
  <1> DEFINE first == Run(step, start, s)
             second == Run(step, first[Len(s)], u)
             w == s \o u
             both == Run(step, start, w)
             m == Len(s)
             n == Len(u)
  <1>0. m \in Nat /\ n \in Nat /\ w \in Seq(T) /\ Len(w) = m + n
        /\ (\A i \in 1..m : w[i] = s[i]) /\ \A i \in 1..n : w[m + i] = u[i]
    OBVIOUS
  <1>1. /\ first \in [0..m -> S] /\ first[0] = start
        /\ \A i \in 1..m : first[i] = step[s[i]][first[i - 1]]
    BY RunDefined, SMTT(40)
  <1>2. first[m] \in S
    BY <1>1, <1>0
  <1> HIDE DEF first
  <1>3. /\ second[0] = first[m]
        /\ \A i \in 1..n : second[i] = step[u[i]][second[i - 1]]
    BY <1>2, RunDefined
  <1> HIDE DEF w
  <1>4. /\ both[0] = start
        /\ \A i \in 1..m + n : both[i] = step[w[i]][both[i - 1]]
    <2>1. \A i \in 1..Len(w) : \A x \in S : step[w[i]][x] \in S
      BY <1>0
    <2>2. /\ both \in [0..Len(w) -> S]
          /\ both[0] = start
          /\ \A i \in 1..Len(w) : both[i] = step[w[i]][both[i - 1]]
      <3>1. Len(w) \in Nat
        BY <1>0
      <3> QED
        BY <3>1, <2>1, RunDefined, Z3
    <2> QED
      BY <1>0, <2>2
  <1> HIDE DEF second, both, m, n
  <1>5. \A i \in 0..m : both[i] = first[i]
    <2> DEFINE H == {k \in Nat : both[k] = first[k]}
    <2>1. 0 \in H
      BY <1>1, <1>4
    <2>2. ASSUME NEW k \in 0..m - 1, k \in H PROVE k + 1 \in H
      <3>1. k + 1 \in 1..m /\ k + 1 \in 1..m + n /\ (k + 1) - 1 = k
        BY <1>0
      <3>2. first[k + 1] = step[s[k + 1]][first[k]] /\ both[k + 1] = step[w[k + 1]][both[k]]
        BY <3>1, <1>1, <1>4
      <3> QED
        BY <3>1, <3>2, <1>0, <2>2
    <2> HIDE DEF H
    <2>3. \A k \in 0..m : k \in H
      BY <1>0, <2>1, <2>2, Ops!UpTo
    <2> QED
      BY <2>3 DEF H
  <1>6. \A i \in 0..n : both[m + i] = second[i]
    <2> DEFINE H == {k \in Nat : both[m + k] = second[k]}
    <2>1. 0 \in H
      BY <1>0, <1>3, <1>5
    <2>2. ASSUME NEW k \in 0..n - 1, k \in H PROVE k + 1 \in H
      <3>1. k + 1 \in 1..n /\ m + (k + 1) \in 1..m + n /\ (k + 1) - 1 = k
            /\ (m + (k + 1)) - 1 = m + k
        BY <1>0
      <3>2. /\ second[k + 1] = step[u[k + 1]][second[k]]
            /\ both[m + (k + 1)] = step[w[m + (k + 1)]][both[m + k]]
        BY <3>1, <1>3, <1>4
      <3> QED
        BY <3>1, <3>2, <1>0, <2>2
    <2> HIDE DEF H
    <2>3. \A k \in 0..n : k \in H
      BY <1>0, <2>1, <2>2, Ops!UpTo
    <2> QED
      BY <2>3 DEF H
  <1> QED
    BY <1>5, <1>6 DEF first, second, both, w, m, n

-----------------------------------------------------------------------------
(* Strings.                                                                 *)

InString == [in_string |-> TRUE, escaped |-> FALSE]

\* No delimiter is another, or a word.
LEMMA TokensAreDistinct ==
    /\ Delimiters \subseteq Tokens /\ Words \subseteq Tokens
    /\ Quote # Escape /\ Quote # Hash /\ Quote # Open /\ Quote # Close /\ Quote # Comma
    /\ Quote # Equals /\ Escape # Comma /\ Hash # Open /\ Hash # Close /\ Hash # Comma
    /\ Hash # Equals /\ Open # Close /\ Open # Comma /\ Open # Equals /\ Close # Comma
    /\ Close # Equals
    /\ \A w \in Words : w \notin Delimiters
  BY WordsAssumption DEF Delimiters, Tokens, Quote, Escape, Hash, Open, Close, Comma, Equals

\* A token is decoded to tokens, alone and behind a backslash.
LEMMA TokensAreDecoded ==
    ASSUME NEW token \in Tokens
    PROVE  /\ AsLatin1(token) \in Tokens /\ Unescaped(token) \in Seq(Tokens)
           /\ token \in Delimiters => AsLatin1(token) = token /\ token \notin BadEscapes
           /\ token \in {Quote, Escape} => Unescaped(token) = <<token>>
  <1>1. Delimiters \subseteq Tokens /\ Words \subseteq Tokens /\ \A w \in Words : w \notin Delimiters
    BY TokensAreDistinct
  <1>2. AsLatin1(token) \in Tokens
    BY <1>1, EncodingAssumption DEF AsLatin1
  <1>3. Unescaped(token) \in Seq(Tokens)
    <2>1. <<token>> \in Seq(Tokens) /\ <<Escape, token>> \in Seq(Tokens)
      BY <1>1 DEF Delimiters
    <2>2. token \in Words => Escapes[token] \in Seq(Tokens)
      BY EncodingAssumption
    <2>3. /\ token \in {Quote, Escape} => Unescaped(token) = <<token>>
          /\ token \notin {Quote, Escape} /\ token \in Words => Unescaped(token) = Escapes[token]
          /\ token \notin {Quote, Escape} /\ token \notin Words => Unescaped(token) = <<Escape, token>>
      BY <1>1, Zenon DEF Unescaped, Delimiters
    <2> QED
      BY <2>1, <2>2, <2>3, Zenon
  <1>4. token \in Delimiters => AsLatin1(token) = token /\ token \notin BadEscapes
    BY <1>1, EncodingAssumption DEF AsLatin1
  <1>5. token \in {Quote, Escape} => Unescaped(token) = <<token>>
    BY <1>1, Zenon DEF Unescaped, Delimiters
  <1> QED
    BY <1>2, <1>3, <1>4, <1>5

\* Read back, a text is one token longer for each token.
LEMMA AsReadGrows ==
    /\ AsRead(<<>>) = <<>>
    /\ \A p \in Seq(Tokens) : \A token \in Tokens :
          AsRead(p) \in Seq(Tokens) /\ AsRead(Append(p, token)) = Append(AsRead(p), AsLatin1(token))
  <1>1. AsRead(<<>>) = <<>>
    BY DEF AsRead
  <1>2. ASSUME NEW p \in Seq(Tokens)
        PROVE  AsRead(p) \in Seq(Tokens) /\ Len(AsRead(p)) = Len(p)
               /\ \A i \in 1..Len(p) : AsRead(p)[i] = AsLatin1(p[i])
    <2>1. DOMAIN p = 1..Len(p) /\ Len(p) \in Nat /\ \A i \in 1..Len(p) : p[i] \in Tokens
      OBVIOUS
    <2>2. \A i \in 1..Len(p) : AsLatin1(p[i]) \in Tokens
      BY <2>1, TokensAreDecoded
    <2>3. AsRead(p) = [i \in 1..Len(p) |-> AsLatin1(p[i])]
      BY <2>1 DEF AsRead
    <2> QED
      BY <2>1, <2>2, <2>3
  <1>3. ASSUME NEW p \in Seq(Tokens), NEW token \in Tokens
        PROVE  AsRead(Append(p, token)) = Append(AsRead(p), AsLatin1(token))
    <2> DEFINE q == Append(p, token)
               r == Append(AsRead(p), AsLatin1(token))
    <2>1. q \in Seq(Tokens) /\ Len(q) = Len(p) + 1 /\ q[Len(p) + 1] = token
          /\ \A i \in 1..Len(p) : q[i] = p[i]
      OBVIOUS
    <2>2. AsLatin1(token) \in Tokens
      BY TokensAreDecoded
    <2>3. AsRead(p) \in Seq(Tokens) /\ Len(AsRead(p)) = Len(p)
          /\ \A i \in 1..Len(p) : AsRead(p)[i] = AsLatin1(p[i])
      BY <1>2
    <2>4. r \in Seq(Tokens) /\ Len(r) = Len(p) + 1 /\ r[Len(p) + 1] = AsLatin1(token)
          /\ \A i \in 1..Len(p) : r[i] = AsLatin1(p[i])
      BY <2>2, <2>3
    <2> HIDE DEF q, r
    <2>5. AsRead(q) \in Seq(Tokens) /\ Len(AsRead(q)) = Len(p) + 1
          /\ \A i \in 1..Len(p) + 1 : AsRead(q)[i] = AsLatin1(q[i])
      BY <1>2, <2>1
    <2>6. \A i \in 1..Len(p) + 1 : AsRead(q)[i] = r[i]
      <3>1. \A i \in 1..Len(p) + 1 : i \in 1..Len(p) \/ i = Len(p) + 1
        OBVIOUS
      <3> QED
        BY <2>1, <2>4, <2>5, <3>1
    <2>7. AsRead(q) = r
      BY <2>4, <2>5, <2>6
    <2> QED
      BY <2>7 DEF q, r
  <1> QED
    BY <1>1, <1>2, <1>3

\* The scanners step within their states.
LEMMA StepsAreTyped ==
    /\ ScanStep \in [Tokens -> [ScanStates -> ScanStates]]
    /\ NoString \in ScanStates /\ InString \in ScanStates
    /\ DecodeStep \in [Tokens -> [DecodeStates -> DecodeStates]]
    /\ EscapeStep \in [Tokens -> [Seq(Tokens) -> Seq(Tokens)]]
    /\ SplitStep \in [Tokens -> [SplitStates -> SplitStates]]
    /\ ListStep \in [Seq(Tokens) -> [Seq(Tokens) -> Seq(Tokens)]]
  <1>1. ScanStep \in [Tokens -> [ScanStates -> ScanStates]]
    BY DEF ScanStep, ScanStates
  <1>2. NoString \in ScanStates /\ InString \in ScanStates
    BY DEF NoString, InString, ScanStates
  <1>3. DecodeStep \in [Tokens -> [DecodeStates -> DecodeStates]]
    <2>1. ASSUME NEW token \in Tokens, NEW before \in DecodeStates
          PROVE  DecodeStep[token][before] \in DecodeStates
      <3>1. before.text \in Seq(Tokens) /\ before.broken \in BOOLEAN /\ before.escape \in BOOLEAN
        BY DEF DecodeStates
      <3>2. /\ before.text \o Unescaped(token) \in Seq(Tokens)
            /\ Append(before.text, AsLatin1(token)) \in Seq(Tokens)
        BY <3>1, TokensAreDecoded
      <3>3. (before.broken \/ token \in BadEscapes) \in BOOLEAN /\ (token = Escape) \in BOOLEAN
        BY <3>1
      <3>4. DecodeStep[token][before] =
              IF before.escape
              THEN [escape |-> FALSE, broken |-> before.broken \/ token \in BadEscapes,
                    text |-> before.text \o Unescaped(token)]
              ELSE [escape |-> token = Escape, broken |-> before.broken,
                    text |-> IF token = Escape THEN before.text
                             ELSE Append(before.text, AsLatin1(token))]
        BY DEF DecodeStep
      <3> QED
        BY <3>1, <3>2, <3>3, <3>4 DEF DecodeStates
    <2> QED
      BY <2>1 DEF DecodeStep
  <1>4. EscapeStep \in [Tokens -> [Seq(Tokens) -> Seq(Tokens)]]
    <2>1. ASSUME NEW token \in Tokens, NEW before \in Seq(Tokens)
          PROVE  before \o EscapedToken(token) \in Seq(Tokens)
      <3>1. EscapedToken(token) \in Seq(Tokens)
        BY TokensAreDistinct DEF EscapedToken, Delimiters
      <3> QED
        BY <3>1
    <2> QED
      BY <2>1 DEF EscapeStep
  <1>5. SplitStep \in [Tokens -> [SplitStates -> SplitStates]]
    <2>1. ASSUME NEW token \in Tokens, NEW before \in SplitStates
          PROVE  SplitStep[token][before] \in SplitStates
      <3>1. before.items \in Seq(Seq(Tokens)) /\ before.item \in Seq(Tokens)
        BY DEF SplitStates
      <3>2. Cut(before) \in Seq(Seq(Tokens)) /\ Append(before.item, token) \in Seq(Tokens)
            /\ <<>> \in Seq(Tokens)
        BY <3>1 DEF Cut
      <3> QED
        BY <3>1, <3>2 DEF SplitStep, SplitStates
    <2> QED
      BY <2>1 DEF SplitStep
  <1>6. ListStep \in [Seq(Tokens) -> [Seq(Tokens) -> Seq(Tokens)]]
    BY DEF ListStep
  <1> QED
    BY <1>1, <1>2, <1>3, <1>4, <1>5, <1>6

\* Scanning from anywhere.
LEMMA ScanFrom ==
    ASSUME NEW start \in ScanStates, NEW s \in Seq(Tokens)
    PROVE  /\ Run(ScanStep, start, s) \in [0..Len(s) -> ScanStates]
           /\ Run(ScanStep, start, s)[0] = start
           /\ \A i \in 1..Len(s) :
                Run(ScanStep, start, s)[i] = ScanStep[s[i]][Run(ScanStep, start, s)[i - 1]]
  <1>1. \A i \in 1..Len(s) : \A x \in ScanStates : ScanStep[s[i]][x] \in ScanStates
    BY StepsAreTyped
  <1> QED
    BY <1>1, RunDefined, Z3

\* Scanning on, from wherever a scan ended.
LEMMA ScanOn ==
    ASSUME NEW start \in ScanStates, NEW s \in Seq(Tokens), NEW u \in Seq(Tokens)
    PROVE  LET first == Run(ScanStep, start, s)
               second == Run(ScanStep, first[Len(s)], u)
               both == Run(ScanStep, start, s \o u)
           IN /\ first \in [0..Len(s) -> ScanStates] /\ first[0] = start
              /\ \A i \in 0..Len(s) : both[i] = first[i]
              /\ \A i \in 0..Len(u) : both[Len(s) + i] = second[i]
  <1>1. /\ Run(ScanStep, start, s) \in [0..Len(s) -> ScanStates]
        /\ Run(ScanStep, start, s)[0] = start
    BY ScanFrom
  <1>2. ScanStep \in [Tokens -> [ScanStates -> ScanStates]]
    BY StepsAreTyped
  <1>3. LET first == Run(ScanStep, start, s)
            second == Run(ScanStep, first[Len(s)], u)
            both == Run(ScanStep, start, s \o u)
        IN /\ \A i \in 0..Len(s) : both[i] = first[i]
           /\ \A i \in 0..Len(u) : both[Len(s) + i] = second[i]
    BY <1>2, RunOn, Z3
  <1> QED
    BY <1>1, <1>3

\* What is escaped after j tokens, and what is escaped after that.
Escaping(text) == Run(EscapeStep, <<>>, text)
\* Escaping(text)[j] is what the first j tokens become.
LEMMA EscapingStep ==
    ASSUME NEW text \in Seq(Tokens)
    PROVE  /\ Escaping(text) \in [0..Len(text) -> Seq(Tokens)]
           /\ Escaping(text)[0] = <<>>
           /\ \A j \in 1..Len(text) :
                 Escaping(text)[j] = Escaping(text)[j - 1] \o EscapedToken(text[j])
           /\ Escaped(text) = Escaping(text)[Len(text)]
  <1>1. \A i \in 1..Len(text) : text[i] \in Tokens
    OBVIOUS
  <1>2. \A i \in 1..Len(text) : \A x \in Seq(Tokens) : EscapeStep[text[i]][x] \in Seq(Tokens)
    BY <1>1, StepsAreTyped
  <1>3. <<>> \in Seq(Tokens)
    OBVIOUS
  <1>4. /\ Escaping(text) \in [0..Len(text) -> Seq(Tokens)]
        /\ Escaping(text)[0] = <<>>
        /\ \A j \in 1..Len(text) :
              Escaping(text)[j] = EscapeStep[text[j]][Escaping(text)[j - 1]]
    <2> DEFINE none == <<>>
               States == Seq(Tokens)
               run == Run(EscapeStep, none, text)
    <2>1. none \in States /\ \A i \in 1..Len(text) : \A x \in States : EscapeStep[text[i]][x] \in States
      BY <1>2, <1>3
    <2> HIDE DEF none, States
    <2>2. /\ run \in [0..Len(text) -> States]
          /\ run[0] = none
          /\ \A j \in 1..Len(text) : run[j] = EscapeStep[text[j]][run[j - 1]]
      BY <2>1, RunDefined
    <2> QED
      BY <2>2 DEF Escaping, none, States
  <1>5. \A token \in Tokens : \A x \in Seq(Tokens) :
          EscapeStep[token][x] = x \o EscapedToken(token)
    BY DEF EscapeStep
  <1>6. ASSUME NEW j \in 1..Len(text)
        PROVE  Escaping(text)[j] = Escaping(text)[j - 1] \o EscapedToken(text[j])
    <2>1. j - 1 \in 0..Len(text)
      OBVIOUS
    <2>2. Escaping(text)[j - 1] \in Seq(Tokens)
      BY <1>4, <2>1
    <2> QED
      BY <2>2, <1>1, <1>4, <1>5
  <1> QED
    BY <1>4, <1>6 DEF Escaped, Escaping

\* Inside a string, an escaped text neither ends it nor leaves a dangling escape.
StaysInside(e) ==
    LET scan == Run(ScanStep, InString, e) IN
    scan[Len(e)] = InString /\ \A i \in 0..Len(e) : scan[i].in_string

\* What a token of a string is spelt as does not end the string.
LEMMA EscapedTokenStaysInside ==
    ASSUME NEW token \in Tokens
    PROVE  EscapedToken(token) \in Seq(Tokens) /\ StaysInside(EscapedToken(token))
  <1> DEFINE e == EscapedToken(token)
             scan == Run(ScanStep, InString, e)
  <1>1. e \in Seq(Tokens) /\ \A i \in 1..Len(e) : e[i] \in Tokens
    BY TokensAreDistinct DEF EscapedToken, Delimiters
  <1> HIDE DEF e
  <1>3. /\ scan \in [0..Len(e) -> ScanStates]
        /\ scan[0] = InString
        /\ \A i \in 1..Len(e) : scan[i] = ScanStep[e[i]][scan[i - 1]]
    BY <1>1, StepsAreTyped, ScanFrom
  <1> HIDE DEF scan
  <1> DEFINE Escaped1 == [in_string |-> TRUE, escaped |-> TRUE]
  <1>4. CASE token \in {Quote, Escape}
    <2>1. e = <<Escape, token>> /\ Len(e) = 2 /\ e[1] = Escape /\ e[2] = token
      BY <1>4 DEF e, EscapedToken
    <2>2. scan[1] = ScanStep[Escape][InString] /\ scan[2] = ScanStep[token][scan[1]]
      BY <2>1, <1>3
    <2>3. ScanStep[Escape][InString] = Escaped1 /\ ScanStep[token][Escaped1] = InString
      BY TokensAreDistinct DEF ScanStep, InString, ScanStates, Delimiters
    <2> QED
      BY <2>1, <2>2, <2>3, <1>1, <1>3 DEF StaysInside, scan, e, InString
  <1>5. CASE token \notin {Quote, Escape}
    <2>1. e = <<token>> /\ Len(e) = 1 /\ e[1] = token
      BY <1>5 DEF e, EscapedToken
    <2>2. scan[1] = ScanStep[token][InString]
      BY <2>1, <1>3
    <2>3. ScanStep[token][InString] = InString
      BY <1>5 DEF ScanStep, InString, ScanStates
    <2> QED
      BY <2>1, <2>2, <2>3, <1>1, <1>3 DEF StaysInside, scan, e, InString
  <1> QED
    BY <1>4, <1>5

\* Nor does the spelling of any beginning of its text.
LEMMA EscapedStaysInside ==
    ASSUME NEW text \in Seq(Tokens), NEW j \in 0..Len(text)
    PROVE  StaysInside(Escaping(text)[j])
  <1> DEFINE n == Len(text)
             E == Escaping(text)
             H == {k \in Nat : StaysInside(E[k])}
  <1>0. n \in Nat /\ \A i \in 1..n : text[i] \in Tokens
    OBVIOUS
  <1>1. 0 \in H
    <2> DEFINE scan == Run(ScanStep, InString, <<>>)
    <2>1. scan[0] = InString
      BY RunOfNothing, StepsAreTyped
    <2>2. InString.in_string
      BY DEF InString
    <2> HIDE DEF scan
    <2>3. scan[Len(<<>>)] = InString /\ \A i \in 0..Len(<<>>) : scan[i].in_string
      BY <2>1, <2>2
    <2>4. StaysInside(<<>>)
      BY <2>3 DEF StaysInside, scan
    <2> QED
      BY <2>4, EscapingStep
  <1>2. ASSUME NEW k \in 0..n - 1, k \in H PROVE k + 1 \in H
    <2> DEFINE x == EscapedToken(text[k + 1])
               first == Run(ScanStep, InString, E[k])
               second == Run(ScanStep, first[Len(E[k])], x)
               both == Run(ScanStep, InString, E[k] \o x)
    <2>1. k + 1 \in 1..n /\ (k + 1) - 1 = k /\ k \in 0..n
      BY <1>0
    <2>2. E[k + 1] = E[k] \o x /\ E[k] \in Seq(Tokens)
      BY <2>1, EscapingStep
    <2>3. x \in Seq(Tokens) /\ StaysInside(x)
      BY <2>1, <1>0, EscapedTokenStaysInside
    <2>4. first[Len(E[k])] = InString /\ \A i \in 0..Len(E[k]) : first[i].in_string
      BY <1>2 DEF StaysInside
    <2>5. second[Len(x)] = InString /\ \A i \in 0..Len(x) : second[i].in_string
      BY <2>3, <2>4 DEF StaysInside
    <2> HIDE DEF x, E
    <2>6. /\ \A i \in 0..Len(E[k]) : both[i] = first[i]
          /\ \A i \in 0..Len(x) : both[Len(E[k]) + i] = second[i]
      <3> DEFINE e == E[k]
      <3>1. e \in Seq(Tokens) /\ x \in Seq(Tokens) /\ InString \in ScanStates
        BY <2>2, <2>3, StepsAreTyped
      <3> HIDE DEF e
      <3>2. LET p == Run(ScanStep, InString, e)
                q == Run(ScanStep, p[Len(e)], x)
                r == Run(ScanStep, InString, e \o x)
            IN /\ p \in [0..Len(e) -> ScanStates] /\ p[0] = InString
               /\ \A i \in 0..Len(e) : r[i] = p[i]
               /\ \A i \in 0..Len(x) : r[Len(e) + i] = q[i]
        BY <3>1, ScanOn, Z3
      <3> QED
        BY <3>2 DEF e
    <2>7. Len(E[k]) \in Nat /\ Len(x) \in Nat /\ Len(E[k] \o x) = Len(E[k]) + Len(x)
      BY <2>2, <2>3
    <2> HIDE DEF first, second, both
    <2>8. both[Len(E[k] \o x)] = InString
      BY <2>5, <2>6, <2>7
    <2>9. ASSUME NEW i \in 0..Len(E[k] \o x) PROVE both[i].in_string
      <3>1. CASE i \in 0..Len(E[k])
        BY <3>1, <2>4, <2>6
      <3>2. CASE i \notin 0..Len(E[k])
        <4>1. i - Len(E[k]) \in 0..Len(x) /\ Len(E[k]) + (i - Len(E[k])) = i
          BY <3>2, <2>7
        <4> QED
          BY <4>1, <2>5, <2>6
      <3> QED
        BY <3>1, <3>2
    <2>10. StaysInside(E[k] \o x)
      BY <2>8, <2>9 DEF StaysInside, both
    <2>11. StaysInside(E[k + 1])
      BY <2>2, <2>10, Zenon
    <2> QED
      BY <2>11
  <1> HIDE DEF H
  <1>3. \A k \in 0..n : k \in H
    BY <1>0, <1>1, <1>2, Ops!UpTo
  <1> QED
    BY <1>3 DEF H

-----------------------------------------------------------------------------
(* What a scan sees outside strings.                                        *)

\* A scan starts outside strings and takes a step for each token.
LEMMA ScanSteps ==
    ASSUME NEW s \in Seq(Tokens)
    PROVE  /\ Scan(s) \in [0..Len(s) -> ScanStates]
           /\ Scan(s)[0] = NoString
           /\ \A i \in 1..Len(s) : Scan(s)[i] = ScanStep[s[i]][Scan(s)[i - 1]]
  BY StepsAreTyped, ScanFrom DEF Scan

\* Behind a text that ends outside strings, a scan starts again.
LEMMA ScanAgain ==
    ASSUME NEW s \in Seq(Tokens), NEW u \in Seq(Tokens), Scan(s)[Len(s)] = NoString
    PROVE  /\ \A i \in 0..Len(s) : Scan(s \o u)[i] = Scan(s)[i]
           /\ \A i \in 0..Len(u) : Scan(s \o u)[Len(s) + i] = Scan(u)[i]
  <1> DEFINE start == NoString
  <1>1. start \in ScanStates
    BY StepsAreTyped
  <1> HIDE DEF start
  <1>2. LET first == Run(ScanStep, start, s)
            second == Run(ScanStep, first[Len(s)], u)
            both == Run(ScanStep, start, s \o u)
        IN /\ first \in [0..Len(s) -> ScanStates] /\ first[0] = start
           /\ \A i \in 0..Len(s) : both[i] = first[i]
           /\ \A i \in 0..Len(u) : both[Len(s) + i] = second[i]
    BY <1>1, ScanOn, Z3
  <1>3. Run(ScanStep, start, s)[Len(s)] = start
    BY DEF Scan, start
  <1> QED
    BY <1>2, <1>3 DEF Scan, start

\* s ends outside strings, and what marks it has are inside.
Hides(s, marks) ==
    /\ Scan(s)[Len(s)] = NoString
    /\ \A i \in 1..Len(s) : s[i] \in marks => Scan(s)[i - 1].in_string

\* What follows a text that hides its marks decides for both.
LEMMA HidesBoth ==
    ASSUME NEW marks, NEW s \in Seq(Tokens), NEW u \in Seq(Tokens), Hides(s, marks)
    PROVE  Hides(u, marks) <=> Hides(s \o u, marks)
  <1> DEFINE w == s \o u
             m == Len(s)
             n == Len(u)
  <1>1. m \in Nat /\ n \in Nat /\ Len(w) = m + n
        /\ (\A i \in 1..m : w[i] = s[i]) /\ \A i \in 1..n : w[m + i] = u[i]
    OBVIOUS
  <1>2. /\ \A i \in 0..m : Scan(w)[i] = Scan(s)[i]
        /\ \A i \in 0..n : Scan(w)[m + i] = Scan(u)[i]
    BY ScanAgain DEF Hides
  <1>3. Scan(w)[Len(w)] = Scan(u)[n]
    BY <1>1, <1>2
  <1> HIDE DEF w
  <1>4. ASSUME Hides(u, marks), NEW i \in 1..Len(w), w[i] \in marks
        PROVE  Scan(w)[i - 1].in_string
    <2>1. CASE i \in 1..m
      <3>1. Scan(s)[i - 1].in_string /\ i - 1 \in 0..m
        BY <2>1, <1>1, <1>4 DEF Hides
      <3> QED
        BY <3>1, <1>2
    <2>2. CASE i \notin 1..m
      <3>1. i - m \in 1..n /\ m + (i - m) = i /\ (i - m) - 1 \in 0..n /\ m + ((i - m) - 1) = i - 1
        BY <2>2, <1>1
      <3>2. u[i - m] \in marks
        BY <3>1, <1>1, <1>4
      <3>3. Scan(u)[(i - m) - 1].in_string
        BY <3>1, <3>2, <1>4 DEF Hides
      <3>4. Scan(w)[i - 1] = Scan(u)[(i - m) - 1]
        BY <3>1, <1>2
      <3> QED
        BY <3>3, <3>4
    <2> QED
      BY <2>1, <2>2
  <1>5. ASSUME Hides(w, marks), NEW i \in 1..n, u[i] \in marks
        PROVE  Scan(u)[i - 1].in_string
    <2>1. m + i \in 1..Len(w) /\ i - 1 \in 0..n /\ m + (i - 1) = (m + i) - 1
      BY <1>1
    <2>2. Scan(w)[(m + i) - 1].in_string
      BY <2>1, <1>1, <1>5 DEF Hides
    <2>3. Scan(w)[m + (i - 1)] = Scan(u)[i - 1]
      BY <2>1, <1>2
    <2> QED
      BY <2>1, <2>2, <2>3
  <1> QED
    BY <1>3, <1>4, <1>5 DEF Hides, w

\* Where there is no quote, there is no string.
LEMMA PlainHides ==
    ASSUME NEW marks, NEW s \in Seq(Tokens),
           \A i \in 1..Len(s) : s[i] # Quote /\ s[i] \notin marks
    PROVE  Hides(s, marks)
  <1>1. \A i \in 1..Len(s) : s[i] \in Tokens
    OBVIOUS
  <1>2. \A token \in Tokens : token # Quote => ScanStep[token][NoString] = NoString
    BY StepsAreTyped DEF ScanStep, NoString
  <1> DEFINE H == {k \in Nat : Scan(s)[k] = NoString}
             n == Len(s)
  <1>3. 0 \in H /\ n \in Nat
    BY ScanSteps
  <1>4. ASSUME NEW k \in 0..n - 1, k \in H PROVE k + 1 \in H
    <2>1. k + 1 \in 1..n /\ (k + 1) - 1 = k
      BY <1>3
    <2>2. Scan(s)[k + 1] = ScanStep[s[k + 1]][Scan(s)[k]]
      BY <2>1, ScanSteps
    <2> QED
      BY <2>1, <2>2, <1>1, <1>2, <1>4
  <1> HIDE DEF H
  <1>5. \A k \in 0..n : k \in H
    BY <1>3, <1>4, Ops!UpTo
  <1>6. Scan(s)[n] = NoString
    BY <1>3, <1>5 DEF H
  <1> QED
    BY <1>6 DEF Hides

\* A literal is one string, with everything but its own quotes inside.
LEMMA LiteralHides ==
    ASSUME NEW text \in Seq(Tokens)
    PROVE  /\ Literal(text) \in Seq(Tokens) /\ Escaped(text) \in Seq(Tokens)
           /\ Len(Literal(text)) = Len(Escaped(text)) + 2
           /\ Literal(text)[1] = Quote /\ Literal(text)[Len(Literal(text))] = Quote
           /\ \A i \in 1..Len(Escaped(text)) : Literal(text)[i + 1] = Escaped(text)[i]
           /\ Hides(Literal(text), Tokens \ {Quote})
  <1> DEFINE e == Escaped(text)
             a == <<Quote>>
             b == a \o e
             L == b \o a
             n == Len(e)
             inside == Run(ScanStep, InString, e)
  <1>1. e \in Seq(Tokens) /\ StaysInside(e)
    <2>1. Len(text) \in 0..Len(text)
      OBVIOUS
    <2> QED
      BY <2>1, EscapingStep, EscapedStaysInside
  <1>2. a \in Seq(Tokens) /\ Len(a) = 1 /\ a[1] = Quote /\ Quote \in Tokens
    BY TokensAreDistinct DEF Delimiters
  <1> HIDE DEF e, a
  <1>3. n \in Nat /\ b \in Seq(Tokens) /\ Len(b) = n + 1 /\ b[1] = Quote
        /\ \A i \in 1..n : b[i + 1] = e[i]
    <2>1. /\ b \in Seq(Tokens) /\ Len(b) = Len(a) + n
          /\ \A i \in 1..Len(a) : b[i] = a[i]
          /\ \A i \in 1..n : b[Len(a) + i] = e[i]
      BY <1>1, <1>2, ConcatParts
    <2> QED
      BY <2>1, <1>1, <1>2
  <1> HIDE DEF b, n
  <1>4. L \in Seq(Tokens) /\ Len(L) = n + 2 /\ L[n + 2] = Quote
        /\ \A i \in 1..n + 1 : L[i] = b[i]
    <2>1. /\ L \in Seq(Tokens) /\ Len(L) = Len(b) + Len(a)
          /\ \A i \in 1..Len(b) : L[i] = b[i]
          /\ \A i \in 1..Len(a) : L[Len(b) + i] = a[i]
      BY <1>2, <1>3, ConcatParts
    <2> HIDE DEF L
    <2>2. Len(b) + 1 = n + 2 /\ 1 \in 1..Len(a) /\ Len(L) = n + 2
      BY <2>1, <1>2, <1>3
    <2>3. L[n + 2] = Quote
      BY <2>1, <2>2, <1>2
    <2> QED
      BY <2>1, <2>2, <2>3, <1>3
  <1>5. L[1] = Quote /\ \A i \in 1..n : L[i + 1] = e[i]
    BY <1>3, <1>4
  <1>6. Literal(text) = L
    BY DEF Literal, L, b, a, e
  <1> HIDE DEF L
  <1>7. /\ Scan(L) \in [0..n + 2 -> ScanStates]
        /\ Scan(L)[0] = NoString
        /\ \A i \in 1..n + 2 : Scan(L)[i] = ScanStep[L[i]][Scan(L)[i - 1]]
    BY <1>4, ScanSteps
  <1>8. /\ inside[0] = InString
        /\ \A i \in 1..n : inside[i] = ScanStep[e[i]][inside[i - 1]]
    BY <1>1, StepsAreTyped, ScanFrom DEF n
  <1>9. ScanStep[Quote][NoString] = InString /\ ScanStep[Quote][InString] = NoString
    BY <1>2, StepsAreTyped, TokensAreDistinct DEF ScanStep, NoString, InString
  <1>10. \A i \in 0..n : Scan(L)[i + 1] = inside[i]
    <2> DEFINE H == {k \in Nat : Scan(L)[k + 1] = inside[k]}
    <2>1. 0 \in H
      <3>1. 1 \in 1..n + 2
        BY <1>3
      <3> QED
        BY <3>1, <1>5, <1>7, <1>8, <1>9
    <2> HIDE DEF inside
    <2>2. ASSUME NEW k \in 0..n - 1, k \in H PROVE k + 1 \in H
      <3>1. k + 1 \in 1..n /\ (k + 1) - 1 = k /\ (k + 1) + 1 \in 1..n + 2
            /\ ((k + 1) + 1) - 1 = k + 1
        BY <1>3
      <3>2. inside[k + 1] = ScanStep[e[k + 1]][inside[k]]
        BY <3>1, <1>8
      <3>3. Scan(L)[(k + 1) + 1] = ScanStep[L[(k + 1) + 1]][Scan(L)[k + 1]]
        BY <3>1, <1>7
      <3>4. L[(k + 1) + 1] = e[k + 1]
        BY <3>1, <1>5
      <3> QED
        BY <3>2, <3>3, <3>4, <2>2
    <2> HIDE DEF H
    <2>3. \A k \in 0..n : k \in H
      BY <1>3, <2>1, <2>2, Ops!UpTo
    <2> QED
      BY <2>3 DEF H
  <1>11. inside[n] = InString /\ \A i \in 0..n : inside[i].in_string
    BY <1>1 DEF StaysInside, n
  <1> HIDE DEF inside
  <1>12. Scan(L)[n + 2] = NoString
    <2>1. n + 2 \in 1..n + 2 /\ (n + 2) - 1 = n + 1 /\ n \in 0..n
      BY <1>3
    <2> QED
      BY <2>1, <1>4, <1>7, <1>9, <1>10, <1>11
  <1>13. ASSUME NEW i \in 1..n + 2, L[i] # Quote PROVE Scan(L)[i - 1].in_string
    <2>1. i # 1
      BY <1>5, <1>13
    <2>2. i - 2 \in 0..n /\ (i - 2) + 1 = i - 1
      BY <2>1, <1>3
    <2> QED
      BY <2>2, <1>10, <1>11
  <1>14. Hides(L, Tokens \ {Quote})
    BY <1>4, <1>12, <1>13 DEF Hides
  <1> QED
    BY <1>1, <1>4, <1>5, <1>6, <1>14 DEF n, e

\* A prefix is what agrees with the beginning.
LEMMA PrefixParts ==
    ASSUME NEW T, NEW s \in Seq(T), NEW t \in Seq(T)
    PROVE  IsPrefix(s, t) <=> /\ Len(s) <= Len(t)
                              /\ \A i \in 1..Len(s) : t[i] = s[i]
  <1>1. ASSUME Len(s) <= Len(t)
        PROVE  /\ SubSeq(s, 1, Len(s)) = s
               /\ SubSeq(t, 1, Len(s)) \in Seq(T) /\ Len(SubSeq(t, 1, Len(s))) = Len(s)
               /\ \A i \in 1..Len(s) : SubSeq(t, 1, Len(s))[i] = t[i]
    BY <1>1
  <1>2. ASSUME Len(s) <= Len(t)
        PROVE  SubSeq(t, 1, Len(s)) = s <=> \A i \in 1..Len(s) : t[i] = s[i]
    <2> DEFINE p == SubSeq(t, 1, Len(s))
    <2>1. /\ p \in Seq(T) /\ Len(p) = Len(s)
          /\ \A i \in 1..Len(s) : p[i] = t[i]
      BY <1>1, <1>2
    <2> HIDE DEF p
    <2>2. p = s <=> \A i \in 1..Len(s) : p[i] = s[i]
      BY <2>1
    <2> QED
      BY <2>1, <2>2 DEF p
  <1> QED
    BY <1>1, <1>2 DEF IsPrefix

\* The least element.
LEMMA MinIs ==
    ASSUME NEW T \in SUBSET Nat, NEW m \in T, \A i \in T : m <= i
    PROVE  Min(T) = m
  <1>1. \A x \in T : (\A y \in T : x <= y) => x = m
    <2> SUFFICES ASSUME NEW x \in T, \A y \in T : x <= y PROVE x = m
      OBVIOUS
    <2>1. x <= m /\ m <= x /\ x \in Int /\ m \in Int
      OBVIOUS
    <2> QED
      BY <2>1
  <1> QED
    BY <1>1, Zenon DEF Min

\* A comment goes, and nothing else: hashes in strings stay (_strip_comment).
LEMMA CommentGoes ==
    ASSUME NEW line \in Seq(Tokens), NEW code \in Seq(Tokens),
           IsCode(code, line), Hides(code, {Hash})
    PROVE  StripComment(line) = code
  <1> DEFINE n == Len(code)
  <1>1. n \in Nat /\ n <= Len(line) /\ \A i \in 1..n : line[i] = code[i]
    BY PrefixParts DEF IsCode
  <1>2. ASSUME NEW i \in 1..n, line[i] = Hash, \A k \in 0..n : Scan(line)[k] = Scan(code)[k]
        PROVE  i \notin Outside(line, Hash)
    <2>1. Scan(code)[i - 1].in_string
      BY <1>1, <1>2 DEF Hides
    <2> QED
      BY <2>1, <1>1, <1>2 DEF Outside
  <1>3. CASE code = line
    <2>1. Outside(line, Hash) = {}
      BY <1>2, <1>3 DEF Outside
    <2> QED
      BY <2>1, <1>3 DEF StripComment, UpTo
  <1>4. CASE code # line
    <2> DEFINE rest == SubSeq(line, n + 1, Len(line))
    <2>1. line[n + 1] = Hash
      BY <1>4 DEF IsCode
    <2>2. Len(line) # n
      <3>1. Len(line) = n => line = code
        BY <1>1
      <3> QED
        BY <3>1, <1>4
    <2>3. rest \in Seq(Tokens) /\ line = code \o rest
      BY <1>1
    <2> HIDE DEF rest
    <2>4. \A k \in 0..n : Scan(line)[k] = Scan(code)[k]
      BY <2>3, ScanAgain DEF Hides
    <2>5. Scan(line)[n] = NoString
      BY <2>4, <1>1 DEF Hides
    <2>6. n + 1 \in Outside(line, Hash)
      BY <2>1, <2>2, <2>5, <1>1 DEF Outside, NoString
    <2>7. \A i \in Outside(line, Hash) : n + 1 <= i
      BY <1>1, <1>2, <2>4 DEF Outside
    <2> DEFINE marks == Outside(line, Hash)
    <2>8. marks \subseteq Nat /\ n + 1 \in marks /\ \A i \in marks : n + 1 <= i
      BY <2>6, <2>7, <1>1 DEF Outside
    <2> HIDE DEF marks
    <2>9. Min(marks) = n + 1
      BY <2>8, MinIs
    <2>10. StripComment(line) = SubSeq(line, 1, n)
      BY <2>8, <2>9, <1>1 DEF StripComment, UpTo, marks
    <2> QED
      BY <2>10, <1>1
  <1> QED
    BY <1>3, <1>4

-----------------------------------------------------------------------------
(* Spelt values.                                                            *)

\* Nothing hides everything, and so does a token that is neither quote nor mark.
LEMMA SmallHides ==
    ASSUME NEW marks
    PROVE  /\ Hides(<<>>, marks)
           /\ \A x \in Tokens : x # Quote /\ x \notin marks => Hides(<<x>>, marks)
  <1>1. ASSUME NEW s \in Seq(Tokens), \A i \in 1..Len(s) : s[i] # Quote /\ s[i] \notin marks
        PROVE  Hides(s, marks)
    BY <1>1, PlainHides
  <1>2. ASSUME NEW x \in Tokens, x # Quote, x \notin marks PROVE Hides(<<x>>, marks)
    <2> DEFINE s == <<x>>
    <2>1. s \in Seq(Tokens) /\ \A i \in 1..Len(s) : s[i] # Quote /\ s[i] \notin marks
      BY <1>2
    <2> HIDE DEF s
    <2>2. Hides(s, marks)
      BY <1>1, <2>1
    <2> QED
      BY <2>2 DEF s
  <1>3. Hides(<<>>, marks)
    <2> DEFINE s == <<>>
    <2>1. s \in Seq(Tokens) /\ \A i \in 1..Len(s) : s[i] # Quote /\ s[i] \notin marks
      OBVIOUS
    <2> HIDE DEF s
    <2>2. Hides(s, marks)
      BY <1>1, <2>1
    <2> QED
      BY <2>2 DEF s
  <1> QED
    BY <1>2, <1>3

\* What hides some marks hides fewer.
LEMMA HidesFewer ==
    ASSUME NEW marks, NEW fewer \in SUBSET marks, NEW s \in Seq(Tokens), Hides(s, marks)
    PROVE  Hides(s, fewer)
  BY DEF Hides

\* A string of an array, with the comma behind it, shows nothing but quotes and comma.
LEMMA SeparatedItems ==
    ASSUME NEW texts \in Seq(Seq(Tokens)), NEW k \in 1..Len(texts)
    PROVE  /\ texts[k] \in Seq(Tokens)
           /\ Separated(texts)[k] = Literal(texts[k]) \o IF k < Len(texts) THEN <<Comma>> ELSE <<>>
           /\ Separated(texts)[k] \in Seq(Tokens)
           /\ Hides(Separated(texts)[k], Tokens \ {Quote, Comma})
  <1> DEFINE L == Literal(texts[k])
             end == IF k < Len(texts) THEN <<Comma>> ELSE <<>>
             marks == Tokens \ {Quote, Comma}
  <1>1. texts[k] \in Seq(Tokens)
    OBVIOUS
  <1>2. Separated(texts)[k] = L \o end
    BY DEF Separated
  <1>3. L \in Seq(Tokens) /\ Hides(L, marks)
    BY <1>1, LiteralHides, HidesFewer
  <1>4. Comma \in Tokens /\ Comma # Quote /\ Comma \notin marks
    BY TokensAreDistinct DEF Delimiters
  <1> HIDE DEF marks
  <1>5. end \in Seq(Tokens) /\ Hides(end, marks)
    <2>1. <<Comma>> \in Seq(Tokens) /\ Hides(<<Comma>>, marks)
      <3>1. \A x \in Tokens : x # Quote /\ x \notin marks => Hides(<<x>>, marks)
        BY SmallHides
      <3>2. <<Comma>> \in Seq(Tokens)
        BY <1>4
      <3> QED
        BY <3>1, <3>2, <1>4, Zenon
    <2>2. <<>> \in Seq(Tokens) /\ Hides(<<>>, marks)
      BY SmallHides
    <2> QED
      BY <2>1, <2>2
  <1> HIDE DEF L, end
  <1>6. L \o end \in Seq(Tokens)
    BY <1>3, <1>5
  <1>7. Hides(L \o end, marks)
    BY <1>3, <1>5, HidesBoth
  <1> QED
    BY <1>1, <1>2, <1>6, <1>7 DEF L, end, marks

\* An array is spelt string by string.
LEMMA ListedSteps ==
    ASSUME NEW texts \in Seq(Seq(Tokens))
    PROVE  /\ Listed(texts) \in [0..Len(texts) -> Seq(Tokens)]
           /\ Listed(texts)[0] = <<>>
           /\ \A k \in 1..Len(texts) :
                Listed(texts)[k] = Listed(texts)[k - 1] \o Separated(texts)[k]
  <1> DEFINE items == Separated(texts)
             n == Len(texts)
             none == <<>>
             States == Seq(Tokens)
             run == Run(ListStep, none, items)
  <1>1. n \in Nat /\ Len(items) = n /\ \A k \in 1..n : items[k] \in States
    <2>1. n \in Nat /\ DOMAIN items = 1..n
      BY DEF Separated
    <2>2. \A k \in 1..n : items[k] \in Seq(Tokens)
      BY SeparatedItems
    <2> HIDE DEF items
    <2>3. items \in [1..n -> Seq(Tokens)]
      <3>1. items = [k \in DOMAIN texts |-> items[k]]
        BY DEF items, Separated
      <3> QED
        BY <3>1, <2>1, <2>2
    <2>4. items \in Seq(Seq(Tokens)) /\ Len(items) = n
      BY <2>1, <2>3, SMTT(40)
    <2> QED
      BY <2>1, <2>2, <2>4
  <1>2. none \in States
    OBVIOUS
  <1>3. \A i \in 1..Len(items) : \A x \in States : ListStep[items[i]][x] \in States
    BY <1>1, StepsAreTyped
  <1>4. \A item \in States : \A x \in States : ListStep[item][x] = x \o item
    BY DEF ListStep
  <1> HIDE DEF items, n, none, States
  <1>5. /\ run \in [0..Len(items) -> States]
        /\ run[0] = none
        /\ \A i \in 1..Len(items) : run[i] = ListStep[items[i]][run[i - 1]]
    <2>1. Len(items) \in Nat
      BY <1>1
    <2> QED
      BY <2>1, <1>2, <1>3, RunDefined, Z3
  <1> HIDE DEF run
  <1>6. ASSUME NEW k \in 1..n PROVE run[k] = run[k - 1] \o items[k]
    <2>1. k - 1 \in 0..n /\ k \in 1..Len(items)
      BY <1>1
    <2>2. run[k - 1] \in States /\ items[k] \in States
      BY <2>1, <1>1, <1>5
    <2> QED
      BY <2>1, <2>2, <1>4, <1>5
  <1>7. run = Listed(texts)
    BY DEF run, Listed, items, none
  <1> QED
    BY <1>1, <1>5, <1>6, <1>7 DEF items, n, none, States

\* No delimiter in a string of an array is seen, whatever the strings are.
LEMMA ListedHides ==
    ASSUME NEW texts \in Seq(Seq(Tokens)), NEW k \in 0..Len(texts)
    PROVE  Hides(Listed(texts)[k], Tokens \ {Quote, Comma})
  <1> DEFINE n == Len(texts)
             marks == Tokens \ {Quote, Comma}
             H == {j \in Nat : Hides(Listed(texts)[j], marks)}
  <1>0. n \in Nat
    OBVIOUS
  <1>1. 0 \in H
    BY ListedSteps, SmallHides
  <1>2. ASSUME NEW j \in 0..n - 1, j \in H PROVE j + 1 \in H
    <2> DEFINE before == Listed(texts)[j]
               item == Separated(texts)[j + 1]
    <2>1. j + 1 \in 1..n /\ (j + 1) - 1 = j /\ j \in 0..n
      BY <1>0
    <2>2. Listed(texts)[j + 1] = before \o item /\ before \in Seq(Tokens)
      BY <2>1, ListedSteps
    <2>3. item \in Seq(Tokens) /\ Hides(item, marks)
      BY <2>1, SeparatedItems
    <2>4. Hides(before, marks)
      BY <1>2
    <2> HIDE DEF before, item, marks
    <2>5. Hides(before \o item, marks)
      BY <2>2, <2>3, <2>4, HidesBoth
    <2>6. Hides(Listed(texts)[j + 1], marks)
      BY <2>2, <2>5, Zenon
    <2> QED
      BY <2>6 DEF marks
  <1> HIDE DEF H
  <1>3. \A j \in 0..n : j \in H
    BY <1>0, <1>1, <1>2, Ops!UpTo
  <1> QED
    BY <1>3 DEF H

\* What is outside strings in two texts is so in both together.
LEMMA OutsideBoth ==
    ASSUME NEW token, NEW s \in Seq(Tokens), NEW u \in Seq(Tokens), Scan(s)[Len(s)] = NoString
    PROVE  Outside(s \o u, token) = Outside(s, token) \cup {Len(s) + i : i \in Outside(u, token)}
  <1> DEFINE w == s \o u
             m == Len(s)
             n == Len(u)
  <1>1. m \in Nat /\ n \in Nat /\ Len(w) = m + n
        /\ (\A i \in 1..m : w[i] = s[i]) /\ (\A i \in 1..n : w[m + i] = u[i])
        /\ DOMAIN w = 1..m + n /\ DOMAIN s = 1..m /\ DOMAIN u = 1..n
    OBVIOUS
  <1>2. /\ \A i \in 0..m : Scan(w)[i] = Scan(s)[i]
        /\ \A i \in 0..n : Scan(w)[m + i] = Scan(u)[i]
    BY ScanAgain
  <1> HIDE DEF w, m, n
  <1>3. ASSUME NEW i \in 1..m PROVE i \in Outside(w, token) <=> i \in Outside(s, token)
    <2>1. i - 1 \in 0..m /\ i \in 1..m + n
      BY <1>1
    <2> QED
      BY <2>1, <1>1, <1>2 DEF Outside
  <1>4. ASSUME NEW i \in 1..n PROVE m + i \in Outside(w, token) <=> i \in Outside(u, token)
    <2>1. i - 1 \in 0..n /\ m + i \in 1..m + n /\ (m + i) - 1 = m + (i - 1)
      BY <1>1
    <2>2. Scan(w)[(m + i) - 1] = Scan(u)[i - 1]
      BY <2>1, <1>2
    <2> QED
      BY <2>1, <2>2, <1>1 DEF Outside
  <1>5. ASSUME NEW i \in Outside(w, token)
        PROVE  i \in Outside(s, token) \/ \E j \in Outside(u, token) : i = m + j
    <2>1. i \in 1..m + n
      BY <1>1 DEF Outside
    <2>2. CASE i \in 1..m
      BY <2>2, <1>3
    <2>3. CASE i \notin 1..m
      <3>1. i - m \in 1..n /\ m + (i - m) = i
        BY <2>1, <2>3, <1>1
      <3> QED
        BY <3>1, <1>4
    <2> QED
      BY <2>2, <2>3
  <1>6. Outside(s, token) \subseteq 1..m /\ Outside(u, token) \subseteq 1..n
    BY <1>1 DEF Outside
  <1>7. Outside(w, token) = Outside(s, token) \cup {m + i : i \in Outside(u, token)}
    BY <1>3, <1>4, <1>5, <1>6
  <1> QED
    BY <1>7 DEF w, m

\* What is hidden is nowhere outside strings.
LEMMA OutsideNone ==
    ASSUME NEW token, NEW marks, token \in marks, NEW s \in Seq(Tokens), Hides(s, marks)
    PROVE  Outside(s, token) = {}
  <1>1. DOMAIN s = 1..Len(s)
    OBVIOUS
  <1> QED
    BY <1>1 DEF Hides, Outside

\* A single token is outside strings.
LEMMA OutsideOne ==
    ASSUME NEW token, NEW x \in Tokens
    PROVE  Outside(<<x>>, token) = IF x = token THEN {1} ELSE {}
  <1> DEFINE s == <<x>>
  <1>1. s \in Seq(Tokens) /\ DOMAIN s = {1} /\ s[1] = x
    OBVIOUS
  <1> HIDE DEF s
  <1>2. Scan(s)[1 - 1] = NoString
    BY <1>1, ScanSteps
  <1>3. Outside(s, token) = IF x = token THEN {1} ELSE {}
    BY <1>1, <1>2 DEF Outside, NoString
  <1> QED
    BY <1>3 DEF s

\* An array, as far as its first k items and whole.
LEMMA ArrayScans ==
    ASSUME NEW texts \in Seq(Seq(Tokens)), NEW k \in 0..Len(texts)
    PROVE  LET begun == <<Open>> \o Listed(texts)[k]
               whole == begun \o <<Close>>
           IN /\ begun \in Seq(Tokens) /\ begun # <<>> /\ Head(begun) = Open
              /\ Hides(begun, {Hash}) /\ Outside(begun, Open) = {1} /\ Outside(begun, Close) = {}
              /\ whole \in Seq(Tokens) /\ whole # <<>> /\ Head(whole) = Open
              /\ Hides(whole, {Hash})
              /\ Outside(whole, Open) = {1} /\ Outside(whole, Close) = {Len(whole)}
  <1> DEFINE l == Listed(texts)[k]
             a == <<Open>>
             z == <<Close>>
             begun == a \o l
             whole == begun \o z
             marks == Tokens \ {Quote, Comma}
  <1>1. l \in Seq(Tokens) /\ Hides(l, marks)
    BY ListedSteps, ListedHides
  <1>2. Open \in Tokens /\ Close \in Tokens /\ {Hash, Open, Close} \subseteq marks
        /\ Open # Quote /\ Close # Quote /\ Open # Close /\ Open # Hash /\ Close # Hash
    BY TokensAreDistinct DEF Delimiters
  <1>3. /\ a \in Seq(Tokens) /\ Len(a) = 1 /\ a[1] = Open
        /\ z \in Seq(Tokens) /\ Len(z) = 1 /\ z[1] = Close
    BY <1>2
  <1>4. Hides(a, {Hash}) /\ Hides(z, {Hash}) /\ Scan(a)[1] = NoString
    <2>1. \A x \in Tokens : x # Quote /\ x \notin {Hash} => Hides(<<x>>, {Hash})
      BY SmallHides
    <2>2. Hides(a, {Hash}) /\ Hides(z, {Hash})
      BY <2>1, <1>2, Zenon
    <2> QED
      BY <2>2, <1>3 DEF Hides
  <1>5. /\ Outside(a, Open) = {1} /\ Outside(a, Close) = {}
        /\ Outside(z, Open) = {} /\ Outside(z, Close) = {1}
    BY <1>2, OutsideOne
  <1>6. Outside(l, Open) = {} /\ Outside(l, Close) = {} /\ Hides(l, {Hash})
    BY <1>1, <1>2, OutsideNone, HidesFewer
  <1> HIDE DEF a, l, z, marks
  <1>7. begun \in Seq(Tokens) /\ Len(begun) = 1 + Len(l) /\ begun[1] = Open
    <2>1. /\ begun \in Seq(Tokens) /\ Len(begun) = Len(a) + Len(l)
          /\ \A i \in 1..Len(a) : begun[i] = a[i]
      BY <1>1, <1>3, ConcatParts
    <2> QED
      BY <2>1, <1>3
  <1>8. Hides(begun, {Hash})
    BY <1>1, <1>3, <1>4, <1>6, HidesBoth
  <1>9. Outside(begun, Open) = {1} /\ Outside(begun, Close) = {}
    <2>1. Scan(a)[Len(a)] = NoString
      BY <1>3, <1>4
    <2>2. \A token : Outside(begun, token) =
                       Outside(a, token) \cup {Len(a) + i : i \in Outside(l, token)}
      BY <2>1, <1>1, <1>3, OutsideBoth
    <2>3. /\ Outside(begun, Open) = {1} \cup {Len(a) + i : i \in {}}
          /\ Outside(begun, Close) = {} \cup {Len(a) + i : i \in {}}
      BY <2>2, <1>5, <1>6
    <2> QED
      BY <2>3
  <1> HIDE DEF begun
  <1>10. whole \in Seq(Tokens) /\ Len(whole) = Len(begun) + 1 /\ whole[1] = Open
    <2>1. /\ whole \in Seq(Tokens) /\ Len(whole) = Len(begun) + Len(z)
          /\ \A i \in 1..Len(begun) : whole[i] = begun[i]
      BY <1>3, <1>7, ConcatParts
    <2>2. 1 \in 1..Len(begun)
      BY <1>1, <1>7
    <2> QED
      BY <2>1, <2>2, <1>3, <1>7
  <1>11. Hides(whole, {Hash})
    BY <1>3, <1>4, <1>7, <1>8, HidesBoth
  <1>12. Outside(whole, Open) = {1} /\ Outside(whole, Close) = {Len(whole)}
    <2>1. Scan(begun)[Len(begun)] = NoString
      BY <1>8 DEF Hides
    <2>2. \A token : Outside(whole, token) =
                       Outside(begun, token) \cup {Len(begun) + i : i \in Outside(z, token)}
      BY <2>1, <1>3, <1>7, OutsideBoth
    <2>3. /\ Outside(whole, Open) = {1} \cup {Len(begun) + i : i \in {}}
          /\ Outside(whole, Close) = {} \cup {Len(begun) + i : i \in {1}}
      BY <2>2, <1>5, <1>9
    <2> QED
      BY <2>3, <1>10
  <1> HIDE DEF whole
  <1>13. begun # <<>> /\ Head(begun) = Open /\ whole # <<>> /\ Head(whole) = Open
    BY <1>7, <1>10
  <1> QED
    BY <1>7, <1>8, <1>9, <1>10, <1>11, <1>12, <1>13 DEF whole, begun, a, z, l

\* What a value is, of the three kinds.
LEMMA KindsOfValues ==
    ASSUME NEW a, Meaningful(a)
    PROVE  \/ /\ a.kind = "text" /\ a.value \in Seq(Tokens) /\ Pieces(a) = 1
              /\ \A upto : Spelling(a, upto) = Literal(a.value)
           \/ /\ a.kind = "number" /\ a.word \in Words /\ Pieces(a) = 1
              /\ Text(a.word) \in DOMAIN Numbers /\ a.value = Numbers[Text(a.word)]
              /\ \A upto : Spelling(a, upto) = <<a.word>>
           \/ /\ a.kind = "array" /\ a.value \in Seq(Seq(Tokens)) /\ Pieces(a) = Len(a.value) + 2
              /\ \A upto \in 1..Len(a.value) + 1 :
                    Spelling(a, upto) = <<Open>> \o Listed(a.value)[upto - 1]
              /\ Spelling(a, Pieces(a)) = <<Open>> \o Listed(a.value)[Len(a.value)] \o <<Close>>
  <1>1. CASE a.kind = "text"
    BY <1>1 DEF Meaningful, Pieces, Spelling
  <1>2. CASE a.kind = "number"
    BY <1>2 DEF Meaningful, Pieces, Spelling
  <1>3. CASE a.kind = "array"
    <2>1. a.value \in Seq(Seq(Tokens)) /\ Pieces(a) = Len(a.value) + 2 /\ Len(a.value) \in Nat
      BY <1>3 DEF Meaningful, Pieces
    <2>2. ASSUME NEW upto \in 1..Len(a.value) + 1
          PROVE  Spelling(a, upto) = <<Open>> \o Listed(a.value)[upto - 1]
      <3>1. upto < Pieces(a)
        BY <2>1
      <3> QED
        BY <3>1, <1>3 DEF Spelling
    <2>3. Spelling(a, Pieces(a)) = <<Open>> \o Listed(a.value)[Len(a.value)] \o <<Close>>
      BY <2>1, <1>3, SMTT(40) DEF Spelling
    <2> QED
      BY <1>3, <2>1, <2>2, <2>3
  <1> QED
    BY <1>1, <1>2, <1>3 DEF Meaningful

\* The reader looks for more lines exactly while there are pieces to come.
LEMMA SpellingScans ==
    ASSUME NEW a, Meaningful(a), NEW upto \in 1..Pieces(a)
    PROVE  /\ Spelling(a, upto) \in Seq(Tokens) /\ Spelling(a, upto) # <<>>
           /\ Hides(Spelling(a, upto), {Hash})
           /\ StartsWith(Spelling(a, upto), Open) /\ ArrayIncomplete(Spelling(a, upto))
                <=> upto # Pieces(a)
  <1> DEFINE s == Spelling(a, upto)
  <1>0. Hash \in Tokens /\ Hash # Quote
    BY TokensAreDistinct DEF Delimiters
  <1>1. CASE a.kind = "text"
    <2>1. s = Literal(a.value) /\ a.value \in Seq(Tokens) /\ Pieces(a) = 1 /\ upto = 1
      BY <1>1, KindsOfValues
    <2>2. s \in Seq(Tokens) /\ Len(s) = Len(Escaped(a.value)) + 2 /\ s[1] = Quote
          /\ Escaped(a.value) \in Seq(Tokens) /\ Hides(s, Tokens \ {Quote})
      BY <2>1, LiteralHides
    <2> HIDE DEF s
    <2>3. Hides(s, {Hash})
      BY <2>2, <1>0, HidesFewer
    <2>4. s # <<>> /\ Head(s) = Quote
      BY <2>2
    <2>5. ~StartsWith(s, Open)
      BY <2>4, TokensAreDistinct DEF StartsWith
    <2> QED
      BY <2>1, <2>2, <2>3, <2>4, <2>5 DEF s
  <1>2. CASE a.kind = "number"
    <2>1. s = <<a.word>> /\ a.word \in Words /\ Pieces(a) = 1 /\ upto = 1
      BY <1>2, KindsOfValues
    <2>2. a.word \in Tokens /\ a.word # Quote /\ a.word # Hash /\ a.word # Open
      BY <2>1, TokensAreDistinct DEF Delimiters
    <2>3. Hides(<<a.word>>, {Hash})
      <3>1. \A x \in Tokens : x # Quote /\ x \notin {Hash} => Hides(<<x>>, {Hash})
        BY SmallHides
      <3> QED
        BY <3>1, <2>2, Zenon
    <2>4. <<a.word>> \in Seq(Tokens) /\ <<a.word>> # <<>> /\ Head(<<a.word>>) = a.word
      BY <2>2
    <2> QED
      BY <2>1, <2>2, <2>3, <2>4 DEF StartsWith
  <1>3. CASE a.kind = "array"
    <2> DEFINE n == Len(a.value)
    <2>1. a.value \in Seq(Seq(Tokens)) /\ Pieces(a) = n + 2 /\ n \in Nat
      BY <1>3, KindsOfValues
    <2>2. Cardinality({}) = 0 /\ \A i : Cardinality({i}) = 1
      BY FS_EmptySet, FS_Singleton
    <2>3. CASE upto # Pieces(a)
      <3>1. upto \in 1..n + 1 /\ upto - 1 \in 0..n
        BY <2>1, <2>3
      <3>2. s = <<Open>> \o Listed(a.value)[upto - 1]
        BY <3>1, <1>3, KindsOfValues
      <3>3. /\ s \in Seq(Tokens) /\ s # <<>> /\ Head(s) = Open
            /\ Hides(s, {Hash}) /\ Outside(s, Open) = {1} /\ Outside(s, Close) = {}
        BY <3>1, <3>2, <2>1, ArrayScans
      <3> HIDE DEF s
      <3>4. Cardinality(Outside(s, Open)) = 1 /\ Cardinality(Outside(s, Close)) = 0
        BY <3>3, <2>2, Zenon
      <3>5. StartsWith(s, Open) /\ UnbalancedBrackets(s) = 1
        BY <3>3, <3>4 DEF StartsWith, UnbalancedBrackets
      <3> QED
        BY <3>3, <3>5, <2>3 DEF ArrayIncomplete, s
    <2>4. CASE upto = Pieces(a)
      <3>1. s = <<Open>> \o Listed(a.value)[n] \o <<Close>> /\ n \in 0..n
        <4>1. Spelling(a, Pieces(a)) = <<Open>> \o Listed(a.value)[n] \o <<Close>>
          BY <1>3, KindsOfValues
        <4>2. s = Spelling(a, Pieces(a))
          BY <2>4
        <4>3. n \in 0..n
          BY <2>1
        <4> HIDE DEF s, n
        <4> QED
          BY <4>1, <4>2, <4>3, Zenon DEF n
      <3>2. /\ s \in Seq(Tokens) /\ s # <<>> /\ Head(s) = Open
            /\ Hides(s, {Hash}) /\ Outside(s, Open) = {1} /\ Outside(s, Close) = {Len(s)}
        BY <3>1, <2>1, ArrayScans
      <3> HIDE DEF s
      <3>3. Cardinality(Outside(s, Open)) = 1 /\ Cardinality(Outside(s, Close)) = 1
        BY <3>2, <2>2, Zenon
      <3>4. UnbalancedBrackets(s) = 0
        BY <3>3 DEF UnbalancedBrackets
      <3>5. ~UnterminatedString(s)
        BY <3>2 DEF UnterminatedString, Hides, NoString
      <3> QED
        BY <3>2, <3>4, <3>5, <2>4 DEF ArrayIncomplete, s
    <2> QED
      BY <2>3, <2>4
  <1> QED
    BY <1>1, <1>2, <1>3, KindsOfValues

\* Fewer strings of an array spell a beginning of what more do.
LEMMA ListedGrows ==
    ASSUME NEW texts \in Seq(Seq(Tokens)), NEW j \in 0..Len(texts), NEW k \in j..Len(texts)
    PROVE  \E rest \in Seq(Tokens) : Listed(texts)[k] = Listed(texts)[j] \o rest
  <1> DEFINE n == Len(texts)
             l == Listed(texts)
             H == {i \in Nat : \E rest \in Seq(Tokens) : l[i] = l[j] \o rest}
  <1>0. n \in Nat /\ j \in Nat /\ l[j] \in Seq(Tokens)
    <2>1. l \in [0..n -> Seq(Tokens)]
      BY ListedSteps
    <2>2. n \in Nat
      OBVIOUS
    <2> HIDE DEF l, n
    <2> QED
      BY <2>1, <2>2 DEF n
  <1>1. j \in H
    <2>1. l[j] = l[j] \o <<>> /\ <<>> \in Seq(Tokens)
      BY <1>0
    <2> QED
      BY <2>1, <1>0
  <1>2. ASSUME NEW i \in j..n - 1, i \in H PROVE i + 1 \in H
    <2>1. PICK rest \in Seq(Tokens) : l[i] = l[j] \o rest
      BY <1>2
    <2>2. i + 1 \in 1..n /\ (i + 1) - 1 = i /\ i + 1 \in Nat
      BY <1>0
    <2>3. l[i + 1] = l[i] \o Separated(texts)[i + 1] /\ Separated(texts)[i + 1] \in Seq(Tokens)
      BY <2>2, ListedSteps, SeparatedItems
    <2> DEFINE item == Separated(texts)[i + 1]
               more == rest \o item
    <2> HIDE DEF l, item
    <2>4. more \in Seq(Tokens) /\ (l[j] \o rest) \o item = l[j] \o more
      <3> DEFINE p == l[j]
      <3>1. p \in Seq(Tokens) /\ item \in Seq(Tokens)
        BY <1>0, <2>3 DEF item
      <3> HIDE DEF p
      <3>2. rest \o item \in Seq(Tokens)
        BY <3>1, ConcatParts
      <3>3. (p \o rest) \o item = p \o (rest \o item)
        BY <3>1, ConcatAssociates
      <3> QED
        BY <3>2, <3>3 DEF p
    <2>5. l[i + 1] = l[j] \o more
      BY <2>1, <2>3, <2>4 DEF item
    <2> QED
      BY <2>2, <2>4, <2>5
  <1> HIDE DEF H, l
  <1>3. \A i \in j..n : i \in H
    BY <1>0, <1>1, <1>2, Ops!UpTo
  <1> QED
    BY <1>3 DEF H, l

\* What a further line adds to a value.
LEMMA SpellingGrows ==
    ASSUME NEW a, Meaningful(a), NEW from \in 1..Pieces(a), NEW upto \in from + 1..Pieces(a)
    PROVE  LET whole == Spelling(a, upto)
               rest == SubSeq(whole, Len(Spelling(a, from)) + 1, Len(whole))
           IN rest \in Seq(Tokens) /\ Spelling(a, from) \o rest = whole /\ Hides(rest, {Hash})
  <1> DEFINE n == Len(a.value)
             l == Listed(a.value)
             first == Spelling(a, from)
             whole == Spelling(a, upto)
  <1>1. Pieces(a) \in Nat
    BY KindsOfValues
  <1>2. ~(a.kind = "text" \/ a.kind = "number")
    <2>1. Pieces(a) # 1
      BY <1>1
    <2> QED
      BY <2>1, KindsOfValues
  <1>3. /\ a.kind = "array" /\ a.value \in Seq(Seq(Tokens)) /\ Pieces(a) = n + 2 /\ n \in Nat
        /\ \A i \in 1..n + 1 : Spelling(a, i) = <<Open>> \o l[i - 1]
        /\ Spelling(a, Pieces(a)) = <<Open>> \o l[n] \o <<Close>>
    BY <1>2, KindsOfValues
  <1>4. from \in 1..n + 1 /\ from - 1 \in 0..n /\ upto \in 1..n + 2
    BY <1>3
  <1>5. first = <<Open>> \o l[from - 1] /\ l[from - 1] \in Seq(Tokens)
    BY <1>3, <1>4, ListedSteps
  <1>6. Open \in Tokens /\ Close \in Tokens
    BY TokensAreDistinct DEF Delimiters
  <1>7. \E rest \in Seq(Tokens) : whole = first \o rest
    <2>1. CASE upto # n + 2
      <3>1. upto - 1 \in (from - 1)..n /\ upto \in 1..n + 1
        BY <2>1, <1>4
      <3>2. PICK rest \in Seq(Tokens) : l[upto - 1] = l[from - 1] \o rest
        BY <3>1, <1>3, <1>4, ListedGrows
      <3>3. whole = <<Open>> \o l[upto - 1]
        BY <3>1, <1>3
      <3> HIDE DEF l, first, whole
      <3>4. <<Open>> \o (l[from - 1] \o rest) = (<<Open>> \o l[from - 1]) \o rest
        <4>1. <<Open>> \in Seq(Tokens)
          BY <1>6
        <4> QED
          BY <4>1, <1>5, ConcatAssociates
      <3>5. whole = first \o rest
        BY <3>2, <3>3, <3>4, <1>5
      <3> QED
        BY <3>5
    <2>2. CASE upto = n + 2
      <3>1. n \in (from - 1)..n
        BY <1>3, <1>4
      <3>2. PICK rest \in Seq(Tokens) : l[n] = l[from - 1] \o rest
        BY <3>1, <1>3, <1>4, ListedGrows
      <3>3. whole = <<Open>> \o l[n] \o <<Close>>
        BY <2>2, <1>3
      <3> DEFINE more == rest \o <<Close>>
      <3> HIDE DEF l, first, whole
      <3>4. more \in Seq(Tokens)
            /\ (<<Open>> \o (l[from - 1] \o rest)) \o <<Close>> = (<<Open>> \o l[from - 1]) \o more
        <4> DEFINE o == <<Open>>
                   z == <<Close>>
                   p == l[from - 1]
        <4>1. o \in Seq(Tokens) /\ z \in Seq(Tokens) /\ p \in Seq(Tokens)
          BY <1>5, <1>6
        <4> HIDE DEF o, z, p
        <4>2. rest \o z \in Seq(Tokens) /\ p \o rest \in Seq(Tokens) /\ o \o p \in Seq(Tokens)
          BY <4>1, ConcatParts
        <4>3. (o \o (p \o rest)) \o z = (o \o p) \o (rest \o z)
          <5>1. o \o (p \o rest) = (o \o p) \o rest
            BY <4>1, ConcatAssociates
          <5> DEFINE q == o \o p
          <5>2. q \in Seq(Tokens)
            BY <4>2
          <5> HIDE DEF q
          <5>3. (q \o rest) \o z = q \o (rest \o z)
            BY <4>1, <5>2, ConcatAssociates
          <5> QED
            BY <5>1, <5>3 DEF q
        <4> QED
          BY <4>2, <4>3 DEF o, z, p
      <3>5. whole = first \o more
        BY <3>2, <3>3, <3>4, <1>5
      <3> QED
        BY <3>4, <3>5
    <2> QED
      BY <2>1, <2>2
  <1>8. PICK rest \in Seq(Tokens) : whole = first \o rest
    BY <1>7
  <1>9. /\ first \in Seq(Tokens) /\ Hides(first, {Hash})
        /\ whole \in Seq(Tokens) /\ Hides(whole, {Hash})
    <2>1. upto \in 1..Pieces(a)
      BY <1>3, <1>4
    <2> QED
      BY <2>1, SpellingScans
  <1> HIDE DEF first, whole
  <1>10. Hides(rest, {Hash})
    <2>1. Hides(first \o rest, {Hash})
      BY <1>8, <1>9
    <2> QED
      BY <2>1, <1>9, HidesBoth
  <1>11. SubSeq(whole, Len(first) + 1, Len(whole)) = rest
    <2>1. /\ Len(first) \in Nat /\ Len(rest) \in Nat /\ Len(whole) = Len(first) + Len(rest)
          /\ \A i \in 1..Len(rest) : whole[Len(first) + i] = rest[i]
      BY <1>8, <1>9, ConcatParts
    <2> DEFINE part == SubSeq(whole, Len(first) + 1, Len(whole))
    <2>2. /\ part \in Seq(Tokens) /\ Len(part) = Len(rest)
          /\ \A i \in 1..Len(rest) : part[i] = whole[Len(first) + i]
      BY <2>1, <1>9
    <2> HIDE DEF part
    <2>3. part = rest
      BY <2>1, <2>2, SMTT(40)
    <2> QED
      BY <2>3 DEF part
  <1> QED
    BY <1>8, <1>10, <1>11 DEF first, whole

-----------------------------------------------------------------------------
(* Decoding.                                                                *)

Decoded(escape, text) == [escape |-> escape, broken |-> FALSE, text |-> text]
String(text) == [kind |-> "string", text |-> AsRead(text)]

\* unicode_escape undoes what was escaped, token by token.
LEMMA DecodeSteps ==
    ASSUME NEW p \in Seq(Tokens), NEW token \in Tokens
    PROVE  /\ Decoded(FALSE, p) \in DecodeStates /\ Decoded(TRUE, p) \in DecodeStates
           /\ token # Escape =>
                DecodeStep[token][Decoded(FALSE, p)] = Decoded(FALSE, Append(p, AsLatin1(token)))
           /\ DecodeStep[Escape][Decoded(FALSE, p)] = Decoded(TRUE, p)
           /\ token \in {Quote, Escape} =>
                DecodeStep[token][Decoded(TRUE, p)] = Decoded(FALSE, Append(p, token))
  <1>1. Decoded(FALSE, p) \in DecodeStates /\ Decoded(TRUE, p) \in DecodeStates
    BY DEF Decoded, DecodeStates
  <1>2. Escape \in Tokens
    BY TokensAreDistinct DEF Delimiters
  <1>3. ASSUME token # Escape
        PROVE  DecodeStep[token][Decoded(FALSE, p)] = Decoded(FALSE, Append(p, AsLatin1(token)))
    BY <1>1, <1>3 DEF DecodeStep, Decoded
  <1>4. DecodeStep[Escape][Decoded(FALSE, p)] = Decoded(TRUE, p)
    BY <1>1, <1>2 DEF DecodeStep, Decoded
  <1>5. ASSUME token \in {Quote, Escape}
        PROVE  DecodeStep[token][Decoded(TRUE, p)] = Decoded(FALSE, Append(p, token))
    <2>1. p \o <<token>> = Append(p, token)
      OBVIOUS
    <2>2. Unescaped(token) = <<token>> /\ token \notin BadEscapes
      BY <1>5, TokensAreDecoded DEF Delimiters
    <2>3. DecodeStep[token][Decoded(TRUE, p)] =
             [escape |-> FALSE, broken |-> FALSE \/ token \in BadEscapes,
              text |-> p \o Unescaped(token)]
      BY <1>1 DEF DecodeStep, Decoded
    <2>4. DecodeStep[token][Decoded(TRUE, p)] = Decoded(FALSE, p \o <<token>>)
      BY <2>2, <2>3 DEF Decoded
    <2> QED
      BY <2>1, <2>4
  <1> QED
    BY <1>1, <1>3, <1>4, <1>5

\* One decoding after the other.
LEMMA DecodeOn ==
    ASSUME NEW start \in DecodeStates, NEW s \in Seq(Tokens), NEW u \in Seq(Tokens)
    PROVE  LET first == Run(DecodeStep, start, s)
               second == Run(DecodeStep, first[Len(s)], u)
               both == Run(DecodeStep, start, s \o u)
           IN both[Len(s) + Len(u)] = second[Len(u)]
  <1>1. DecodeStep \in [Tokens -> [DecodeStates -> DecodeStates]]
    BY StepsAreTyped
  <1>2. LET first == Run(DecodeStep, start, s)
            second == Run(DecodeStep, first[Len(s)], u)
            both == Run(DecodeStep, start, s \o u)
        IN /\ \A i \in 0..Len(s) : both[i] = first[i]
           /\ \A i \in 0..Len(u) : both[Len(s) + i] = second[i]
    BY <1>1, RunOn, Z3
  <1>3. Len(u) \in 0..Len(u)
    OBVIOUS
  <1> QED
    BY <1>2, <1>3

\* A decoding takes a step for each token.
LEMMA DecodeFrom ==
    ASSUME NEW start \in DecodeStates, NEW s \in Seq(Tokens)
    PROVE  /\ Run(DecodeStep, start, s) \in [0..Len(s) -> DecodeStates]
           /\ Run(DecodeStep, start, s)[0] = start
           /\ \A i \in 1..Len(s) :
                Run(DecodeStep, start, s)[i] = DecodeStep[s[i]][Run(DecodeStep, start, s)[i - 1]]
  <1>1. \A i \in 1..Len(s) : \A x \in DecodeStates : DecodeStep[s[i]][x] \in DecodeStates
    BY StepsAreTyped
  <1> QED
    BY <1>1, RunDefined, Z3

\* What is escaped is decoded to what is left of it.
LEMMA DecodesToken ==
    ASSUME NEW p \in Seq(Tokens), NEW token \in Tokens
    PROVE  LET e == EscapedToken(token) IN
           Run(DecodeStep, Decoded(FALSE, p), e)[Len(e)] = Decoded(FALSE, Append(p, AsLatin1(token)))
  <1> DEFINE e == EscapedToken(token)
             run == Run(DecodeStep, Decoded(FALSE, p), e)
  <1>1. e \in Seq(Tokens) /\ Escape \in Tokens
    BY TokensAreDistinct, EscapedTokenStaysInside DEF Delimiters
  <1>2. Decoded(FALSE, p) \in DecodeStates
    BY DecodeSteps
  <1> HIDE DEF e
  <1>3. /\ run[0] = Decoded(FALSE, p)
        /\ \A i \in 1..Len(e) : run[i] = DecodeStep[e[i]][run[i - 1]]
    BY <1>1, <1>2, DecodeFrom
  <1> HIDE DEF run
  <1>4. CASE token \in {Quote, Escape}
    <2>1. e = <<Escape, token>> /\ Len(e) = 2 /\ e[1] = Escape /\ e[2] = token
      BY <1>4 DEF e, EscapedToken
    <2>2. run[1] = DecodeStep[Escape][run[0]] /\ run[2] = DecodeStep[token][run[1]]
      <3>1. 1 \in 1..Len(e) /\ 2 \in 1..Len(e) /\ 1 - 1 = 0 /\ 2 - 1 = 1
        BY <2>1
      <3>2. run[1] = DecodeStep[e[1]][run[1 - 1]] /\ run[2] = DecodeStep[e[2]][run[2 - 1]]
        BY <3>1, <1>3
      <3> QED
        BY <3>1, <3>2, <2>1
    <2>3. run[1] = Decoded(TRUE, p)
      BY <2>2, <1>3, DecodeSteps
    <2>4. run[2] = Decoded(FALSE, Append(p, AsLatin1(token)))
      <3>1. run[2] = Decoded(FALSE, Append(p, token))
        BY <2>2, <2>3, <1>4, DecodeSteps
      <3>2. AsLatin1(token) = token
        BY <1>4, TokensAreDecoded DEF Delimiters
      <3> QED
        BY <3>1, <3>2
    <2> QED
      BY <2>1, <2>4 DEF run, e
  <1>5. CASE token \notin {Quote, Escape}
    <2>1. e = <<token>> /\ Len(e) = 1 /\ e[1] = token
      BY <1>5 DEF e, EscapedToken
    <2>2. run[1] = DecodeStep[token][run[0]]
      <3>1. 1 \in 1..Len(e) /\ 1 - 1 = 0
        BY <2>1
      <3>2. run[1] = DecodeStep[e[1]][run[1 - 1]]
        BY <3>1, <1>3
      <3> QED
        BY <3>1, <3>2, <2>1
    <2>3. run[1] = Decoded(FALSE, Append(p, AsLatin1(token)))
      BY <2>2, <1>3, <1>5, DecodeSteps
    <2> QED
      BY <2>1, <2>3 DEF run, e
  <1> QED
    BY <1>4, <1>5

DecodedTo(e, end) == Run(DecodeStep, Decoded(FALSE, <<>>), e)[Len(e)] = end
\* The beginning of an escaped text decodes to that of the text.
LEMMA DecodesEscaping ==
    ASSUME NEW text \in Seq(Tokens), NEW j \in 0..Len(text)
    PROVE  DecodedTo(Escaping(text)[j], Decoded(FALSE, AsRead(SubSeq(text, 1, j))))
  <1> DEFINE n == Len(text)
             E == Escaping(text)
             H == {k \in Nat : DecodedTo(E[k], Decoded(FALSE, AsRead(SubSeq(text, 1, k))))}
             start == Decoded(FALSE, <<>>)
  <1>0. n \in Nat /\ \A i \in 1..n : text[i] \in Tokens
    OBVIOUS
  <1>1. start \in DecodeStates
    BY DEF Decoded, DecodeStates
  <1>2. 0 \in H
    <2>1. Run(DecodeStep, start, <<>>)[0] = start
      BY <1>1, RunOfNothing
    <2>2. SubSeq(text, 1, 0) = <<>> /\ E[0] = <<>> /\ Len(<<>>) = 0
      <3>1. E[0] = <<>>
        BY EscapingStep
      <3>2. SubSeq(text, 1, 0) = <<>> /\ Len(<<>>) = 0
        OBVIOUS
      <3> HIDE DEF E
      <3> QED
        BY <3>1, <3>2
    <2> HIDE DEF E
    <2>3. DecodedTo(<<>>, Decoded(FALSE, <<>>))
      BY <2>1, <2>2 DEF DecodedTo
    <2>4. DecodedTo(E[0], Decoded(FALSE, AsRead(SubSeq(text, 1, 0))))
      BY <2>2, <2>3, AsReadGrows
    <2> QED
      BY <2>4
  <1>3. ASSUME NEW k \in 0..n - 1, k \in H PROVE k + 1 \in H
    <2> DEFINE token == text[k + 1]
               x == EscapedToken(token)
               s == SubSeq(text, 1, k)
               p == AsRead(s)
               e == E[k]
    <2>1. k + 1 \in 1..n /\ (k + 1) - 1 = k /\ k \in 0..n
      BY <1>0
    <2>2. E[k + 1] = e \o x /\ e \in Seq(Tokens)
      BY <2>1, EscapingStep
    <2>3. /\ p \in Seq(Tokens) /\ token \in Tokens
          /\ Append(p, AsLatin1(token)) = AsRead(SubSeq(text, 1, k + 1))
      <3>1. s \in Seq(Tokens) /\ token \in Tokens /\ Append(s, token) = SubSeq(text, 1, k + 1)
        BY <2>1, <1>0
      <3> HIDE DEF s, token
      <3>2. AsRead(s) \in Seq(Tokens) /\ AsRead(Append(s, token)) = Append(AsRead(s), AsLatin1(token))
        BY <3>1, AsReadGrows
      <3> QED
        BY <3>1, <3>2
    <2>4. DecodedTo(e, Decoded(FALSE, p))
      BY <1>3
    <2> HIDE DEF token, p, start
    <2>5. /\ x \in Seq(Tokens)
          /\ Run(DecodeStep, Decoded(FALSE, p), x)[Len(x)] = Decoded(FALSE, Append(p, AsLatin1(token)))
      BY <2>3, DecodesToken, EscapedTokenStaysInside
    <2> HIDE DEF x, e
    <2>6. LET first == Run(DecodeStep, start, e)
              second == Run(DecodeStep, first[Len(e)], x)
              both == Run(DecodeStep, start, e \o x)
          IN both[Len(e) + Len(x)] = second[Len(x)]
      BY <1>1, <2>2, <2>5, DecodeOn
    <2>7. Run(DecodeStep, start, e)[Len(e)] = Decoded(FALSE, p)
      BY <2>4 DEF DecodedTo, start
    <2>8. Len(e \o x) = Len(e) + Len(x)
      BY <2>2, <2>5
    <2>9. DecodedTo(e \o x, Decoded(FALSE, Append(p, AsLatin1(token))))
      BY <2>5, <2>6, <2>7, <2>8 DEF DecodedTo, start
    <2> HIDE DEF E
    <2>10. DecodedTo(E[k + 1], Decoded(FALSE, AsRead(SubSeq(text, 1, k + 1))))
      BY <2>2, <2>3, <2>9
    <2>11. k + 1 \in Nat
      BY <2>1
    <2> QED
      BY <2>10, <2>11
  <1> HIDE DEF H
  <1>4. \A k \in 0..n : k \in H
    BY <1>0, <1>2, <1>3, Ops!UpTo
  <1> QED
    BY <1>4 DEF H

\* A literal's inside is decoded to what is left of the text; what ends in a dangling
\* escape is not decoded at all (_parse_value).
LEMMA DecodesEscaped ==
    ASSUME NEW text \in Seq(Tokens)
    PROVE  Decode(Escaped(text)) = String(text)
  <1>1. Len(text) \in 0..Len(text) /\ SubSeq(text, 1, Len(text)) = text
    OBVIOUS
  <1>2. DecodedTo(Escaped(text), Decoded(FALSE, AsRead(text)))
    BY <1>1, DecodesEscaping, EscapingStep
  <1> QED
    BY <1>2 DEF Decode, DecodedTo, Decoded, String

\* A text that ends with a single backslash is refused.
LEMMA DanglingEscape ==
    ASSUME NEW text \in Seq(Tokens), NEW j \in 0..Len(text)
    PROVE  Decode(Escaping(text)[j] \o <<Escape>>) = Malformed
  <1> DEFINE e == Escaping(text)[j]
             x == <<Escape>>
             p == AsRead(SubSeq(text, 1, j))
             start == Decoded(FALSE, <<>>)
  <1>1. e \in Seq(Tokens) /\ DecodedTo(e, Decoded(FALSE, p))
    BY EscapingStep, DecodesEscaping
  <1>2. x \in Seq(Tokens) /\ Len(x) = 1 /\ x[1] = Escape /\ Escape \in Tokens
    BY TokensAreDistinct DEF Delimiters
  <1>3. p \in Seq(Tokens) /\ start \in DecodeStates
    <2>1. SubSeq(text, 1, j) \in Seq(Tokens) /\ Quote \in Tokens
      BY TokensAreDistinct DEF Delimiters
    <2>2. AsRead(SubSeq(text, 1, j)) \in Seq(Tokens)
      BY <2>1, AsReadGrows
    <2> QED
      BY <2>2 DEF Decoded, DecodeStates
  <1> HIDE DEF e, x, p, start
  <1>4. LET first == Run(DecodeStep, start, e)
            second == Run(DecodeStep, first[Len(e)], x)
            both == Run(DecodeStep, start, e \o x)
        IN both[Len(e) + Len(x)] = second[Len(x)]
    BY <1>1, <1>2, <1>3, DecodeOn
  <1>5. Run(DecodeStep, start, e)[Len(e)] = Decoded(FALSE, p)
    BY <1>1 DEF DecodedTo, start
  <1> DEFINE run == Run(DecodeStep, Decoded(FALSE, p), x)
  <1>6. run[1] = DecodeStep[x[1]][run[0]] /\ run[0] = Decoded(FALSE, p)
    <2> DEFINE from == Decoded(FALSE, p)
    <2>1. from \in DecodeStates
      BY <1>2, <1>3, DecodeSteps
    <2> HIDE DEF from
    <2>2. /\ Run(DecodeStep, from, x)[0] = from
          /\ \A i \in 1..Len(x) :
               Run(DecodeStep, from, x)[i] = DecodeStep[x[i]][Run(DecodeStep, from, x)[i - 1]]
      BY <2>1, <1>2, DecodeFrom
    <2>3. 1 \in 1..Len(x) /\ 1 - 1 = 0
      BY <1>2
    <2>4. Run(DecodeStep, from, x)[1] = DecodeStep[x[1]][Run(DecodeStep, from, x)[1 - 1]]
      BY <2>2, <2>3
    <2> QED
      BY <2>2, <2>3, <2>4 DEF from
  <1>7. run[1] = Decoded(TRUE, p)
    <2>1. DecodeStep[Escape][Decoded(FALSE, p)] = Decoded(TRUE, p)
      BY <1>2, <1>3, DecodeSteps
    <2> QED
      BY <2>1, <1>2, <1>6
  <1>8. Len(e \o x) = Len(e) + Len(x)
    BY <1>1, <1>2, ConcatParts
  <1>9. Run(DecodeStep, start, e \o x)[Len(e \o x)] = Decoded(TRUE, p)
    BY <1>2, <1>4, <1>5, <1>7, <1>8
  <1>10. Decode(e \o x) = Malformed
    BY <1>9 DEF Decode, Decoded, start
  <1> QED
    BY <1>10 DEF e, x

-----------------------------------------------------------------------------
(* Splitting at commas.                                                     *)

CommaFree(s) == \A i \in 1..Len(s) : s[i] # Comma
Split(items, item) == [items |-> items, item |-> item]

\* The parts of a split.
LEMMA SplitParts == \A items, item : Split(items, item).items = items /\ Split(items, item).item = item
  BY DEF Split

\* A token goes to the end of the second text.
LEMMA AppendToBoth ==
    ASSUME NEW s \in Seq(Tokens), NEW u \in Seq(Tokens), NEW t \in Tokens
    PROVE  s \o u \in Seq(Tokens) /\ Append(s \o u, t) = s \o Append(u, t)
  <1>1. s \o u \in Seq(Tokens) /\ Append(u, t) \in Seq(Tokens)
    OBVIOUS
  <1>2. Append(u, t) = u \o <<t>> /\ Append(s \o u, t) = (s \o u) \o <<t>> /\ <<t>> \in Seq(Tokens)
    OBVIOUS
  <1>3. (s \o u) \o <<t>> = s \o (u \o <<t>>)
    BY <1>2, ConcatAssociates
  <1> QED
    BY <1>1, <1>2, <1>3

\* A comma cuts, any other token goes to the item.
LEMMA SplitSteps ==
    ASSUME NEW x \in SplitStates
    PROVE  /\ x.items \in Seq(Seq(Tokens)) /\ x.item \in Seq(Tokens)
           /\ x = Split(x.items, x.item)
           /\ Cut(x) \in Seq(Seq(Tokens))
           /\ SplitStep[Comma][x] = Split(Cut(x), <<>>)
           /\ \A token \in Tokens : token # Comma =>
                 SplitStep[token][x] = Split(x.items, Append(x.item, token))
  <1>1. x.items \in Seq(Seq(Tokens)) /\ x.item \in Seq(Tokens) /\ x = Split(x.items, x.item)
    BY DEF SplitStates, Split
  <1>2. Cut(x) \in Seq(Seq(Tokens))
    BY <1>1 DEF Cut
  <1>3. Comma \in Tokens
    BY TokensAreDistinct DEF Delimiters
  <1>4. SplitStep[Comma][x] = Split(Cut(x), <<>>)
    BY <1>3 DEF SplitStep, Split
  <1>5. ASSUME NEW token \in Tokens, token # Comma
        PROVE  SplitStep[token][x] = Split(x.items, Append(x.item, token))
    <2>1. SplitStep[token][x] = [x EXCEPT !.item = Append(@, token)]
      BY <1>5 DEF SplitStep
    <2> QED
      BY <2>1, <1>1 DEF Split
  <1> QED
    BY <1>1, <1>2, <1>4, <1>5

\* A split takes a step for each token.
LEMMA SplitFrom ==
    ASSUME NEW start \in SplitStates, NEW s \in Seq(Tokens)
    PROVE  /\ Run(SplitStep, start, s) \in [0..Len(s) -> SplitStates]
           /\ Run(SplitStep, start, s)[0] = start
           /\ \A i \in 1..Len(s) :
                Run(SplitStep, start, s)[i] = SplitStep[s[i]][Run(SplitStep, start, s)[i - 1]]
  <1>1. \A i \in 1..Len(s) : \A x \in SplitStates : SplitStep[s[i]][x] \in SplitStates
    BY StepsAreTyped
  <1> QED
    BY <1>1, RunDefined, Z3

\* Where splitting s leads to from x.
SplitTo(x, s) == Run(SplitStep, x, s)[Len(s)]

\* A text may be split in two goes.
LEMMA SplitOn ==
    ASSUME NEW x \in SplitStates, NEW s \in Seq(Tokens), NEW u \in Seq(Tokens)
    PROVE  /\ SplitTo(x, s) \in SplitStates
           /\ SplitTo(x, s \o u) = SplitTo(SplitTo(x, s), u)
  <1>1. SplitStep \in [Tokens -> [SplitStates -> SplitStates]]
    BY StepsAreTyped
  <1>2. LET first == Run(SplitStep, x, s)
            second == Run(SplitStep, first[Len(s)], u)
            both == Run(SplitStep, x, s \o u)
        IN /\ \A i \in 0..Len(s) : both[i] = first[i]
           /\ \A i \in 0..Len(u) : both[Len(s) + i] = second[i]
    BY <1>1, RunOn, Z3
  <1>3. Len(u) \in 0..Len(u) /\ Len(s \o u) = Len(s) + Len(u) /\ Len(s) \in 0..Len(s)
    OBVIOUS
  <1>4. Run(SplitStep, x, s) \in [0..Len(s) -> SplitStates]
    BY SplitFrom
  <1> QED
    BY <1>2, <1>3, <1>4 DEF SplitTo

\* What has no comma goes into one item, and a comma ends it.
LEMMA SplitPlain ==
    ASSUME NEW x \in SplitStates, NEW s \in Seq(Tokens), CommaFree(s)
    PROVE  SplitTo(x, s) = Split(x.items, x.item \o s)
  <1> DEFINE n == Len(s)
             run == Run(SplitStep, x, s)
             H == {k \in Nat : run[k] = Split(x.items, x.item \o SubSeq(s, 1, k))}
  <1>0. n \in Nat /\ (\A i \in 1..n : s[i] \in Tokens /\ s[i] # Comma) /\ SubSeq(s, 1, n) = s
        /\ SubSeq(s, 1, 0) = <<>>
    BY DEF CommaFree
  <1>1. x.items \in Seq(Seq(Tokens)) /\ x.item \in Seq(Tokens) /\ x = Split(x.items, x.item)
    BY SplitSteps
  <1>2. /\ run \in [0..n -> SplitStates] /\ run[0] = x
        /\ \A i \in 1..n : run[i] = SplitStep[s[i]][run[i - 1]]
    BY SplitFrom
  <1> HIDE DEF run
  <1>3. 0 \in H
    <2>1. x.item \o <<>> = x.item
      BY <1>1
    <2> QED
      BY <2>1, <1>0, <1>1, <1>2
  <1>4. ASSUME NEW k \in 0..n - 1, k \in H PROVE k + 1 \in H
    <2> DEFINE p == x.item \o SubSeq(s, 1, k)
    <2>1. k + 1 \in 1..n /\ (k + 1) - 1 = k /\ k \in 0..n /\ k + 1 \in Nat
      BY <1>0
    <2>2. p \in Seq(Tokens) /\ Append(p, s[k + 1]) = x.item \o SubSeq(s, 1, k + 1)
      <3>1. /\ SubSeq(s, 1, k) \in Seq(Tokens) /\ s[k + 1] \in Tokens
            /\ SubSeq(s, 1, k + 1) = Append(SubSeq(s, 1, k), s[k + 1])
        BY <2>1, <1>0
      <3> DEFINE q == SubSeq(s, 1, k)
                 t == s[k + 1]
                 o == x.item
      <3> HIDE DEF q, t, o
      <3>2. q \in Seq(Tokens) /\ t \in Tokens /\ o \in Seq(Tokens)
        BY <3>1, <1>1 DEF q, t, o
      <3>3. o \o q \in Seq(Tokens) /\ Append(o \o q, t) = o \o Append(q, t)
        BY <3>2, AppendToBoth
      <3> QED
        BY <3>1, <3>3 DEF q, t, o
    <2>3. run[k] = Split(x.items, p) /\ run[k] \in SplitStates
      BY <1>4, <2>1, <1>2
    <2>4. run[k + 1] = SplitStep[s[k + 1]][run[k]]
      BY <2>1, <1>2
    <2>5. s[k + 1] \in Tokens /\ s[k + 1] # Comma
      BY <2>1, <1>0
    <2>6. SplitStep[s[k + 1]][run[k]] = Split(run[k].items, Append(run[k].item, s[k + 1]))
      BY <2>3, <2>5, SplitSteps
    <2> HIDE DEF p
    <2>7. run[k].items = x.items /\ run[k].item = p
      BY <2>3, SplitParts
    <2>8. run[k + 1] = Split(x.items, x.item \o SubSeq(s, 1, k + 1))
      BY <2>2, <2>4, <2>6, <2>7
    <2> QED
      BY <2>1, <2>8
  <1> HIDE DEF H
  <1>5. \A k \in 0..n : k \in H
    BY <1>0, <1>3, <1>4, Ops!UpTo
  <1>6. run[n] = Split(x.items, x.item \o SubSeq(s, 1, n))
    BY <1>0, <1>5 DEF H
  <1> QED
    BY <1>0, <1>6 DEF SplitTo, run

\* At a comma the item ends.
LEMMA SplitAtComma ==
    ASSUME NEW x \in SplitStates
    PROVE  SplitTo(x, <<Comma>>) = Split(Cut(x), <<>>)
  <1> DEFINE s == <<Comma>>
  <1>1. s \in Seq(Tokens) /\ Len(s) = 1 /\ s[1] = Comma
    BY TokensAreDistinct DEF Delimiters
  <1> HIDE DEF s
  <1>2. /\ Run(SplitStep, x, s)[0] = x
        /\ \A i \in 1..Len(s) : Run(SplitStep, x, s)[i] = SplitStep[s[i]][Run(SplitStep, x, s)[i - 1]]
    BY <1>1, SplitFrom
  <1>3. 1 \in 1..Len(s) /\ 1 - 1 = 0
    BY <1>1
  <1>4. Run(SplitStep, x, s)[1] = SplitStep[Comma][x]
    <2>1. Run(SplitStep, x, s)[1] = SplitStep[s[1]][Run(SplitStep, x, s)[1 - 1]]
      BY <1>2, <1>3
    <2> QED
      BY <2>1, <1>1, <1>2, <1>3
  <1>5. SplitTo(x, s) = Split(Cut(x), <<>>)
    BY <1>1, <1>4, SplitSteps DEF SplitTo
  <1> QED
    BY <1>5 DEF s

\* A set that the steps stay in.
LEMMA RunStays ==
    ASSUME NEW T, NEW S, NEW start \in S, NEW step, NEW s \in Seq(T),
           \A token \in T : \A y \in S : step[token][y] \in S
    PROVE  Run(step, start, s)[Len(s)] \in S
  <1>1. Len(s) \in Nat /\ \A i \in 1..Len(s) : s[i] \in T
    OBVIOUS
  <1>2. \A i \in 1..Len(s) : \A y \in S : step[s[i]][y] \in S
    BY <1>1
  <1>3. Run(step, start, s) \in [0..Len(s) -> S]
    BY <1>1, <1>2, RunDefined, Z3
  <1> QED
    BY <1>1, <1>3

\* What was once cut off stays an item.
LEMMA ItemsStay ==
    ASSUME NEW x \in SplitStates, NEW s \in Seq(Tokens), NEW piece, piece \in Range(x.items)
    PROVE  piece \in Range(Cut(SplitTo(x, s)))
  <1> DEFINE S == {y \in SplitStates : piece \in Range(y.items)}
  <1>1. ASSUME NEW y \in SplitStates, piece \in Range(y.items)
        PROVE  piece \in Range(Cut(y))
    <2>1. y.items \in Seq(Seq(Tokens)) /\ y.item \in Seq(Tokens)
      BY SplitSteps
    <2>2. PICK i \in DOMAIN y.items : y.items[i] = piece
      BY <1>1, Zenon DEF Range
    <2> DEFINE t == y.items
               more == Append(t, y.item)
    <2>3. DOMAIN more = 1..Len(t) + 1 /\ i \in 1..Len(t) /\ more[i] = t[i]
      BY <2>1, <2>2
    <2>4. Cut(y) = t \/ Cut(y) = more
      BY DEF Cut
    <2> HIDE DEF t, more
    <2>5. i \in DOMAIN t /\ i \in DOMAIN more /\ t[i] = piece /\ more[i] = piece
      <3>1. i \in DOMAIN t /\ t[i] = piece
        BY <2>2 DEF t
      <3>2. i \in 1..Len(t) + 1
        BY <2>1, <2>3 DEF t
      <3> QED
        BY <3>1, <3>2, <2>3
    <2>6. piece \in Range(t) /\ piece \in Range(more)
      BY <2>5 DEF Range
    <2> QED
      BY <2>4, <2>6
  <1>2. ASSUME NEW token \in Tokens, NEW y \in SplitStates, piece \in Range(y.items)
        PROVE  SplitStep[token][y] \in SplitStates /\ piece \in Range(SplitStep[token][y].items)
    <2>1. SplitStep[token][y] \in SplitStates
      BY StepsAreTyped
    <2>2. SplitStep[token][y].items \in {y.items, Cut(y)}
      <3>1. CASE token = Comma
        <4>1. SplitStep[token][y] = Split(Cut(y), <<>>)
          BY <3>1, SplitSteps
        <4> QED
          BY <4>1, SplitParts
      <3>2. CASE token # Comma
        <4>1. SplitStep[token][y] = Split(y.items, Append(y.item, token))
          BY <3>2, SplitSteps
        <4> QED
          BY <4>1, SplitParts
      <3> QED
        BY <3>1, <3>2
    <2> QED
      BY <2>1, <2>2, <1>1, <1>2
  <1>3. x \in S /\ \A token \in Tokens : \A y \in S : SplitStep[token][y] \in S
    BY <1>2
  <1> HIDE DEF S
  <1>4. Run(SplitStep, x, s)[Len(s)] \in S
    BY <1>3, RunStays
  <1> QED
    BY <1>1, <1>4 DEF S, SplitTo

\* s begins with p.
Begins(p, s) == \E rest \in Seq(Tokens) : s = p \o rest

\* A beginning stays one with more before or behind.
LEMMA BeginsParts ==
    ASSUME NEW p \in Seq(Tokens), NEW s \in Seq(Tokens), NEW u \in Seq(Tokens), Begins(p, s)
    PROVE  /\ Begins(p, s \o u)
           /\ Begins(u \o p, u \o s)
           /\ Begins(s, u) => Begins(p, u)
  <1>1. PICK rest \in Seq(Tokens) : s = p \o rest
    BY DEF Begins
  <1>2. rest \o u \in Seq(Tokens) /\ s \o u = p \o (rest \o u)
    BY <1>1, ConcatParts, ConcatAssociates
  <1>3. u \o s = (u \o p) \o rest
    BY <1>1, ConcatAssociates
  <1>4. ASSUME NEW more \in Seq(Tokens), u = s \o more
        PROVE  rest \o more \in Seq(Tokens) /\ u = p \o (rest \o more)
    BY <1>1, <1>4, ConcatParts, ConcatAssociates, SMTT(40)
  <1> QED
    BY <1>1, <1>2, <1>3, <1>4 DEF Begins

\* What the first tokens are escaped to begins what all are.
LEMMA EscapingGrows ==
    ASSUME NEW text \in Seq(Tokens), NEW j \in 0..Len(text)
    PROVE  Begins(Escaping(text)[j], Escaped(text))
  <1> DEFINE n == Len(text)
             E == Escaping(text)
             H == {i \in Nat : Begins(E[j], E[i])}
  <1>0. n \in Nat /\ j \in Nat /\ (\A i \in 1..n : text[i] \in Tokens) /\ n \in j..n
    OBVIOUS
  <1>1. \A i \in 0..n : E[i] \in Seq(Tokens)
    BY EscapingStep
  <1>2. \A i \in 1..n : E[i] = E[i - 1] \o EscapedToken(text[i])
    BY EscapingStep
  <1>3. Escaped(text) = E[n]
    BY EscapingStep
  <1> HIDE DEF E, n
  <1>4. j \in H
    <2>1. E[j] \in Seq(Tokens)
      BY <1>1 DEF n
    <2>2. E[j] = E[j] \o <<>> /\ <<>> \in Seq(Tokens)
      BY <2>1
    <2> QED
      BY <1>0, <2>2 DEF Begins
  <1>5. ASSUME NEW i \in j..n - 1, i \in H PROVE i + 1 \in H
    <2>1. i + 1 \in 1..n /\ (i + 1) - 1 = i /\ i \in 0..n /\ i + 1 \in Nat /\ j \in 0..n
      BY <1>0 DEF n
    <2>2. E[i + 1] = E[i] \o EscapedToken(text[i + 1]) /\ EscapedToken(text[i + 1]) \in Seq(Tokens)
      BY <2>1, <1>0, <1>2, EscapedTokenStaysInside
    <2>3. E[i] \in Seq(Tokens) /\ E[j] \in Seq(Tokens) /\ Begins(E[j], E[i])
      BY <2>1, <1>1, <1>5
    <2>4. Begins(E[j], E[i + 1])
      BY <2>2, <2>3, BeginsParts
    <2> QED
      BY <2>1, <2>4
  <1> HIDE DEF H
  <1>6. \A i \in j..n : i \in H
    BY <1>0, <1>4, <1>5, Ops!UpTo
  <1>7. Begins(E[j], E[n])
    BY <1>0, <1>6 DEF H
  <1> QED
    BY <1>3, <1>7 DEF E

\* Two texts have a comma if one of them has.
LEMMA CommaFreeBoth ==
    ASSUME NEW s \in Seq(Tokens), NEW u \in Seq(Tokens)
    PROVE  CommaFree(s \o u) <=> CommaFree(s) /\ CommaFree(u)
  <1>1. /\ Len(s) \in Nat /\ Len(u) \in Nat /\ Len(s \o u) = Len(s) + Len(u)
        /\ \A i \in 1..Len(s) : (s \o u)[i] = s[i]
        /\ \A i \in 1..Len(u) : (s \o u)[Len(s) + i] = u[i]
    OBVIOUS
  <1>2. ASSUME CommaFree(s), CommaFree(u), NEW i \in 1..Len(s) + Len(u)
        PROVE  (s \o u)[i] # Comma
    <2>1. CASE i \in 1..Len(s)
      BY <2>1, <1>1, <1>2 DEF CommaFree
    <2>2. CASE i \notin 1..Len(s)
      <3>1. i - Len(s) \in 1..Len(u) /\ Len(s) + (i - Len(s)) = i
        BY <2>2, <1>1
      <3>2. u[i - Len(s)] # Comma
        BY <3>1, <1>2 DEF CommaFree
      <3> QED
        BY <3>1, <3>2, <1>1
    <2> QED
      BY <2>1, <2>2
  <1>3. ASSUME CommaFree(s \o u) PROVE CommaFree(s) /\ CommaFree(u)
    <2>1. \A i \in 1..Len(s) : i \in 1..Len(s \o u)
      BY <1>1
    <2>2. \A i \in 1..Len(u) : Len(s) + i \in 1..Len(s \o u)
      BY <1>1
    <2> QED
      BY <2>1, <2>2, <1>1, <1>3 DEF CommaFree
  <1> QED
    BY <1>1, <1>2, <1>3 DEF CommaFree

\* No comma comes from escaping.
LEMMA EscapingPlain ==
    ASSUME NEW text \in Seq(Tokens), NEW j \in 0..Len(text), \A i \in 1..j : text[i] # Comma
    PROVE  CommaFree(Escaping(text)[j])
  <1> DEFINE E == Escaping(text)
             H == {i \in Nat : CommaFree(E[i])}
  <1>0. j \in Nat /\ j <= Len(text) /\ \A i \in 1..j : text[i] \in Tokens
    OBVIOUS
  <1>1. /\ \A i \in 0..j : E[i] \in Seq(Tokens)
        /\ E[0] = <<>>
        /\ \A i \in 1..j : E[i] = E[i - 1] \o EscapedToken(text[i])
    <2>1. /\ \A i \in 0..Len(text) : E[i] \in Seq(Tokens)
          /\ E[0] = <<>>
          /\ \A i \in 1..Len(text) : E[i] = E[i - 1] \o EscapedToken(text[i])
      BY EscapingStep
    <2>2. (\A i \in 0..j : i \in 0..Len(text)) /\ \A i \in 1..j : i \in 1..Len(text)
      BY <1>0
    <2> QED
      BY <2>1, <2>2
  <1> HIDE DEF E
  <1>2. 0 \in H
    BY <1>1 DEF CommaFree
  <1>3. ASSUME NEW i \in 0..j - 1, i \in H PROVE i + 1 \in H
    <2>1. i + 1 \in 1..j /\ (i + 1) - 1 = i /\ i \in 0..j /\ i + 1 \in Nat
      BY <1>0
    <2> DEFINE x == EscapedToken(text[i + 1])
    <2>2. x \in Seq(Tokens) /\ CommaFree(x)
      <3>1. text[i + 1] \in Tokens /\ text[i + 1] # Comma /\ Escape # Comma
        BY <2>1, <1>0, TokensAreDistinct
      <3> QED
        BY <3>1, EscapedTokenStaysInside DEF EscapedToken, CommaFree
    <2> HIDE DEF x
    <2>3. E[i + 1] = E[i] \o x /\ E[i] \in Seq(Tokens) /\ CommaFree(E[i])
      BY <2>1, <1>1, <1>3 DEF x
    <2>4. CommaFree(E[i + 1])
      BY <2>2, <2>3, CommaFreeBoth
    <2> QED
      BY <2>1, <2>4
  <1> HIDE DEF H
  <1>4. \A i \in 0..j : i \in H
    BY <1>0, <1>2, <1>3, Ops!UpTo
  <1>5. CommaFree(E[j])
    BY <1>0, <1>4 DEF H
  <1> QED
    BY <1>5 DEF E

NoItems == Split(<<>>, <<>>)
\* Splitting starts with nothing.
LEMMA SplitOfItems ==
    /\ NoItems \in SplitStates
    /\ \A s \in Seq(Tokens) : SplitItems(s) = Cut(SplitTo(NoItems, s))
    /\ SplitTo(NoItems, <<>>) = NoItems
  <1>1. NoItems \in SplitStates
    BY DEF NoItems, Split, SplitStates
  <1>2. \A s \in Seq(Tokens) : SplitItems(s) = Cut(SplitTo(NoItems, s))
    BY Zenon DEF SplitItems, SplitTo, NoItems, Split
  <1>3. Run(SplitStep, NoItems, <<>>)[0] = NoItems
    BY <1>1, RunOfNothing
  <1>4. Len(<<>>) = 0
    OBVIOUS
  <1> QED
    BY <1>1, <1>2, <1>3, <1>4 DEF SplitTo

\* A literal, and the comma there is between two of them.
LEMMA SplitLiteral ==
    ASSUME NEW texts \in Seq(Seq(Tokens)), NEW k \in 1..Len(texts), NEW x \in SplitStates
    PROVE  LET L == Literal(texts[k])
           IN /\ L \in Seq(Tokens)
              /\ SplitTo(x, L) \in SplitStates
              /\ SplitTo(x, Separated(texts)[k]) =
                    IF k < Len(texts) THEN Split(Cut(SplitTo(x, L)), <<>>) ELSE SplitTo(x, L)
  <1> DEFINE L == Literal(texts[k])
             y == SplitTo(x, L)
  <1>1. L \in Seq(Tokens) /\ <<Comma>> \in Seq(Tokens) /\ <<>> \in Seq(Tokens)
    <2>1. texts[k] \in Seq(Tokens)
      OBVIOUS
    <2>2. Comma \in Tokens
      BY TokensAreDistinct DEF Delimiters
    <2> QED
      BY <2>1, <2>2, LiteralHides
  <1>2. Separated(texts)[k] = L \o IF k < Len(texts) THEN <<Comma>> ELSE <<>>
    BY SeparatedItems
  <1> HIDE DEF L
  <1>3. y \in SplitStates /\ SplitTo(x, L \o <<Comma>>) = SplitTo(y, <<Comma>>)
    BY <1>1, SplitOn
  <1> HIDE DEF y
  <1>4. SplitTo(y, <<Comma>>) = Split(Cut(y), <<>>)
    BY <1>3, SplitAtComma
  <1>5. L \o <<>> = L
    BY <1>1
  <1>6. CASE k < Len(texts)
    BY <1>1, <1>2, <1>3, <1>4, <1>6 DEF L, y
  <1>7. CASE ~(k < Len(texts))
    BY <1>1, <1>2, <1>3, <1>5, <1>7 DEF L, y
  <1> QED
    BY <1>6, <1>7

\* The next string of an array is split after those before it.
LEMMA ListedSplits ==
    ASSUME NEW texts \in Seq(Seq(Tokens)), NEW k \in 1..Len(texts)
    PROVE  LET before == SplitTo(NoItems, Listed(texts)[k - 1])
           IN /\ before \in SplitStates
              /\ Listed(texts)[k - 1] \in Seq(Tokens)
              /\ SplitTo(NoItems, Listed(texts)[k]) = SplitTo(before, Separated(texts)[k])
  <1>1. k - 1 \in 0..Len(texts)
    OBVIOUS
  <1>2. /\ Listed(texts)[k - 1] \in Seq(Tokens) /\ Separated(texts)[k] \in Seq(Tokens)
        /\ Listed(texts)[k] = Listed(texts)[k - 1] \o Separated(texts)[k]
    BY <1>1, ListedSteps, SeparatedItems
  <1> DEFINE s == Listed(texts)[k - 1]
             u == Separated(texts)[k]
  <1>3. s \in Seq(Tokens) /\ u \in Seq(Tokens) /\ NoItems \in SplitStates
    BY <1>2, SplitOfItems
  <1> HIDE DEF s, u
  <1>4. SplitTo(NoItems, s) \in SplitStates /\ SplitTo(NoItems, s \o u) = SplitTo(SplitTo(NoItems, s), u)
    BY <1>3, SplitOn
  <1> QED
    BY <1>2, <1>4 DEF s, u

\* Between two strings no item is begun.
LEMMA BetweenItems ==
    ASSUME NEW texts \in Seq(Seq(Tokens)), NEW k \in 1..Len(texts)
    PROVE  LET before == SplitTo(NoItems, Listed(texts)[k - 1])
           IN before \in SplitStates /\ before = Split(before.items, <<>>)
  <1> DEFINE before == SplitTo(NoItems, Listed(texts)[k - 1])
  <1>1. before \in SplitStates
    BY ListedSplits
  <1>2. before.item = <<>>
    <2>1. CASE k = 1
      <3>1. Listed(texts)[k - 1] = <<>>
        <4>1. Listed(texts)[0] = <<>>
          BY ListedSteps
        <4>2. k - 1 = 0
          BY <2>1
        <4> QED
          BY <4>1, <4>2
      <3>2. before = NoItems
        BY <3>1, SplitOfItems
      <3> QED
        BY <3>2 DEF NoItems, Split
    <2>2. CASE k # 1
      <3> DEFINE j == k - 1
                 earlier == SplitTo(NoItems, Listed(texts)[j - 1])
                 item == Cut(SplitTo(earlier, Literal(texts[j])))
      <3>1. j \in 1..Len(texts) /\ j < Len(texts)
        BY <2>2
      <3> HIDE DEF j
      <3>2. earlier \in SplitStates /\ SplitTo(NoItems, Listed(texts)[j]) = SplitTo(earlier, Separated(texts)[j])
        BY <3>1, ListedSplits
      <3> HIDE DEF earlier
      <3>3. SplitTo(earlier, Separated(texts)[j]) = Split(item, <<>>)
        BY <3>1, <3>2, SplitLiteral
      <3>4. before = Split(item, <<>>)
        BY <3>2, <3>3 DEF j
      <3> HIDE DEF before, item
      <3> QED
        BY <3>4, SplitParts
    <2> QED
      BY <2>1, <2>2
  <1> HIDE DEF before
  <1>3. before = Split(before.items, <<>>)
    <2>1. before = Split(before.items, before.item)
      BY <1>1, SplitSteps
    <2> QED
      BY <2>1, <1>2
  <1> QED
    BY <1>1, <1>3 DEF before

\* An array whose strings have no comma is split into them.
Literals(texts, k) == [i \in 1..k |-> Literal(texts[i])]
\* One literal more.
LEMMA LiteralsGrow ==
    ASSUME NEW texts \in Seq(Seq(Tokens)), NEW k \in 1..Len(texts)
    PROVE  /\ Literals(texts, k - 1) \in Seq(Seq(Tokens))
           /\ Literals(texts, k) = Append(Literals(texts, k - 1), Literal(texts[k]))
  <1> DEFINE fewer == Literals(texts, k - 1)
             L == Literal(texts[k])
             more == Append(fewer, L)
  <1>1. \A i \in 1..Len(texts) : Literal(texts[i]) \in Seq(Tokens)
    <2>1. \A i \in 1..Len(texts) : texts[i] \in Seq(Tokens)
      OBVIOUS
    <2> QED
      BY <2>1, LiteralHides
  <1>2. k \in Nat /\ k >= 1 /\ k <= Len(texts) /\ Len(texts) \in Nat
    OBVIOUS
  <1>3. fewer \in [1..k - 1 -> Seq(Tokens)] /\ \A i \in 1..k - 1 : fewer[i] = Literal(texts[i])
    BY <1>1, <1>2 DEF Literals
  <1>4. L \in Seq(Tokens)
    BY <1>1
  <1> HIDE DEF fewer
  <1>5. fewer \in Seq(Seq(Tokens)) /\ Len(fewer) = k - 1
    <2>1. k - 1 \in Nat
      BY <1>2
    <2> QED
      BY <1>3, <2>1
  <1> HIDE DEF L
  <1>6. /\ DOMAIN more = 1..k /\ more[k] = L /\ (\A i \in 1..k - 1 : more[i] = fewer[i])
        /\ more \in Seq(Seq(Tokens))
    BY <1>2, <1>4, <1>5
  <1> HIDE DEF more
  <1>7. \A i \in 1..k : more[i] = Literal(texts[i])
    BY <1>2, <1>3, <1>6 DEF L
  <1>8. more = [i \in DOMAIN more |-> more[i]]
    BY <1>6
  <1>9. more = Literals(texts, k)
    BY <1>6, <1>7, <1>8 DEF Literals
  <1> QED
    BY <1>5, <1>9 DEF more, fewer, L

\* Strings without a comma are the items of their array.
LEMMA PlainItems ==
    ASSUME NEW texts \in Seq(Seq(Tokens)), \A i \in 1..Len(texts) : CommaFree(texts[i]),
           NEW k \in 0..Len(texts)
    PROVE  Cut(SplitTo(NoItems, Listed(texts)[k])) = Literals(texts, k)
  <1> DEFINE n == Len(texts)
             At(i) == SplitTo(NoItems, Listed(texts)[i])
             H == {i \in Nat : Cut(At(i)) = Literals(texts, i)}
  <1>0. n \in Nat
    OBVIOUS
  <1>1. 0 \in H
    <2>1. At(0) = NoItems
      <3>1. Listed(texts)[0] = <<>>
        BY ListedSteps
      <3> QED
        BY <3>1, SplitOfItems
    <2>2. Cut(NoItems) = <<>> /\ Literals(texts, 0) = <<>>
      BY DEF NoItems, Split, Cut, Literals
    <2> QED
      BY <2>1, <2>2
  <1>2. ASSUME NEW i \in 0..n - 1, i \in H PROVE i + 1 \in H
    <2> DEFINE j == i + 1
               x == At(i)
               L == Literal(texts[j])
               y == SplitTo(x, L)
    <2>1. j \in 1..n /\ j - 1 = i /\ j \in Nat
      BY <1>0
    <2> HIDE DEF j
    <2>2. x \in SplitStates /\ x = Split(x.items, <<>>) /\ At(j) = SplitTo(x, Separated(texts)[j])
      BY <2>1, BetweenItems, ListedSplits
    <2>3. Cut(x) = Literals(texts, i)
      BY <1>2
    <2>4. texts[j] \in Seq(Tokens) /\ CommaFree(texts[j])
      BY <2>1
    <2>5. L \in Seq(Tokens) /\ L # <<>> /\ CommaFree(L)
      <3> DEFINE q == <<Quote>>
                 e == Escaped(texts[j])
      <3>1. e \in Seq(Tokens) /\ CommaFree(e)
        <4>1. Len(texts[j]) \in 0..Len(texts[j]) /\ \A m \in 1..Len(texts[j]) : texts[j][m] # Comma
          BY <2>4 DEF CommaFree
        <4> QED
          BY <4>1, <2>4, EscapingPlain, EscapingStep
      <3>2. q \in Seq(Tokens) /\ CommaFree(q)
        BY TokensAreDistinct DEF Delimiters, CommaFree
      <3>3. L = (q \o e) \o q
        BY DEF Literal
      <3> HIDE DEF q, e, L
      <3>4. q \o e \in Seq(Tokens) /\ CommaFree(q \o e)
        BY <3>1, <3>2, CommaFreeBoth, ConcatParts
      <3>5. L \in Seq(Tokens) /\ CommaFree(L)
        BY <3>2, <3>3, <3>4, CommaFreeBoth, ConcatParts
      <3>6. Len(L) # 0
        <4>1. Len(L) = Len(Escaped(texts[j])) + 2 /\ Len(Escaped(texts[j])) \in Nat
          BY <2>4, LiteralHides DEF L
        <4> QED
          BY <4>1
      <3> QED
        BY <3>5, <3>6
    <2> HIDE DEF x, L
    <2>6. y = Split(x.items, L)
      <3>1. y = Split(x.items, x.item \o L)
        BY <2>2, <2>5, SplitPlain
      <3>2. x.item = <<>>
        BY <2>2, SplitParts
      <3>3. <<>> \o L = L
        BY <2>5
      <3> QED
        BY <3>1, <3>2, <3>3
    <2>7. /\ y \in SplitStates
          /\ SplitTo(x, Separated(texts)[j]) = IF j < n THEN Split(Cut(y), <<>>) ELSE y
      BY <2>1, <2>2, SplitLiteral DEF L
    <2> HIDE DEF y
    <2>8. Cut(y) = Append(x.items, L)
      BY <2>5, <2>6, SplitParts DEF Cut
    <2>9. Cut(Split(Cut(y), <<>>)) = Cut(y)
      <3> DEFINE c == Cut(y)
      <3> HIDE DEF c
      <3>1. Cut(Split(c, <<>>)) = c
        BY SplitParts DEF Cut
      <3> QED
        BY <3>1 DEF c
    <2>10. Cut(At(j)) = Append(x.items, L)
      BY <2>2, <2>7, <2>8, <2>9
    <2>11. x.items = Literals(texts, i)
      <3>1. x.item = <<>>
        BY <2>2, SplitParts
      <3> QED
        BY <3>1, <2>3 DEF Cut
    <2>12. Literals(texts, j) = Append(Literals(texts, i), L)
      BY <2>1, LiteralsGrow DEF L
    <2>13. Cut(At(j)) = Literals(texts, j)
      BY <2>10, <2>11, <2>12
    <2> QED
      BY <2>1, <2>13 DEF j
  <1> HIDE DEF H
  <1>3. \A i \in 0..n : i \in H
    BY <1>0, <1>1, <1>2, Ops!UpTo
  <1> QED
    BY <1>3 DEF H

\* The first comma of a string cuts off an item that begins with the string's quote and
\* does not end with it.
Torn(text, j) == <<Quote>> \o Escaping(text)[j - 1]
\* A string without its closing quote.
Half(text) == <<Quote>> \o Escaped(text)

\* A part of a string as far as a comma is the start of the whole.
LEMMA TornBegins ==
    ASSUME NEW t \in Seq(Tokens), NEW j \in 1..Len(t), t[j] = Comma
    PROVE  /\ Torn(t, j) \in Seq(Tokens) /\ Torn(t, j) \o <<Comma>> \in Seq(Tokens)
           /\ Half(t) \in Seq(Tokens) /\ Begins(Torn(t, j) \o <<Comma>>, Half(t))
  <1> DEFINE q == <<Quote>>
             c == <<Comma>>
             e == Escaping(t)[j - 1]
             s == Escaped(t)
             piece == q \o e
  <1>1. q \in Seq(Tokens) /\ c \in Seq(Tokens)
    BY TokensAreDistinct DEF Delimiters
  <1> HIDE DEF q, c
  <1>2. e \in Seq(Tokens) /\ Escaping(t)[j] = e \o c
    <2>1. j \in 1..Len(t) /\ j - 1 \in 0..Len(t)
      OBVIOUS
    <2>2. EscapedToken(t[j]) = c
      BY TokensAreDistinct DEF EscapedToken, c
    <2> QED
      BY <2>1, <2>2, EscapingStep
  <1>3. Begins(e \o c, s) /\ s \in Seq(Tokens)
    <2>1. j \in 0..Len(t)
      OBVIOUS
    <2> QED
      BY <2>1, <1>2, EscapingGrows, LiteralHides
  <1> HIDE DEF e, s
  <1>4. piece \in Seq(Tokens) /\ piece \o c \in Seq(Tokens) /\ e \o c \in Seq(Tokens)
        /\ piece \o c = q \o (e \o c) /\ q \o s \in Seq(Tokens)
    <2>1. piece \in Seq(Tokens) /\ e \o c \in Seq(Tokens) /\ q \o s \in Seq(Tokens)
      BY <1>1, <1>2, <1>3, ConcatParts
    <2>2. piece \o c = q \o (e \o c)
      BY <1>1, <1>2, ConcatAssociates
    <2> HIDE DEF piece
    <2>3. piece \o c \in Seq(Tokens)
      BY <2>1, <1>1, ConcatParts
    <2> QED
      BY <2>1, <2>2, <2>3
  <1>5. Begins(q \o (e \o c), q \o s)
    BY <1>1, <1>3, <1>4, BeginsParts
  <1>6. Begins(piece \o c, q \o s)
    BY <1>4, <1>5
  <1> QED
    BY <1>4, <1>6 DEF Torn, Half, piece, q, c, e, s

\* A comma behind the strings of an array and a part of the next tears off an item that
\* has no closing quote.
LEMMA TearsOff ==
    ASSUME NEW texts \in Seq(Seq(Tokens)), NEW m \in 1..Len(texts), NEW j \in 1..Len(texts[m]) + 1,
           \A i \in 1..j - 1 : texts[m][i] # Comma, NEW all \in Seq(Tokens),
           Begins(Listed(texts)[m - 1] \o (Torn(texts[m], j) \o <<Comma>>), all)
    PROVE  Torn(texts[m], j) \in Range(SplitItems(all))
  <1> DEFINE t == texts[m]
             q == <<Quote>>
             c == <<Comma>>
             e == Escaping(t)[j - 1]
             piece == q \o e
             torn == piece \o c
             l == Listed(texts)[m - 1]
             x == SplitTo(NoItems, l)
  <1>0. t \in Seq(Tokens)
    OBVIOUS
  <1>1. q \in Seq(Tokens) /\ c \in Seq(Tokens) /\ CommaFree(q)
    BY TokensAreDistinct DEF Delimiters, CommaFree
  <1> HIDE DEF q, c
  <1> HIDE DEF t
  <1>2. e \in Seq(Tokens) /\ CommaFree(e)
    <2>1. j - 1 \in 0..Len(t) /\ \A i \in 1..j - 1 : t[i] # Comma
      BY <1>0 DEF t
    <2> QED
      BY <2>1, <1>0, EscapingStep, EscapingPlain
  <1>3. Torn(t, j) = piece
    BY DEF Torn, q
  <1> HIDE DEF e
  <1>4. piece \in Seq(Tokens) /\ torn \in Seq(Tokens) /\ CommaFree(piece)
    BY <1>1, <1>2, ConcatParts, CommaFreeBoth
  <1>5. Begins(l \o torn, all)
    BY <1>3 DEF t, c
  <1> HIDE DEF piece, torn
  <1>6. l \in Seq(Tokens) /\ l \o torn \in Seq(Tokens)
    <2>1. m - 1 \in 0..Len(texts)
      OBVIOUS
    <2>2. l \in Seq(Tokens)
      BY <2>1, ListedSteps
    <2> HIDE DEF l
    <2> QED
      BY <2>2, <1>4, ConcatParts
  <1>7. x \in SplitStates /\ x = Split(x.items, <<>>)
    BY BetweenItems
  <1> HIDE DEF l
  <1>8. PICK rest \in Seq(Tokens) : all = (l \o torn) \o rest
    BY <1>5 DEF Begins
  <1>9. SplitTo(NoItems, l \o torn) \in SplitStates
        /\ piece \in Range(SplitTo(NoItems, l \o torn).items)
    <2> DEFINE y == SplitTo(x, piece)
    <2>1. SplitTo(NoItems, l \o torn) = SplitTo(x, torn)
      BY <1>4, <1>6, SplitOn, SplitOfItems
    <2> HIDE DEF x
    <2>2. SplitTo(x, torn) = SplitTo(y, c) /\ y \in SplitStates
      BY <1>1, <1>4, <1>7, SplitOn DEF torn
    <2>3. y = Split(x.items, piece)
      <3>1. y = Split(x.items, x.item \o piece)
        BY <1>4, <1>7, SplitPlain
      <3>2. x.item = <<>>
        BY <1>7, SplitParts
      <3>3. <<>> \o piece = piece
        BY <1>4
      <3> QED
        BY <3>1, <3>2, <3>3
    <2> HIDE DEF y
    <2>4. SplitTo(y, c) = Split(Cut(y), <<>>)
      BY <2>2, SplitAtComma DEF c
    <2>5. Cut(y) = Append(x.items, piece)
      <3>1. piece # <<>>
        <4>1. Len(piece) = Len(q) + Len(e) /\ Len(q) = 1 /\ Len(e) \in Nat
          BY <1>1, <1>2, ConcatParts DEF piece, q
        <4> QED
          BY <4>1
      <3> QED
        BY <3>1, <2>3, SplitParts DEF Cut
    <2>6. piece \in Range(Append(x.items, piece))
      <3> DEFINE s == x.items
                 more == Append(s, piece)
      <3>1. s \in Seq(Seq(Tokens))
        BY <1>7, SplitSteps
      <3> HIDE DEF s
      <3>2. Len(s) + 1 \in DOMAIN more /\ more[Len(s) + 1] = piece
        BY <3>1
      <3> HIDE DEF more
      <3>3. piece \in Range(more)
        BY <3>2 DEF Range
      <3> QED
        BY <3>3 DEF more, s
    <2>7. SplitTo(NoItems, l \o torn) = Split(Cut(y), <<>>)
      BY <2>1, <2>2, <2>4
    <2>8. SplitTo(NoItems, l \o torn) \in SplitStates
      BY <1>6, SplitOn, SplitOfItems
    <2> QED
      BY <2>5, <2>6, <2>7, <2>8, SplitParts
  <1>10. SplitTo(NoItems, all) = SplitTo(SplitTo(NoItems, l \o torn), rest)
    BY <1>6, <1>8, SplitOn, SplitOfItems
  <1> DEFINE z == SplitTo(NoItems, l \o torn)
  <1>11. z \in SplitStates /\ piece \in Range(z.items)
    BY <1>9
  <1> HIDE DEF z
  <1>12. piece \in Range(Cut(SplitTo(z, rest)))
    BY <1>11, ItemsStay
  <1>13. SplitItems(all) = Cut(SplitTo(z, rest))
    BY <1>6, <1>10, SplitOfItems DEF z
  <1> QED
    BY <1>3, <1>12, <1>13 DEF t

\* The first comma in a string tears an item off that has no closing quote.
LEMMA CommaTears ==
    ASSUME NEW texts \in Seq(Seq(Tokens)), NEW m \in 1..Len(texts), NEW j \in 1..Len(texts[m]),
           texts[m][j] = Comma, \A i \in 1..j - 1 : texts[m][i] # Comma
    PROVE  Torn(texts[m], j) \in Range(SplitItems(Listed(texts)[Len(texts)]))
  <1> DEFINE t == texts[m]
             q == <<Quote>>
             torn == Torn(t, j) \o <<Comma>>
             l == Listed(texts)[m - 1]
             all == Listed(texts)[Len(texts)]
  <1>0. t \in Seq(Tokens) /\ q \in Seq(Tokens)
    BY TokensAreDistinct DEF Delimiters
  <1>1. /\ torn \in Seq(Tokens) /\ Half(t) \in Seq(Tokens) /\ Begins(torn, Half(t))
    BY <1>0, TornBegins
  <1> HIDE DEF torn
  <1>2. Begins(torn, Separated(texts)[m]) /\ Separated(texts)[m] \in Seq(Tokens)
    <2> DEFINE h == Half(t)
               end == IF m < Len(texts) THEN <<Comma>> ELSE <<>>
    <2>1. Separated(texts)[m] = (h \o q) \o end /\ Separated(texts)[m] \in Seq(Tokens)
      BY SeparatedItems DEF Literal, Half
    <2>2. end \in Seq(Tokens)
      BY TokensAreDistinct DEF Delimiters
    <2> HIDE DEF h, end, q
    <2>3. h \in Seq(Tokens) /\ h \o q \in Seq(Tokens)
      BY <1>0, <1>1, ConcatParts DEF h
    <2>4. Begins(torn, h \o q)
      BY <1>0, <1>1, <2>3, BeginsParts DEF h
    <2>5. Begins(torn, (h \o q) \o end)
      BY <1>1, <2>2, <2>3, <2>4, BeginsParts
    <2> QED
      BY <2>1, <2>5
  <1>3. all \in Seq(Tokens) /\ Begins(l \o torn, all)
    <2> DEFINE whole == Listed(texts)[m]
               s == Separated(texts)[m]
    <2>1. m - 1 \in 0..Len(texts) /\ m \in 0..Len(texts) /\ Len(texts) \in m..Len(texts)
          /\ Len(texts) \in 0..Len(texts)
      OBVIOUS
    <2>2. whole = l \o s /\ l \in Seq(Tokens) /\ whole \in Seq(Tokens) /\ all \in Seq(Tokens)
      BY <2>1, ListedSteps
    <2>3. Begins(whole, all)
      BY <2>1, ListedGrows DEF Begins
    <2> HIDE DEF l, all, whole, s
    <2>4. Begins(l \o torn, l \o s)
      <3>1. Begins(torn, s) /\ s \in Seq(Tokens)
        BY <1>2 DEF s
      <3> QED
        BY <3>1, <1>1, <2>2, BeginsParts
    <2>5. l \o torn \in Seq(Tokens)
      BY <1>1, <2>2, ConcatParts
    <2>6. Begins(l \o torn, whole)
      BY <2>2, <2>4
    <2> QED
      BY <2>2, <2>3, <2>5, <2>6, BeginsParts
  <1>4. j \in 1..Len(t) + 1
    BY <1>0
  <1> HIDE DEF all
  <1>5. Torn(texts[m], j) \in Range(SplitItems(all))
    BY <1>3, <1>4, TearsOff DEF torn, l, t
  <1> QED
    BY <1>5 DEF all

-----------------------------------------------------------------------------
(* Parsing a value is a recursion over shorter and shorter values.          *)

\* The items of an array are no longer than what is between its brackets.
LEMMA ItemsAreShorter ==
    ASSUME NEW s \in Seq(Tokens)
    PROVE  /\ SplitItems(s) \in Seq(Seq(Tokens))
           /\ \A k \in DOMAIN SplitItems(s) : Len(SplitItems(s)[k]) <= Len(s)
  <1> DEFINE n == Len(s)
             run == Run(SplitStep, NoItems, s)
             Small(x, k) == Len(x.item) <= k /\ \A i \in 1..Len(x.items) : Len(x.items[i]) <= n
             H == {k \in Nat : Small(run[k], k)}
  <1>0. n \in Nat /\ \A i \in 1..n : s[i] \in Tokens
    OBVIOUS
  <1>1. /\ run \in [0..n -> SplitStates] /\ run[0] = NoItems
        /\ \A i \in 1..n : run[i] = SplitStep[s[i]][run[i - 1]]
    BY SplitOfItems, SplitFrom
  <1> HIDE DEF run, n
  <1>2. ASSUME NEW x \in SplitStates, NEW k \in 0..n, Small(x, k)
        PROVE  /\ \A i \in 1..Len(Cut(x)) : Len(Cut(x)[i]) <= n
               /\ Cut(x) \in Seq(Seq(Tokens))
    <2> DEFINE t == x.items
               u == x.item
    <2>1. t \in Seq(Seq(Tokens)) /\ u \in Seq(Tokens) /\ Cut(x) = IF u = <<>> THEN t ELSE Append(t, u)
      BY SplitSteps DEF Cut
    <2>2. Len(u) <= n /\ \A i \in 1..Len(t) : Len(t[i]) <= n
      <3>1. Len(u) \in Nat /\ Len(u) <= k /\ k <= n
        BY <2>1, <1>0, <1>2
      <3> QED
        BY <3>1, <1>0, <1>2
    <2> HIDE DEF t, u
    <2>3. \A i \in 1..Len(Append(t, u)) : Len(Append(t, u)[i]) <= n
      BY <2>1, <2>2
    <2> QED
      BY <2>1, <2>2, <2>3
  <1>3. 0 \in H
    BY <1>1 DEF NoItems, Split
  <1>4. ASSUME NEW k \in 0..n - 1, k \in H PROVE k + 1 \in H
    <2> DEFINE x == run[k]
               y == run[k + 1]
               token == s[k + 1]
    <2>1. k + 1 \in 1..n /\ (k + 1) - 1 = k /\ k \in 0..n /\ k + 1 \in Nat
      BY <1>0
    <2>2. x \in SplitStates /\ Small(x, k) /\ token \in Tokens /\ y = SplitStep[token][x]
      BY <2>1, <1>0, <1>1, <1>4
    <2>3. x.item \in Seq(Tokens) /\ \A i \in 1..Len(Cut(x)) : Len(Cut(x)[i]) <= n
      BY <2>1, <2>2, <1>2, SplitSteps
    <2> HIDE DEF x, y, token
    <2>4. CASE token = Comma
      <3>1. y.item = <<>> /\ y.items = Cut(x)
        <4>1. y = Split(Cut(x), <<>>)
          BY <2>2, <2>4, SplitSteps
        <4> QED
          BY <4>1, SplitParts
      <3>2. Small(y, k + 1)
        BY <3>1, <2>1, <2>3
      <3> QED
        BY <3>2, <2>1 DEF y
    <2>5. CASE token # Comma
      <3>1. y.item = Append(x.item, token) /\ y.items = x.items
        <4>1. y = Split(x.items, Append(x.item, token))
          BY <2>2, <2>5, SplitSteps
        <4> QED
          BY <4>1, SplitParts
      <3>2. Len(Append(x.item, token)) = Len(x.item) + 1 /\ Len(x.item) \in Nat
        BY <2>3
      <3>3. Small(y, k + 1)
        BY <3>1, <3>2, <2>1, <2>2
      <3> QED
        BY <3>3, <2>1 DEF y
    <2> QED
      BY <2>4, <2>5
  <1> HIDE DEF H
  <1>5. \A k \in 0..n : k \in H
    BY <1>0, <1>3, <1>4, Ops!UpTo
  <1>6. Small(run[n], n) /\ run[n] \in SplitStates /\ n \in 0..n
    <2>1. n \in 0..n
      BY <1>0
    <2>2. n \in H
      BY <2>1, <1>5
    <2>3. run[n] \in SplitStates
      BY <2>1, <1>1
    <2> QED
      BY <2>1, <2>2, <2>3 DEF H
  <1>7. SplitItems(s) = Cut(run[n])
    BY SplitOfItems DEF SplitTo, run, n
  <1>8. /\ \A i \in 1..Len(Cut(run[n])) : Len(Cut(run[n])[i]) <= n
        /\ Cut(run[n]) \in Seq(Seq(Tokens))
    BY <1>2, <1>6
  <1> DEFINE items == SplitItems(s)
  <1>9. items \in Seq(Seq(Tokens)) /\ \A i \in 1..Len(items) : Len(items[i]) <= n
    BY <1>7, <1>8
  <1> HIDE DEF items
  <1>10. items \in Seq(Seq(Tokens)) /\ \A i \in DOMAIN items : Len(items[i]) <= n
    BY <1>9
  <1> QED
    BY <1>10 DEF items, n

\* What a value is, given what shorter ones are.
Parsed(f, value) ==
    IF ~StartsWith(value, Open) THEN ParseScalar(value)
    ELSE LET items == SplitItems(Inner(value))
             parsed == [k \in DOMAIN items |-> f[items[k]]]
         IN IF ~EndsWith(value, Close) \/ Malformed \in Range(parsed)
            THEN Malformed ELSE [kind |-> "array", items |-> parsed]

\* Parsing a value asks only how shorter ones are parsed.
LEMMA ParsedByShorter ==
    ASSUME NEW value \in Seq(Tokens), NEW f, NEW g,
           \A v \in Seq(Tokens) : Len(v) < Len(value) => f[v] = g[v]
    PROVE  Parsed(f, value) = Parsed(g, value)
  <1>1. CASE StartsWith(value, Open)
    <2> DEFINE items == SplitItems(Inner(value))
               left == [k \in DOMAIN items |-> f[items[k]]]
               right == [k \in DOMAIN items |-> g[items[k]]]
    <2>1. Inner(value) \in Seq(Tokens) /\ Len(Inner(value)) < Len(value)
      <3>1. Len(value) \in Nat /\ Len(value) # 0
        BY <1>1 DEF StartsWith
      <3> QED
        BY <3>1 DEF Inner
    <2>2. /\ \A k \in DOMAIN items : items[k] \in Seq(Tokens) /\ Len(items[k]) < Len(value)
      <3>1. items \in Seq(Seq(Tokens)) /\ \A k \in DOMAIN items : Len(items[k]) <= Len(Inner(value))
        BY <2>1, ItemsAreShorter
      <3>2. Len(Inner(value)) \in Nat /\ Len(value) \in Nat
        BY <2>1
      <3> HIDE DEF items
      <3>3. \A k \in DOMAIN items : items[k] \in Seq(Tokens)
        BY <3>1
      <3>4. \A k \in DOMAIN items : Len(items[k]) \in Nat
        BY <3>3
      <3> QED
        BY <2>1, <3>1, <3>2, <3>3, <3>4
    <2> HIDE DEF items
    <2>3. left = right
      BY <2>2
    <2> HIDE DEF left, right
    <2>4. /\ Parsed(f, value) = IF ~EndsWith(value, Close) \/ Malformed \in Range(left)
                                THEN Malformed ELSE [kind |-> "array", items |-> left]
          /\ Parsed(g, value) = IF ~EndsWith(value, Close) \/ Malformed \in Range(right)
                                THEN Malformed ELSE [kind |-> "array", items |-> right]
      BY <1>1, Zenon DEF Parsed, left, right, items
    <2> QED
      BY <2>3, <2>4
  <1>2. CASE ~StartsWith(value, Open)
    BY <1>2 DEF Parsed
  <1> QED
    BY <1>1, <1>2

ParsesUpTo(f, n) ==
    f = [value \in {v \in Seq(Tokens) : Len(v) <= n} |-> Parsed(f, value)]

\* For every length there is a parser for the values up to it.
LEMMA ParsedUpTo ==
    ASSUME NEW n \in Nat
    PROVE  \E f : ParsesUpTo(f, n)
  <1> DEFINE G == {k \in Nat : \E f : ParsesUpTo(f, k)}
             Upto(k) == {v \in Seq(Tokens) : Len(v) <= k}
  <1>0. \A v \in Seq(Tokens) : Len(v) \in Nat
    OBVIOUS
  <1>1. 0 \in G
    <2> DEFINE f == [value \in Upto(0) |-> Parsed(<<>>, value)]
    <2>1. ASSUME NEW value \in Upto(0) PROVE f[value] = Parsed(f, value)
      <3>1. value \in Seq(Tokens) /\ Len(value) <= 0 /\ f[value] = Parsed(<<>>, value)
        BY <2>1
      <3> HIDE DEF f
      <3> DEFINE none == <<>>
      <3> HIDE DEF none
      <3>2. \A v \in Seq(Tokens) : Len(v) < Len(value) => none[v] = f[v]
        BY <3>1, <1>0
      <3>3. Parsed(none, value) = Parsed(f, value)
        BY <3>1, <3>2, ParsedByShorter
      <3> QED
        BY <3>1, <3>3 DEF none
    <2>2. f = [value \in Upto(0) |-> f[value]]
      OBVIOUS
    <2> HIDE DEF f
    <2>3. f = [value \in Upto(0) |-> Parsed(f, value)]
      BY <2>1, <2>2
    <2>4. ParsesUpTo(f, 0)
      BY <2>3 DEF ParsesUpTo
    <2> QED
      BY <2>4
  <1>2. ASSUME NEW k \in 0..n - 1, k \in G PROVE k + 1 \in G
    <2>1. PICK f : ParsesUpTo(f, k)
      BY <1>2
    <2> DEFINE g == [value \in Upto(k + 1) |-> Parsed(f, value)]
    <2>2. \A value \in Upto(k) : f[value] = Parsed(f, value)
      BY <2>1 DEF ParsesUpTo
    <2>3. \A value \in Upto(k) : g[value] = f[value]
      <3>1. \A value \in Upto(k) : value \in Upto(k + 1)
        BY <1>0
      <3> QED
        BY <3>1, <2>2
    <2>4. ASSUME NEW value \in Upto(k + 1) PROVE g[value] = Parsed(g, value)
      <3>1. value \in Seq(Tokens) /\ Len(value) <= k + 1 /\ g[value] = Parsed(f, value)
        BY <2>4
      <3> HIDE DEF g
      <3>2. \A v \in Seq(Tokens) : Len(v) < Len(value) => f[v] = g[v]
        <4>1. \A v \in Seq(Tokens) : Len(v) < Len(value) => v \in Upto(k)
          BY <3>1, <1>0
        <4> QED
          BY <4>1, <2>3
      <3>3. Parsed(f, value) = Parsed(g, value)
        BY <3>1, <3>2, ParsedByShorter
      <3> QED
        BY <3>1, <3>3
    <2>5. g = [value \in Upto(k + 1) |-> g[value]]
      OBVIOUS
    <2> HIDE DEF g
    <2>6. g = [value \in Upto(k + 1) |-> Parsed(g, value)]
      BY <2>4, <2>5
    <2>7. ParsesUpTo(g, k + 1) /\ k + 1 \in Nat
      BY <2>6 DEF ParsesUpTo
    <2> QED
      BY <2>7
  <1> HIDE DEF G
  <1>3. \A k \in 0..n : k \in G
    BY <1>1, <1>2, Ops!UpTo
  <1>4. n \in G
    BY <1>3
  <1> QED
    BY <1>4 DEF G

\* Two such parsers agree.
LEMMA ParsingsAgree ==
    ASSUME NEW m \in Nat, NEW n \in Nat, m <= n, NEW f, NEW g, ParsesUpTo(f, m), ParsesUpTo(g, n),
           NEW v \in Seq(Tokens), Len(v) <= m
    PROVE  f[v] = g[v]
  <1> DEFINE Upto(k) == {u \in Seq(Tokens) : Len(u) <= k}
             H == {k \in Nat : k <= m => \A u \in Upto(k) : f[u] = g[u]}
  <1>0. \A u \in Seq(Tokens) : Len(u) \in Nat
    OBVIOUS
  <1>1. \A u \in Seq(Tokens) : Len(u) <= m => f[u] = Parsed(f, u) /\ g[u] = Parsed(g, u)
    <2>1. \A u \in Upto(m) : f[u] = Parsed(f, u)
      BY DEF ParsesUpTo
    <2>2. \A u \in Upto(n) : g[u] = Parsed(g, u)
      BY DEF ParsesUpTo
    <2> QED
      BY <2>1, <2>2, <1>0
  <1>2. ASSUME NEW u \in Seq(Tokens), Len(u) <= m,
               \A w \in Seq(Tokens) : Len(w) < Len(u) => f[w] = g[w]
        PROVE  f[u] = g[u]
    <2>1. Parsed(f, u) = Parsed(g, u)
      BY <1>2, ParsedByShorter
    <2> QED
      BY <2>1, <1>1, <1>2
  <1>3. 0 \in H
    <2> SUFFICES ASSUME NEW u \in Seq(Tokens), Len(u) <= 0 PROVE f[u] = g[u]
      OBVIOUS
    <2>1. \A w \in Seq(Tokens) : ~(Len(w) < Len(u))
      BY <1>0
    <2>2. Len(u) <= m
      BY <1>0
    <2> QED
      BY <2>1, <2>2, <1>2
  <1>4. ASSUME NEW k \in 0..m - 1, k \in H PROVE k + 1 \in H
    <2>1. \A u \in Seq(Tokens) : Len(u) <= k => f[u] = g[u]
      BY <1>4
    <2>2. ASSUME NEW u \in Seq(Tokens), Len(u) <= k + 1 PROVE f[u] = g[u]
      <3>1. \A w \in Seq(Tokens) : Len(w) < Len(u) => f[w] = g[w]
        <4>1. \A w \in Seq(Tokens) : Len(w) < Len(u) => Len(w) <= k
          BY <1>0, <2>2
        <4> QED
          BY <4>1, <2>1
      <3>2. Len(u) <= m
        BY <1>0, <2>2
      <3> QED
        BY <3>1, <3>2, <1>2
    <2> QED
      BY <2>2
  <1> HIDE DEF H
  <1>5. \A k \in 0..m : k \in H
    BY <1>3, <1>4, Ops!UpTo
  <1>6. m \in H
    BY <1>5
  <1> QED
    BY <1>6 DEF H

\* The recursion of _parse_value is well founded: it gives every value a meaning.
LEMMA ParseValueDefined ==
    \A value \in Seq(Tokens) : ParseValue[value] = Parsed(ParseValue, value)
  <1> DEFINE Level(n) == CHOOSE f : ParsesUpTo(f, n)
             F == [value \in Seq(Tokens) |-> Level(Len(value))[value]]
  <1>0. \A v \in Seq(Tokens) : Len(v) \in Nat
    OBVIOUS
  <1>1. \A n \in Nat : ParsesUpTo(Level(n), n)
    BY ParsedUpTo
  <1>2. \A v \in Seq(Tokens) : F[v] = Level(Len(v))[v]
    OBVIOUS
  <1> HIDE DEF Level
  <1>3. ASSUME NEW value \in Seq(Tokens) PROVE F[value] = Parsed(F, value)
    <2> DEFINE n == Len(value)
               f == Level(n)
    <2>1. n \in Nat /\ ParsesUpTo(f, n)
      BY <1>0, <1>1
    <2>2. f[value] = Parsed(f, value)
      <3>1. value \in {v \in Seq(Tokens) : Len(v) <= n}
        BY <2>1
      <3> HIDE DEF n, f
      <3> QED
        BY <2>1, <3>1 DEF ParsesUpTo
    <2> HIDE DEF F
    <2>3. ASSUME NEW v \in Seq(Tokens), Len(v) < n PROVE f[v] = F[v]
      <3> DEFINE m == Len(v)
                 g == Level(m)
      <3>1. m \in Nat /\ m <= n /\ ParsesUpTo(g, m) /\ Len(v) <= m
        BY <1>0, <1>1, <2>1, <2>3
      <3>2. F[v] = g[v]
        BY <1>2
      <3> HIDE DEF m, n, f, g
      <3>3. g[v] = f[v]
        BY <2>1, <3>1, ParsingsAgree
      <3> QED
        BY <3>2, <3>3
    <2> HIDE DEF f
    <2>4. Parsed(f, value) = Parsed(F, value)
      BY <2>3, ParsedByShorter
    <2>5. F[value] = f[value]
      BY <1>2 DEF f
    <2> QED
      BY <2>2, <2>4, <2>5
  <1>4. F = [value \in Seq(Tokens) |-> F[value]]
    OBVIOUS
  <1> HIDE DEF F
  <1>5. F = [value \in Seq(Tokens) |-> Parsed(F, value)]
    BY <1>3, <1>4
  <1> DEFINE C == CHOOSE f : f = [value \in Seq(Tokens) |-> Parsed(f, value)]
  <1>6. C = [value \in Seq(Tokens) |-> Parsed(C, value)]
    BY <1>5
  <1>7. ParseValue = C
    BY Zenon DEF ParseValue, Parsed
  <1> HIDE DEF C
  <1> QED
    BY <1>6, <1>7

-----------------------------------------------------------------------------
(* What the spelling of a value is read as.                                 *)


\* A string is not refused.
LEMMA StringIsWellFormed == \A text : String(text) # Malformed
  <1>1. \A text : String(text).kind = "string"
    BY DEF String
  <1>2. Malformed.kind = "malformed"
    BY DEF Malformed
  <1> QED
    BY <1>1, <1>2

\* How a text begins and ends.
LEMMA FirstTokens ==
    ASSUME NEW s \in Seq(Tokens), Len(s) # 0
    PROVE  \A token : /\ StartsWith(s, token) <=> s[1] = token
                      /\ EndsWith(s, token) <=> s[Len(s)] = token
  <1>1. s # <<>> /\ Head(s) = s[1] /\ Last(s) = s[Len(s)]
    BY DEF Last
  <1> QED
    BY <1>1 DEF StartsWith, EndsWith

\* What is between the first token and the last.
LEMMA InnerOf ==
    ASSUME NEW s \in Seq(Tokens), NEW u \in Tokens, NEW v \in Tokens
    PROVE  LET w == (<<u>> \o s) \o <<v>>
           IN /\ w \in Seq(Tokens) /\ Len(w) = Len(s) + 2 /\ w[1] = u /\ w[Len(w)] = v
              /\ Inner(w) = s
  <1> DEFINE a == <<u>>
             b == a \o s
             z == <<v>>
             w == b \o z
             n == Len(s)
  <1>1. a \in Seq(Tokens) /\ Len(a) = 1 /\ a[1] = u /\ z \in Seq(Tokens) /\ Len(z) = 1 /\ z[1] = v
        /\ n \in Nat
    OBVIOUS
  <1> HIDE DEF a, z, n
  <1>2. b \in Seq(Tokens) /\ Len(b) = n + 1 /\ b[1] = u /\ \A i \in 1..n : b[i + 1] = s[i]
    <2>1. /\ b \in Seq(Tokens) /\ Len(b) = Len(a) + Len(s)
          /\ \A i \in 1..Len(a) : b[i] = a[i]
          /\ \A i \in 1..Len(s) : b[Len(a) + i] = s[i]
      BY <1>1, ConcatParts
    <2> HIDE DEF b
    <2>2. b[1] = u /\ Len(s) = n
      BY <2>1, <1>1 DEF n
    <2> QED
      BY <2>1, <2>2, <1>1
  <1> HIDE DEF b
  <1>3. w \in Seq(Tokens) /\ Len(w) = n + 2 /\ w[1] = u /\ w[n + 2] = v
        /\ \A i \in 1..n : w[i + 1] = s[i]
    <2>0. /\ w \in Seq(Tokens) /\ Len(w) = Len(b) + Len(z)
          /\ \A i \in 1..Len(b) : w[i] = b[i]
          /\ \A i \in 1..Len(z) : w[Len(b) + i] = z[i]
      BY <1>1, <1>2, ConcatParts
    <2> HIDE DEF w
    <2>1. /\ w \in Seq(Tokens) /\ Len(w) = (n + 1) + 1
          /\ \A i \in 1..n + 1 : w[i] = b[i]
          /\ \A i \in 1..1 : w[(n + 1) + i] = z[i]
      BY <2>0, <1>1, <1>2
    <2>2. w[1] = u
      <3>1. 1 \in 1..n + 1
        BY <1>1
      <3> QED
        BY <3>1, <2>1, <1>2
    <2>3. w[n + 2] = v
      <3>1. w[(n + 1) + 1] = z[1] /\ (n + 1) + 1 = n + 2
        BY <2>1, <1>1
      <3> QED
        BY <3>1, <1>1
    <2>4. \A i \in 1..n : w[i + 1] = s[i]
      <3>1. \A i \in 1..n : i + 1 \in 1..n + 1
        BY <1>1
      <3> QED
        BY <3>1, <2>1, <1>2
    <2> QED
      BY <2>1, <2>2, <2>3, <2>4, <1>1
  <1> HIDE DEF w
  <1>4. Inner(w) = s
    <2> DEFINE p == SubSeq(w, 2, n + 1)
    <2>1. p \in Seq(Tokens) /\ Len(p) = n /\ \A i \in 1..n : p[i] = w[i + 1]
      BY <1>1, <1>3
    <2> HIDE DEF p
    <2>2. p = s
      BY <2>1, <1>3 DEF n
    <2>3. Inner(w) = p
      <3>1. Len(w) - 1 = n + 1
        BY <1>1, <1>3
      <3> QED
        BY <3>1 DEF Inner, p
    <2> QED
      BY <2>2, <2>3
  <1> QED
    BY <1>1, <1>3, <1>4 DEF w, b, a, z, n

\* A string, escapes and all, is read as the text it was written for, as far as that is
\* ASCII (_parse_value).
LEMMA LiteralParses ==
    ASSUME NEW text \in Seq(Tokens)
    PROVE  Literal(text) \in Seq(Tokens) /\ ParseValue[Literal(text)] = String(text)
  <1> DEFINE L == Literal(text)
             e == Escaped(text)
  <1>1. e \in Seq(Tokens) /\ Quote \in Tokens /\ Quote # Open
    BY LiteralHides, TokensAreDistinct DEF Delimiters
  <1>2. L = (<<Quote>> \o e) \o <<Quote>>
    BY DEF Literal
  <1>3. Decode(e) = String(text)
    BY DecodesEscaped
  <1> HIDE DEF L, e
  <1>4. L \in Seq(Tokens) /\ Len(L) = Len(e) + 2 /\ L[1] = Quote /\ L[Len(L)] = Quote /\ Inner(L) = e
    BY <1>1, <1>2, InnerOf
  <1>5. Len(L) >= 2 /\ Len(L) # 0 /\ Len(L) \in Nat
    BY <1>1, <1>4
  <1>6. StartsWith(L, Quote) /\ EndsWith(L, Quote) /\ ~StartsWith(L, Open)
    BY <1>1, <1>4, <1>5, FirstTokens
  <1>7. ParseScalar(L) = String(text)
    BY <1>3, <1>4, <1>5, <1>6 DEF ParseScalar
  <1>8. Parsed(ParseValue, L) = String(text)
    BY <1>6, <1>7 DEF Parsed
  <1> QED
    BY <1>4, <1>8, ParseValueDefined DEF L

\* A string without its end is no value.
LEMMA TornIsMalformed ==
    ASSUME NEW text \in Seq(Tokens), NEW j \in 1..Len(text) + 1
    PROVE  Torn(text, j) \in Seq(Tokens) /\ ParseValue[Torn(text, j)] = Malformed
  <1> DEFINE e == Escaping(text)[j - 1]
             q == <<Quote>>
             piece == q \o e
  <1>0. j - 1 \in 0..Len(text) /\ Quote \in Tokens /\ Escape \in Tokens /\ Quote # Open
        /\ Quote # Escape
    BY TokensAreDistinct DEF Delimiters
  <1>1. e \in Seq(Tokens) /\ q \in Seq(Tokens) /\ Len(q) = 1 /\ q[1] = Quote
    <2>1. e \in Seq(Tokens)
      BY <1>0, EscapingStep
    <2>2. q \in Seq(Tokens) /\ Len(q) = 1 /\ q[1] = Quote
      BY <1>0
    <2> QED
      BY <2>1, <2>2
  <1>2. piece = Torn(text, j)
    BY DEF Torn
  <1>3. j # 1 => /\ j - 1 \in 1..Len(text) /\ (j - 1) - 1 \in 0..Len(text) /\ text[j - 1] \in Tokens
                 /\ e = Escaping(text)[(j - 1) - 1] \o EscapedToken(text[j - 1])
                 /\ Escaping(text)[(j - 1) - 1] \in Seq(Tokens)
    <2> SUFFICES ASSUME j # 1
                 PROVE  /\ j - 1 \in 1..Len(text) /\ (j - 1) - 1 \in 0..Len(text)
                        /\ text[j - 1] \in Tokens
                        /\ e = Escaping(text)[(j - 1) - 1] \o EscapedToken(text[j - 1])
                        /\ Escaping(text)[(j - 1) - 1] \in Seq(Tokens)
      OBVIOUS
    <2>1. j - 1 \in 1..Len(text) /\ (j - 1) - 1 \in 0..Len(text) /\ text[j - 1] \in Tokens
      OBVIOUS
    <2> QED
      BY <2>1, EscapingStep
  <1>4. j = 1 => e = <<>>
    <2>1. Escaping(text)[0] = <<>>
      BY EscapingStep
    <2>2. j = 1 => j - 1 = 0
      OBVIOUS
    <2> QED
      BY <2>1, <2>2
  <1> HIDE DEF e, q
  <1>5. piece \in Seq(Tokens) /\ Len(piece) = Len(e) + 1 /\ Len(e) \in Nat /\ piece[1] = Quote
    <2>1. /\ piece \in Seq(Tokens) /\ Len(piece) = Len(q) + Len(e)
          /\ \A i \in 1..Len(q) : piece[i] = q[i]
      BY <1>1, ConcatParts
    <2>2. Len(e) \in Nat /\ 1 \in 1..Len(q)
      BY <1>1
    <2> HIDE DEF piece
    <2> QED
      BY <2>1, <2>2, <1>1
  <1> HIDE DEF piece
  <1>6. StartsWith(piece, Quote) /\ ~StartsWith(piece, Open)
    BY <1>0, <1>5, FirstTokens
  <1>7. CASE j = 1
    <2>1. Len(piece) < 2
      BY <1>4, <1>5, <1>7
    <2> QED
      BY <2>1, <1>2, <1>5, <1>6, ParseValueDefined DEF Parsed, ParseScalar
  <1>8. CASE j # 1
    <2> DEFINE before == Escaping(text)[(j - 1) - 1]
               token == text[j - 1]
               b == q \o before
    <2>1. /\ (j - 1) - 1 \in 0..Len(text) /\ token \in Tokens
          /\ e = before \o EscapedToken(token) /\ before \in Seq(Tokens)
      BY <1>3, <1>8
    <2>2. Decode(before \o <<Escape>>) = Malformed
      BY <2>1, DanglingEscape
    <2> HIDE DEF before, token
    <2>3. CASE token = Quote
      <3> DEFINE inner == before \o <<Escape>>
      <3>1. EscapedToken(token) = <<Escape>> \o <<Quote>>
        BY <2>3 DEF EscapedToken
      <3>2. inner \in Seq(Tokens) /\ <<Escape>> \in Seq(Tokens) /\ <<Quote>> \in Seq(Tokens)
        BY <2>1, <1>0
      <3>3. e = inner \o <<Quote>>
        <4> DEFINE x == <<Escape>>
                   y == <<Quote>>
        <4>1. x \in Seq(Tokens) /\ y \in Seq(Tokens)
          BY <3>2
        <4> HIDE DEF x, y
        <4>2. before \o (x \o y) = (before \o x) \o y
          BY <4>1, <2>1, ConcatAssociates
        <4> QED
          BY <4>2, <2>1, <3>1 DEF x, y
      <3> HIDE DEF inner
      <3>4. piece = (<<Quote>> \o inner) \o <<Quote>>
        <4> DEFINE y == <<Quote>>
        <4>1. y \in Seq(Tokens)
          BY <3>2
        <4> HIDE DEF y
        <4>2. y \o (inner \o y) = (y \o inner) \o y
          BY <4>1, <3>2, ConcatAssociates
        <4> QED
          BY <4>2, <3>3 DEF y, piece, q
      <3>5. Inner(piece) = inner
        BY <3>2, <3>4, <1>0, InnerOf
      <3>6. ParseScalar(piece) = Malformed
        BY <3>5, <2>2, <1>6 DEF ParseScalar, inner
      <3> QED
        BY <3>6, <1>2, <1>5, <1>6, ParseValueDefined DEF Parsed
    <2>4. CASE token # Quote
      <3> DEFINE x == EscapedToken(token)
      <3>1. x \in Seq(Tokens) /\ Len(x) \in Nat /\ Len(x) # 0 /\ x[Len(x)] # Quote
        <4>1. x \in Seq(Tokens)
          BY <2>1, EscapedTokenStaysInside
        <4>2. x = <<Escape, token>> \/ x = <<token>>
          BY DEF EscapedToken
        <4>3. CASE x = <<Escape, token>>
          <5>1. Len(<<Escape, token>>) = 2 /\ <<Escape, token>>[2] = token
            OBVIOUS
          <5> QED
            BY <5>1, <4>1, <4>3, <2>4
        <4>4. CASE x = <<token>>
          <5>1. Len(<<token>>) = 1 /\ <<token>>[1] = token
            OBVIOUS
          <5> QED
            BY <5>1, <4>1, <4>4, <2>4
        <4> QED
          BY <4>2, <4>3, <4>4
      <3> HIDE DEF x
      <3>2. Len(e) = Len(before) + Len(x) /\ e[Len(before) + Len(x)] = x[Len(x)]
        <4>1. /\ Len(before \o x) = Len(before) + Len(x)
              /\ \A i \in 1..Len(x) : (before \o x)[Len(before) + i] = x[i]
          BY <2>1, <3>1, ConcatParts
        <4>2. Len(x) \in 1..Len(x) /\ e = before \o x
          BY <2>1, <3>1 DEF x
        <4> QED
          BY <4>1, <4>2
      <3>3. piece[Len(piece)] = e[Len(e)]
        <4>1. \A i \in 1..Len(e) : piece[Len(q) + i] = e[i]
          BY <1>1, ConcatParts DEF piece
        <4>2. Len(e) \in 1..Len(e) /\ Len(q) + Len(e) = Len(piece)
          <5>1. Len(before) \in Nat /\ Len(x) \in Nat /\ Len(x) # 0 /\ Len(e) = Len(before) + Len(x)
            BY <3>1, <3>2, <2>1
          <5> QED
            BY <5>1, <1>1, <1>5
        <4> QED
          BY <4>1, <4>2
      <3>4. ~EndsWith(piece, Quote)
        <4>1. piece[Len(piece)] # Quote /\ Len(piece) # 0
          BY <3>1, <3>2, <3>3, <1>5
        <4> QED
          BY <4>1, <1>5, FirstTokens
      <3>5. ParseScalar(piece) = Malformed
        BY <3>4, <1>6 DEF ParseScalar
      <3> QED
        BY <3>5, <1>2, <1>5, <1>6, ParseValueDefined DEF Parsed
    <2> QED
      BY <2>3, <2>4
  <1> QED
    BY <1>7, <1>8

\* What the value of an assignment is read as.
Value(a) ==
    CASE a.kind = "text" -> String(a.value)
      [] a.kind = "number" -> [kind |-> "bare", text |-> <<a.word>>]
      [] a.kind = "array" -> [kind |-> "array", items |-> [k \in 1..Len(a.value) |-> String(a.value[k])]]

WholeArray(texts) == <<Open>> \o Listed(texts)[Len(texts)] \o <<Close>>

\* An array is parsed as its items are.
LEMMA ArrayParses ==
    ASSUME NEW texts \in Seq(Seq(Tokens))
    PROVE  LET items == SplitItems(Listed(texts)[Len(texts)])
               parsed == [k \in DOMAIN items |-> ParseValue[items[k]]]
           IN /\ WholeArray(texts) \in Seq(Tokens)
              /\ ParseValue[WholeArray(texts)] =
                    IF Malformed \in Range(parsed) THEN Malformed
                    ELSE [kind |-> "array", items |-> parsed]
  <1> DEFINE l == Listed(texts)[Len(texts)]
             w == (<<Open>> \o l) \o <<Close>>
             items == SplitItems(Inner(w))
             parsed == [k \in DOMAIN items |-> ParseValue[items[k]]]
  <1>1. l \in Seq(Tokens) /\ Open \in Tokens /\ Close \in Tokens
    <2>1. Len(texts) \in 0..Len(texts)
      OBVIOUS
    <2> QED
      BY <2>1, ListedSteps, TokensAreDistinct DEF Delimiters
  <1>2. w = WholeArray(texts)
    BY DEF WholeArray
  <1> HIDE DEF l
  <1>3. w \in Seq(Tokens) /\ Len(w) = Len(l) + 2 /\ w[1] = Open /\ w[Len(w)] = Close /\ Inner(w) = l
    BY <1>1, InnerOf
  <1> HIDE DEF w
  <1>4. Len(w) # 0
    BY <1>1, <1>3
  <1>5. StartsWith(w, Open) /\ EndsWith(w, Close)
    BY <1>3, <1>4, FirstTokens
  <1>6. ParseValue[w] = Parsed(ParseValue, w)
    BY <1>3, ParseValueDefined
  <1>7. Parsed(ParseValue, w) = IF ~EndsWith(w, Close) \/ Malformed \in Range(parsed)
                                THEN Malformed ELSE [kind |-> "array", items |-> parsed]
    BY <1>5, Zenon DEF Parsed
  <1> QED
    BY <1>2, <1>3, <1>5, <1>6, <1>7 DEF l

\* A value is read as what was meant, its texts token by token as unicode_escape leaves
\* them (an ASCII text as it is), except that an array with a comma in one of its
\* strings is refused (_parse_value).
THEOREM ValueParses ==
    ASSUME NEW a, Meaningful(a)
    PROVE  ParseValue[Spelling(a, Pieces(a))] =
                IF a.kind = "array" /\ HasComma(a.value) THEN Malformed ELSE Value(a)
  <1> DEFINE s == Spelling(a, Pieces(a))
  <1>1. CASE a.kind = "text"
    <2>1. a.value \in Seq(Tokens) /\ s = Literal(a.value)
      BY <1>1, KindsOfValues
    <2>2. Value(a) = String(a.value)
      BY <1>1 DEF Value
    <2>3. a.kind # "array"
      BY <1>1
    <2> HIDE DEF s
    <2>4. ParseValue[s] = String(a.value)
      BY <2>1, LiteralParses
    <2> QED
      BY <2>2, <2>3, <2>4 DEF s
  <1>2. CASE a.kind = "number"
    <2> DEFINE v == <<a.word>>
    <2>1. a.word \in Words /\ s = v
      BY <1>2, KindsOfValues
    <2>2. a.word \in Tokens /\ a.word # Quote /\ a.word # Open
      BY <2>1, TokensAreDistinct DEF Delimiters
    <2>3. v \in Seq(Tokens) /\ Len(v) = 1 /\ v[1] = a.word
      BY <2>2
    <2>4. Value(a) = [kind |-> "bare", text |-> v] /\ a.kind # "array"
      BY <1>2 DEF Value
    <2> HIDE DEF s, v
    <2>5. ~StartsWith(v, Quote) /\ ~StartsWith(v, Open)
      BY <2>2, <2>3, FirstTokens, SMTT(40)
    <2>6. ParseValue[v] = [kind |-> "bare", text |-> v]
      BY <2>3, <2>5, ParseValueDefined DEF Parsed, ParseScalar
    <2> QED
      BY <2>1, <2>4, <2>6 DEF s
  <1>3. CASE a.kind = "array"
    <2> DEFINE texts == a.value
               n == Len(texts)
               items == SplitItems(Listed(texts)[n])
               parsed == [k \in DOMAIN items |-> ParseValue[items[k]]]
    <2>1. texts \in Seq(Seq(Tokens)) /\ s = WholeArray(texts)
      BY <1>3, KindsOfValues DEF WholeArray
    <2>2. Value(a) = [kind |-> "array", items |-> [k \in 1..n |-> String(texts[k])]]
      BY <1>3 DEF Value
    <2> HIDE DEF s, texts
    <2>3. ParseValue[s] = IF Malformed \in Range(parsed) THEN Malformed
                          ELSE [kind |-> "array", items |-> parsed]
      BY <2>1, ArrayParses
    <2>4. n \in Nat /\ n \in 0..n /\ \A k \in 1..n : texts[k] \in Seq(Tokens)
      BY <2>1
    <2>5. HasComma(texts) <=> \E k \in 1..n : ~CommaFree(texts[k])
      <3>1. DOMAIN texts = 1..n
        BY <2>1
      <3>2. \A u : Contains(u, Comma) <=> ~CommaFree(u)
        BY DEF Contains, CommaFree
      <3> HIDE DEF n
      <3> QED
        BY <3>1, <3>2 DEF HasComma
    <2>6. CASE HasComma(texts)
      <3>1. PICK m \in 1..n : ~CommaFree(texts[m])
        BY <2>5, <2>6
      <3> DEFINE t == texts[m]
                 T == {i \in 1..Len(t) : t[i] = Comma}
      <3>2. t \in Seq(Tokens) /\ T # {} /\ T \in SUBSET Nat
        BY <2>4, <3>1 DEF CommaFree
      <3>3. PICK j \in T : \A i \in T : j <= i
        BY <3>2, Ops!LeastNatural
      <3>4. j \in 1..Len(t) /\ t[j] = Comma /\ \A i \in 1..j - 1 : t[i] # Comma
        <4>1. \A i \in 1..j - 1 : i \in 1..Len(t) /\ ~(j <= i)
          BY <3>2, <3>3
        <4> QED
          BY <4>1, <3>3
      <3> DEFINE piece == Torn(t, j)
      <3> HIDE DEF T, t
      <3>5. piece \in Range(items)
        BY <3>4, <2>1, CommaTears DEF t
      <3>6. ParseValue[piece] = Malformed
        BY <3>2, <3>4, TornIsMalformed
      <3> HIDE DEF piece, items
      <3>7. PICK k \in DOMAIN items : items[k] = piece
        BY <3>5, Zenon DEF Range
      <3>8. k \in DOMAIN parsed /\ parsed[k] = Malformed
        BY <3>6, <3>7
      <3> HIDE DEF parsed
      <3>9. Malformed \in Range(parsed)
        BY <3>8 DEF Range
      <3> QED
        BY <1>3, <2>3, <2>6, <3>9 DEF s, texts
    <2>7. CASE ~HasComma(texts)
      <3>1. \A k \in 1..n : CommaFree(texts[k])
        BY <2>5, <2>7
      <3>2. items = Literals(texts, n)
        <4>1. Cut(SplitTo(NoItems, Listed(texts)[n])) = Literals(texts, n)
          BY <2>1, <2>4, <3>1, PlainItems
        <4>2. Listed(texts)[n] \in Seq(Tokens)
          BY <2>1, <2>4, ListedSteps
        <4> QED
          BY <4>1, <4>2, SplitOfItems
      <3>3. DOMAIN items = 1..n /\ \A k \in 1..n : items[k] = Literal(texts[k])
        BY <3>2 DEF Literals
      <3> HIDE DEF items, n
      <3>4. \A k \in 1..n : ParseValue[items[k]] = String(texts[k])
        BY <2>4, <3>3, LiteralParses
      <3>5. parsed = [k \in 1..n |-> String(texts[k])]
        BY <3>3, <3>4
      <3>6. Malformed \notin Range(parsed)
        <4> SUFFICES ASSUME NEW k \in DOMAIN parsed, parsed[k] = Malformed PROVE FALSE
          BY DEF Range
        <4>1. k \in 1..n /\ parsed[k] = String(texts[k])
          BY <3>5
        <4> QED
          BY <4>1, StringIsWellFormed
      <3> HIDE DEF parsed
      <3> QED
        BY <2>2, <2>3, <2>7, <3>5, <3>6 DEF s, texts
    <2> QED
      BY <2>6, <2>7
  <1> QED
    BY <1>1, <1>2, <1>3, KindsOfValues

\* What an author means is not refused, and an array only if he means one.
LEMMA ValueIsWellFormed ==
    ASSUME NEW a, Meaningful(a)
    PROVE  Value(a) # Malformed /\ (Value(a).kind = "array" <=> a.kind = "array")
  <1>1. Malformed.kind = "malformed"
    BY DEF Malformed
  <1>2. a.kind = "text" => Value(a).kind = "string"
    BY DEF Value, String
  <1>3. a.kind = "number" => Value(a).kind = "bare"
    BY DEF Value
  <1>4. a.kind = "array" => Value(a).kind = "array"
    BY DEF Value
  <1> QED
    BY <1>1, <1>2, <1>3, <1>4, KindsOfValues

-----------------------------------------------------------------------------
(* Lines.                                                                   *)

\* A header is seen as one, with the path it names.
LEMMA HeaderScans ==
    ASSUME NEW path \in Seq(Words)
    PROVE  LET code == <<Open>> \o path \o <<Close>>
           IN /\ code \in Seq(Tokens) /\ Hides(code, {Hash})
              /\ IsHeader(code) /\ Inner(code) = path
  <1> DEFINE a == <<Open>>
             z == <<Close>>
             code == (a \o path) \o z
  <1>1. Open \in Tokens /\ Close \in Tokens /\ path \in Seq(Tokens)
        /\ Open # Quote /\ Open # Hash /\ Close # Quote /\ Close # Hash
        /\ Quote \notin Words /\ Hash \notin Words
    BY TokensAreDistinct DEF Delimiters
  <1>2. a \in Seq(Tokens) /\ z \in Seq(Tokens) /\ Hides(a, {Hash}) /\ Hides(z, {Hash})
    <2>1. a \in Seq(Tokens) /\ z \in Seq(Tokens)
      BY <1>1
    <2>2. \A x \in Tokens : x # Quote /\ x \notin {Hash} => Hides(<<x>>, {Hash})
      BY SmallHides
    <2> QED
      BY <2>1, <2>2, <1>1, Zenon
  <1>3. Hides(path, {Hash})
    <2>1. \A i \in 1..Len(path) : path[i] # Quote /\ path[i] \notin {Hash}
      <3>1. \A i \in 1..Len(path) : path[i] \in Words
        OBVIOUS
      <3> QED
        BY <3>1, <1>1
    <2> QED
      BY <2>1, <1>1, PlainHides
  <1>4. code \in Seq(Tokens) /\ Len(code) = Len(path) + 2 /\ code[1] = Open
        /\ code[Len(code)] = Close /\ Inner(code) = path
    BY <1>1, InnerOf
  <1> HIDE DEF a, z
  <1>5. a \o path \in Seq(Tokens) /\ Hides(a \o path, {Hash})
    BY <1>1, <1>2, <1>3, ConcatParts, HidesBoth
  <1> DEFINE b == a \o path
  <1>6. b \in Seq(Tokens) /\ Hides(b, {Hash}) /\ code = b \o z
    BY <1>5
  <1> HIDE DEF b, code
  <1>7. Hides(code, {Hash})
    BY <1>2, <1>6, HidesBoth
  <1>8. IsHeader(code)
    <2>1. Len(code) # 0
      <3>1. Len(path) \in Nat
        OBVIOUS
      <3> QED
        BY <3>1, <1>4
    <2> QED
      BY <2>1, <1>4, FirstTokens DEF IsHeader
  <1> QED
    BY <1>4, <1>7, <1>8 DEF code, a, z

\* The first line of an assignment is no header, whatever its value looks like; its first
\* equals sign ends the name.
LEMMA AssignmentSays ==
    ASSUME NEW word \in Words, NEW y \in Seq(Tokens)
    PROVE  LET code == <<word, Equals>> \o y
           IN /\ code \in Seq(Tokens)
              /\ ~IsHeader(code) /\ Contains(code, Equals) /\ FirstEquals(code) = 2
              /\ SubSeq(code, 1, 1) = <<word>> /\ SubSeq(code, 3, Len(code)) = y
  <1> DEFINE a == <<word, Equals>>
             code == a \o y
  <1>1. /\ word \in Tokens /\ Equals \in Tokens /\ word # Open /\ word # Equals
    BY TokensAreDistinct DEF Delimiters
  <1>2. a \in Seq(Tokens) /\ Len(a) = 2 /\ a[1] = word /\ a[2] = Equals
    BY <1>1
  <1> HIDE DEF a
  <1>4. code \in Seq(Tokens) /\ Len(code) = 2 + Len(y) /\ code[1] = word /\ code[2] = Equals
        /\ \A i \in 1..Len(y) : code[2 + i] = y[i]
    <2>1. /\ code \in Seq(Tokens) /\ Len(code) = Len(a) + Len(y)
          /\ \A i \in 1..Len(a) : code[i] = a[i]
          /\ \A i \in 1..Len(y) : code[Len(a) + i] = y[i]
      BY <1>2, ConcatParts
    <2> HIDE DEF code
    <2>2. 1 \in 1..Len(a) /\ 2 \in 1..Len(a)
      BY <1>2
    <2> QED
      BY <2>1, <2>2, <1>2
  <1> HIDE DEF code
  <1>6. Len(code) # 0 /\ Len(code) \in Nat /\ Len(code) >= 2 /\ Len(y) \in Nat
        /\ DOMAIN code = 1..Len(code)
    BY <1>4
  <1>7. ~IsHeader(code)
    BY <1>1, <1>4, <1>6, FirstTokens DEF IsHeader
  <1>8. Contains(code, Equals)
    BY <1>4, <1>6 DEF Contains
  <1>9. FirstEquals(code) = 2
    <2> DEFINE T == {i \in DOMAIN code : code[i] = Equals}
    <2>1. T \in SUBSET Nat /\ 2 \in T /\ \A i \in T : 2 <= i
      BY <1>1, <1>4, <1>6
    <2> HIDE DEF T
    <2>2. Min(T) = 2
      BY <2>1, MinIs
    <2> QED
      BY <2>2 DEF FirstEquals, T
  <1>10. SubSeq(code, 1, 1) = <<word>>
    <2> DEFINE p == SubSeq(code, 1, 1)
               v == <<word>>
    <2>1. p \in Seq(Tokens) /\ Len(p) = 1 /\ p[1] = code[1]
      BY <1>4, <1>6
    <2>2. v \in Seq(Tokens) /\ Len(v) = 1 /\ v[1] = word
      BY <1>1
    <2> HIDE DEF p, v
    <2>3. p = v
      BY <2>1, <2>2, <1>4
    <2> QED
      BY <2>3 DEF p, v
  <1>11. SubSeq(code, 3, Len(code)) = y
    <2> DEFINE p == SubSeq(code, 3, Len(code))
    <2>1. p \in Seq(Tokens) /\ Len(p) = Len(y) /\ \A i \in 1..Len(y) : p[i] = code[i + 2]
      BY <1>4, <1>6
    <2> HIDE DEF p
    <2>2. \A i \in 1..Len(y) : p[i] = y[i]
      BY <2>1, <1>4
    <2>3. p = y
      BY <2>1, <2>2
    <2> QED
      BY <2>3 DEF p
  <1> QED
    BY <1>4, <1>7, <1>8, <1>9, <1>10, <1>11 DEF code, a

\* And nothing of it is a comment if nothing of the value is.
LEMMA AssignmentScans ==
    ASSUME NEW word \in Words, NEW s \in Seq(Tokens), Hides(s, {Hash})
    PROVE  LET code == <<word, Equals>> \o s
           IN /\ code \in Seq(Tokens) /\ Hides(code, {Hash})
              /\ ~IsHeader(code) /\ Contains(code, Equals) /\ FirstEquals(code) = 2
              /\ SubSeq(code, 1, 1) = <<word>> /\ SubSeq(code, 3, Len(code)) = s
  <1> DEFINE a == <<word, Equals>>
  <1>1. \A t \in {word, Equals} : t \in Tokens /\ t # Quote /\ t \notin {Hash}
    BY TokensAreDistinct DEF Delimiters
  <1>2. a \in Seq(Tokens) /\ \A i \in 1..Len(a) : a[i] # Quote /\ a[i] \notin {Hash}
    BY <1>1
  <1> HIDE DEF a
  <1>3. Hides(a, {Hash})
    BY <1>2, PlainHides
  <1>4. Hides(a \o s, {Hash})
    BY <1>2, <1>3, HidesBoth
  <1> QED
    BY <1>4, AssignmentSays DEF a

\* An empty line is neither header nor assignment.
LEMMA BlankScans ==
    /\ <<>> \in Seq(Tokens) /\ Hides(<<>>, {Hash})
    /\ ~IsHeader(<<>>) /\ ~Contains(<<>>, Equals)
  BY SmallHides DEF IsHeader, StartsWith, Contains

\* What the code of a line says, of the four kinds.
SaysNothing(before, after, code) == after = before /\ code = <<>>
SaysHeader(d, before, after, code) ==
    /\ Complete(d, before) /\ before.of + 1 \in DOMAIN d.means
    /\ after.of = before.of /\ Complete(d, after)
    /\ after.section = Front(d.means[before.of + 1].path)
    /\ code = <<Open>> \o after.section \o <<Close>>
    /\ IsHeader(code) /\ Inner(code) = after.section
SaysFirst(d, before, after, code) ==
    LET a == d.means[after.of] IN
    /\ Complete(d, before) /\ after.of = before.of + 1 /\ after.of \in DOMAIN d.means
    /\ after.section = before.section /\ after.section = Front(a.path)
    /\ after.upto \in 1..Pieces(a)
    /\ code = <<Last(a.path), Equals>> \o Spelling(a, after.upto)
    /\ ~IsHeader(code) /\ Contains(code, Equals) /\ FirstEquals(code) = 2
    /\ SubSeq(code, 1, 1) = <<Last(a.path)>>
    /\ SubSeq(code, 3, Len(code)) = Spelling(a, after.upto)
SaysMore(d, before, after, code) ==
    LET a == d.means[after.of] IN
    /\ ~Complete(d, before) /\ after.of = before.of /\ after.section = before.section
    /\ before.upto \in 1..Pieces(a) =>
          /\ after.upto \in 1..Pieces(a)
          /\ Spelling(a, before.upto) \o code = Spelling(a, after.upto)

\* Every value has a piece.
LEMMA PiecesAreCounted ==
    ASSUME NEW a, Meaningful(a)
    PROVE  Pieces(a) \in Nat /\ Pieces(a) >= 1
  BY KindsOfValues

\* A path is a section and a name.
LEMMA PathParts ==
    ASSUME NEW path \in Seq(Words) \ {<<>>}
    PROVE  /\ Last(path) \in Words /\ Front(path) \in Seq(Words)
           /\ Front(path) \o <<Last(path)>> = path
           /\ Len(Front(path)) = Len(path) - 1
  <1>1. Len(path) \in Nat /\ Len(path) # 0
    OBVIOUS
  <1> QED
    BY <1>1 DEF Last, Front

\* The outline of a file points into what it means.
LEMMA OutlineTyped ==
    ASSUME NEW d, Written(d), NEW n \in 0..Len(d.text)
    PROVE  /\ After(d, n) = [of |-> After(d, n).of, upto |-> After(d, n).upto, section |-> After(d, n).section]
           /\ After(d, n).of \in 0..Len(d.means) /\ After(d, n).section \in Seq(Words)
           /\ After(d, n).of # 0 => After(d, n).of \in DOMAIN d.means
           /\ After(d, n).upto \in Nat
           /\ DOMAIN d.means = 1..Len(d.means) /\ Len(d.means) \in Nat
  <1>1. Len(d.means) \in Nat /\ DOMAIN d.means = 1..Len(d.means)
    BY DEF Written
  <1>2. CASE n = 0
    BY <1>1, <1>2 DEF After, Beginning
  <1>3. CASE n # 0
    <2> DEFINE R == [of : 0..Len(d.means), upto : Nat, section : Seq(Words)]
    <2>1. d.outline \in Seq(R) /\ Len(d.outline) = Len(d.text)
      BY DEF Written, Outlines
    <2>2. n \in 1..Len(d.outline)
      BY <1>3, <2>1
    <2>3. After(d, n) = d.outline[n]
      BY <1>3 DEF After
    <2> HIDE DEF R
    <2>4. After(d, n) \in R
      BY <2>1, <2>2, <2>3
    <2> QED
      BY <2>4, <1>1 DEF R
  <1> QED
    BY <1>2, <1>3

\* Of an assignment that misses no delimiter a line holds what the spelling says.
LEMMA IntactSpelling ==
    ASSUME NEW d, NEW of, of # d.torn
    PROVE  /\ \A upto : Spelt(d, of, upto) = Spelling(d.means[of], upto)
           /\ \A code, line : IsCodeOf(d, of, code, line) => IsCode(code, line)
  BY DEF Spelt, IsCodeOf

\* Each line of a file says what its outline says, whatever its comment (load_toml),
\* except that of the assignment that misses a delimiter.
THEOREM LinesSay ==
    ASSUME NEW d, Written(d), d.text \in Seq(Seq(Tokens)), NEW n \in 1..Len(d.text)
    PROVE  LET before == After(d, n - 1)
               after == After(d, n)
               code == StripComment(d.text[n])
           IN \/ SaysNothing(before, after, code)
              \/ SaysHeader(d, before, after, code)
              \/ /\ after.of # d.torn
                 /\ SaysFirst(d, before, after, code) \/ SaysMore(d, before, after, code)
              \/ /\ after.of = d.torn /\ after.of # 0
                 /\ \/ FirstLine(d, before, after, d.text[n])
                    \/ FurtherLine(d, before, after, d.text[n])
  <1> DEFINE before == After(d, n - 1)
             after == After(d, n)
             line == d.text[n]
  <1>1. line \in Seq(Tokens) /\ n - 1 \in 0..Len(d.text) /\ n \in 0..Len(d.text)
    OBVIOUS
  <1>2. \A i \in DOMAIN d.means : Meaningful(d.means[i])
    BY DEF Written
  <1>3. /\ before.of \in 0..Len(d.means) /\ before.upto \in Nat
        /\ before = [of |-> before.of, upto |-> before.upto, section |-> before.section]
        /\ before.of # 0 => before.of \in DOMAIN d.means
        /\ after.of \in 0..Len(d.means) /\ after.section \in Seq(Words)
        /\ after.of # 0 => after.of \in DOMAIN d.means
        /\ DOMAIN d.means = 1..Len(d.means) /\ Len(d.means) \in Nat
    BY <1>1, OutlineTyped
  <1>4. ASSUME NEW code \in Seq(Tokens), IsCode(code, line), Hides(code, {Hash})
        PROVE  StripComment(line) = code
    BY <1>1, <1>4, CommentGoes
  <1>5. \/ BlankLine(d, before, after, line)
        \/ HeaderLine(d, before, after, line)
        \/ FirstLine(d, before, after, line)
        \/ FurtherLine(d, before, after, line)
    <2>1. n \in DOMAIN d.text
      OBVIOUS
    <2> QED
      BY <2>1 DEF Written
  <1> HIDE DEF before, after, line
  <1>6. CASE BlankLine(d, before, after, line)
    BY <1>4, <1>6, BlankScans DEF BlankLine, SaysNothing, before, after, line
  <1>7. CASE HeaderLine(d, before, after, line)
    <2> DEFINE code == <<Open>> \o after.section \o <<Close>>
    <2>1. /\ Complete(d, before) /\ before.of < Len(d.means)
          /\ after = [before EXCEPT !.section = Front(d.means[before.of + 1].path)]
          /\ IsCode(code, line)
      BY <1>7 DEF HeaderLine
    <2>2. code \in Seq(Tokens) /\ Hides(code, {Hash}) /\ IsHeader(code) /\ Inner(code) = after.section
      BY <1>3, HeaderScans
    <2> HIDE DEF code
    <2>3. StripComment(line) = code
      BY <1>4, <2>1, <2>2
    <2>4. /\ after.of = before.of /\ after.upto = before.upto
          /\ after.section = Front(d.means[before.of + 1].path)
      BY <1>3, <2>1
    <2>5. Complete(d, after)
      BY <2>1, <2>4 DEF Complete
    <2>6. before.of + 1 \in DOMAIN d.means
      BY <1>3, <2>1
    <2>7. SaysHeader(d, before, after, StripComment(line))
      BY <2>1, <2>2, <2>3, <2>4, <2>5, <2>6 DEF SaysHeader, code
    <2> QED
      BY <2>7 DEF before, after, line
  <1>8. CASE FirstLine(d, before, after, line) /\ after.of # d.torn
    <2> DEFINE a == d.means[after.of]
               s == Spelling(a, after.upto)
               code == <<Last(a.path), Equals>> \o s
    <2>1. /\ Complete(d, before) /\ after.of = before.of + 1
          /\ after.section = before.section /\ after.section = Front(a.path)
          /\ after.upto \in 1..Pieces(a)
          /\ IsCode(code, line)
      BY <1>8, IntactSpelling DEF FirstLine
    <2>2. after.of \in DOMAIN d.means
      BY <1>3, <2>1
    <2>3. Meaningful(a)
      BY <2>2, <1>2
    <2> HIDE DEF a
    <2>4. Last(a.path) \in Words
      BY <2>3, PathParts DEF Meaningful
    <2>5. s \in Seq(Tokens) /\ Hides(s, {Hash})
      BY <2>1, <2>3, SpellingScans
    <2> HIDE DEF s
    <2>6. /\ code \in Seq(Tokens) /\ Hides(code, {Hash})
          /\ ~IsHeader(code) /\ Contains(code, Equals) /\ FirstEquals(code) = 2
          /\ SubSeq(code, 1, 1) = <<Last(a.path)>> /\ SubSeq(code, 3, Len(code)) = s
      BY <2>4, <2>5, AssignmentScans
    <2> HIDE DEF code
    <2>7. StripComment(line) = code
      BY <1>4, <2>1, <2>6
    <2>8. SaysFirst(d, before, after, StripComment(line))
      BY <2>1, <2>2, <2>6, <2>7 DEF SaysFirst, a, s, code
    <2> QED
      BY <2>8, <1>8 DEF before, after, line
  <1>9. CASE FurtherLine(d, before, after, line) /\ after.of # d.torn
    <2> DEFINE a == d.means[after.of]
               s == Spelling(a, after.upto)
               code == SubSeq(s, Len(Spelling(a, before.upto)) + 1, Len(s))
    <2>1. /\ ~Complete(d, before) /\ after.of = before.of /\ after.section = before.section
          /\ after.upto \in before.upto + 1..Pieces(a)
          /\ IsCode(code, line)
      BY <1>9, IntactSpelling DEF FurtherLine
    <2>2. after.of \in DOMAIN d.means
      <3>1. before.of # 0
        BY <2>1 DEF Complete
      <3> QED
        BY <3>1, <2>1, <1>3
    <2>3. Meaningful(a) /\ Pieces(a) \in Nat
      <3>1. Meaningful(a)
        BY <2>2, <1>2
      <3> HIDE DEF a
      <3>2. Pieces(a) \in Nat
        BY <3>1, PiecesAreCounted
      <3> QED
        BY <3>1, <3>2
    <2>4. ASSUME before.upto \in 1..Pieces(a)
          PROVE  /\ after.upto \in 1..Pieces(a)
                 /\ Spelling(a, before.upto) \o StripComment(line) = s
      <3>1. after.upto \in 1..Pieces(a)
        BY <2>1, <2>3, <2>4
      <3> DEFINE from == before.upto
                 upto == after.upto
      <3>2. from \in 1..Pieces(a) /\ upto \in from + 1..Pieces(a)
        BY <2>1, <2>4
      <3> HIDE DEF a, from, upto
      <3>3. LET whole == Spelling(a, upto)
                rest == SubSeq(whole, Len(Spelling(a, from)) + 1, Len(whole))
            IN rest \in Seq(Tokens) /\ Spelling(a, from) \o rest = whole /\ Hides(rest, {Hash})
        BY <2>3, <3>2, SpellingGrows
      <3>4. code \in Seq(Tokens) /\ Spelling(a, before.upto) \o code = s /\ Hides(code, {Hash})
        BY <3>3 DEF from, upto
      <3> HIDE DEF code, s
      <3>5. StripComment(line) = code
        BY <1>4, <2>1, <3>4
      <3> QED
        BY <3>1, <3>4, <3>5
    <2>5. SaysMore(d, before, after, StripComment(line))
      BY <2>1, <2>4 DEF SaysMore
    <2> QED
      BY <2>5, <1>9 DEF before, after, line
  <1>10. ASSUME FirstLine(d, before, after, line) \/ FurtherLine(d, before, after, line)
         PROVE  after.of # 0
    <2>1. CASE FirstLine(d, before, after, line)
      <3>1. after.of = before.of + 1
        BY <2>1 DEF FirstLine
      <3> QED
        BY <3>1, <1>3
    <2>2. CASE FurtherLine(d, before, after, line)
      BY <2>2 DEF FurtherLine, Complete
    <2> QED
      BY <1>10, <2>1, <2>2
  <1> QED
    BY <1>5, <1>6, <1>7, <1>8, <1>9, <1>10 DEF before, after, line

-----------------------------------------------------------------------------
(* Strings that are not closed.                                             *)

\* A line without its comment is a part of it, and one without a hash outside strings has none.
LEMMA StripTyped ==
    ASSUME NEW line \in Seq(Tokens)
    PROVE  /\ StripComment(line) \in Seq(Tokens)
           /\ Outside(line, Hash) = {} => StripComment(line) = line
           /\ \A i \in 1..Len(StripComment(line)) :
                 i \in 1..Len(line) /\ StripComment(line)[i] = line[i]
  <1> DEFINE marks == Outside(line, Hash)
  <1>1. CASE marks = {}
    BY <1>1 DEF StripComment, UpTo
  <1>2. CASE marks # {}
    <2>1. marks \in SUBSET Nat /\ \A i \in marks : i \in 1..Len(line)
      BY DEF Outside
    <2>2. PICK m \in marks : \A i \in marks : m <= i
      BY <2>1, <1>2, Ops!LeastNatural
    <2> HIDE DEF marks
    <2>3. Min(marks) = m /\ m \in 1..Len(line)
      BY <2>1, <2>2, MinIs
    <2>4. StripComment(line) = SubSeq(line, 1, m - 1)
      BY <2>3, <1>2 DEF StripComment, UpTo, marks
    <2> DEFINE s == SubSeq(line, 1, m - 1)
    <2>5. s \in Seq(Tokens) /\ Len(s) = m - 1 /\ \A i \in 1..m - 1 : s[i] = line[i]
      BY <2>3
    <2> HIDE DEF s
    <2>6. \A i \in 1..Len(s) : i \in 1..Len(line) /\ s[i] = line[i]
      BY <2>3, <2>5
    <2> QED
      BY <2>4, <2>5, <2>6, <1>2 DEF marks, s
  <1> QED
    BY <1>1, <1>2

\* What no comment can begin in stays at the front of the line.
LEMMA StripKeeps ==
    ASSUME NEW y \in Seq(Tokens), NEW z \in Seq(Tokens), Outside(y, Hash) = {}
    PROVE  Begins(y, StripComment(y \o z))
  <1> DEFINE line == y \o z
             n == Len(y)
             marks == Outside(line, Hash)
  <1>1. /\ line \in Seq(Tokens) /\ n \in Nat /\ Len(z) \in Nat /\ Len(line) = n + Len(z)
        /\ (\A i \in 1..n : line[i] = y[i]) /\ \A i \in 1..Len(z) : line[n + i] = z[i]
    BY ConcatParts
  <1>2. CASE marks = {}
    <2>1. StripComment(line) = line
      BY <1>1, <1>2, StripTyped
    <2> QED
      BY <2>1 DEF Begins
  <1>3. CASE marks # {}
    <2>1. marks \in SUBSET Nat /\ marks \subseteq 1..Len(line)
      BY <1>1 DEF Outside
    <2>2. PICK m \in marks : \A i \in marks : m <= i
      <3> HIDE DEF marks
      <3> QED
        BY <2>1, <1>3, Ops!LeastNatural
    <2>3. Min(marks) = m
      <3> HIDE DEF marks
      <3> QED
        BY <2>1, <2>2, MinIs
    <2>4. \A i \in 0..n : Scan(line)[i] = Scan(y)[i]
      <3> DEFINE start == NoString
      <3>1. start \in ScanStates
        BY StepsAreTyped
      <3> HIDE DEF start
      <3>2. LET first == Run(ScanStep, start, y)
                second == Run(ScanStep, first[Len(y)], z)
                both == Run(ScanStep, start, y \o z)
            IN /\ first \in [0..Len(y) -> ScanStates] /\ first[0] = start
               /\ \A i \in 0..Len(y) : both[i] = first[i]
               /\ \A i \in 0..Len(z) : both[Len(y) + i] = second[i]
        BY <3>1, ScanOn, Z3
      <3> QED
        BY <3>2 DEF Scan, start
    <2>5. m > n
      <3> SUFFICES ASSUME m \in 1..n PROVE FALSE
        BY <2>1, <2>2, <1>1
      <3>1. m - 1 \in 0..n /\ line[m] = Hash /\ ~Scan(line)[m - 1].in_string
        BY <1>1 DEF Outside
      <3>2. y[m] = Hash /\ ~Scan(y)[m - 1].in_string
        BY <3>1, <2>4, <1>1
      <3>3. m \in DOMAIN y
        OBVIOUS
      <3> QED
        BY <3>2, <3>3 DEF Outside
    <2>6. StripComment(line) = SubSeq(line, 1, m - 1)
      BY <2>3, <1>3 DEF StripComment, UpTo
    <2> HIDE DEF marks
    <2> DEFINE rest == SubSeq(z, 1, (m - 1) - n)
               s == SubSeq(line, 1, m - 1)
               w == y \o rest
    <2>7. m \in 1..Len(line)
      BY <2>1, <2>2
    <2> HIDE DEF line, n
    <2>8. /\ s \in Seq(Tokens) /\ Len(s) = m - 1 /\ \A i \in 1..m - 1 : s[i] = line[i]
          /\ rest \in Seq(Tokens) /\ Len(rest) = (m - 1) - n
          /\ \A i \in 1..(m - 1) - n : rest[i] = z[i]
      BY <1>1, <2>5, <2>7
    <2> HIDE DEF s, rest
    <2>9. /\ w \in Seq(Tokens) /\ Len(w) = n + Len(rest)
          /\ (\A i \in 1..n : w[i] = y[i]) /\ \A i \in 1..Len(rest) : w[n + i] = rest[i]
      BY <2>8, ConcatParts DEF n
    <2> HIDE DEF w
    <2>10. ASSUME NEW i \in 1..m - 1 PROVE w[i] = s[i]
      <3>1. CASE i \in 1..n
        BY <3>1, <2>8, <2>9, <1>1
      <3>2. CASE i \notin 1..n
        <4>1. i - n \in 1..(m - 1) - n /\ i - n \in 1..Len(z) /\ n + (i - n) = i
          BY <3>2, <1>1, <2>5, <2>7
        <4>2. w[n + (i - n)] = rest[i - n] /\ rest[i - n] = z[i - n] /\ line[n + (i - n)] = z[i - n]
          BY <4>1, <2>8, <2>9, <1>1
        <4> QED
          BY <4>1, <4>2, <2>8
      <3> QED
        BY <3>1, <3>2
    <2>11. Len(w) = Len(s)
      BY <2>8, <2>9, <2>5, <1>1, <2>7
    <2>12. w = s
      BY <2>8, <2>9, <2>10, <2>11, SMTT(40)
    <2> QED
      BY <2>6, <2>8, <2>12 DEF Begins, w, s, line
  <1> QED
    BY <1>2, <1>3

\* s leaves a string open in which all its hashes are.
Opens(s) == Scan(s)[Len(s)] = InString /\ Outside(s, Hash) = {}
\* What would end a string, or put that off.
Plain(s) == \A i \in 1..Len(s) : s[i] # Quote /\ s[i] # Escape

\* Texts without quotes and escapes have parts without, and the other way round.
LEMMA PlainBoth ==
    ASSUME NEW s \in Seq(Tokens), NEW u \in Seq(Tokens)
    PROVE  Plain(s \o u) <=> Plain(s) /\ Plain(u)
  <1> DEFINE w == s \o u
             m == Len(s)
             n == Len(u)
  <1>1. /\ m \in Nat /\ n \in Nat /\ Len(w) = m + n
        /\ (\A i \in 1..m : w[i] = s[i]) /\ \A i \in 1..n : w[m + i] = u[i]
    BY ConcatParts
  <1> HIDE DEF w, m, n
  <1>2. ASSUME Plain(w) PROVE Plain(s) /\ Plain(u)
    <2>1. \A i \in 1..m : i \in 1..Len(w)
      BY <1>1
    <2>2. \A i \in 1..n : m + i \in 1..Len(w)
      BY <1>1
    <2> QED
      BY <2>1, <2>2, <1>1, <1>2 DEF Plain, m, n
  <1>3. ASSUME Plain(s), Plain(u), NEW i \in 1..Len(w) PROVE w[i] # Quote /\ w[i] # Escape
    <2>1. CASE i \in 1..m
      BY <2>1, <1>1, <1>3 DEF Plain, m
    <2>2. CASE i \notin 1..m
      <3>1. i - m \in 1..n /\ m + (i - m) = i
        BY <2>2, <1>1
      <3> QED
        BY <3>1, <1>1, <1>3 DEF Plain, n
    <2> QED
      BY <2>1, <2>2
  <1> QED
    BY <1>2, <1>3 DEF Plain, w

\* Behind a text that is closed, a string is opened as it is alone.
LEMMA OpensBoth ==
    ASSUME NEW u \in Seq(Tokens), Hides(u, {Hash}), NEW x \in Seq(Tokens)
    PROVE  Opens(x) <=> Opens(u \o x)
  <1> DEFINE w == u \o x
             m == Len(u)
  <1>1. Scan(u)[m] = NoString /\ Outside(u, Hash) = {}
    BY OutsideNone DEF Hides
  <1>2. m \in Nat /\ Len(x) \in Nat /\ Len(w) = m + Len(x)
    BY ConcatParts
  <1>3. Scan(w)[m + Len(x)] = Scan(x)[Len(x)]
    <2>1. \A i \in 0..Len(x) : Scan(w)[m + i] = Scan(x)[i]
      BY <1>1, ScanAgain
    <2>2. Len(x) \in 0..Len(x)
      BY <1>2
    <2> HIDE DEF w, m
    <2> QED
      BY <2>1, <2>2
  <1>4. Outside(w, Hash) = {m + i : i \in Outside(x, Hash)}
    BY <1>1, OutsideBoth
  <1> HIDE DEF w, m
  <1>5. Outside(w, Hash) = {} <=> Outside(x, Hash) = {}
    BY <1>4
  <1>6. Opens(x) <=> Opens(w)
    BY <1>2, <1>3, <1>5 DEF Opens
  <1> QED
    BY <1>6 DEF w

\* A scan from inside a string goes through the rest, and so do those of both.
LEMMA ScanInside ==
    ASSUME NEW x \in Seq(Tokens), Scan(x)[Len(x)] = InString, NEW z \in Seq(Tokens)
    PROVE  LET inside == Run(ScanStep, InString, z) IN
           /\ inside \in [0..Len(z) -> ScanStates] /\ inside[0] = InString
           /\ \A i \in 1..Len(z) : inside[i] = ScanStep[z[i]][inside[i - 1]]
           /\ \A i \in 0..Len(x) : Scan(x \o z)[i] = Scan(x)[i]
           /\ \A i \in 0..Len(z) : Scan(x \o z)[Len(x) + i] = inside[i]
  <1> DEFINE start == NoString
             mid == InString
  <1>1. start \in ScanStates /\ mid \in ScanStates
    BY StepsAreTyped
  <1> HIDE DEF start, mid
  <1>2. LET first == Run(ScanStep, start, x)
            second == Run(ScanStep, first[Len(x)], z)
            both == Run(ScanStep, start, x \o z)
        IN /\ first \in [0..Len(x) -> ScanStates] /\ first[0] = start
           /\ \A i \in 0..Len(x) : both[i] = first[i]
           /\ \A i \in 0..Len(z) : both[Len(x) + i] = second[i]
    BY <1>1, ScanOn, Z3
  <1>3. Run(ScanStep, start, x)[Len(x)] = mid
    BY DEF Scan, start, mid
  <1>4. /\ Run(ScanStep, mid, z) \in [0..Len(z) -> ScanStates]
        /\ Run(ScanStep, mid, z)[0] = mid
        /\ \A i \in 1..Len(z) :
             Run(ScanStep, mid, z)[i] = ScanStep[z[i]][Run(ScanStep, mid, z)[i - 1]]
    BY <1>1, ScanFrom
  <1> QED
    BY <1>2, <1>3, <1>4 DEF Scan, start, mid

\* A hash behind an open string is in it, and so is a text without quotes and escapes.
LEMMA OpenStays ==
    ASSUME NEW x \in Seq(Tokens), Opens(x), NEW z \in Seq(Tokens)
    PROVE  /\ Len(z) = 1 => Outside(x \o z, Hash) = {}
           /\ Plain(z) => Opens(x \o z)
  <1> DEFINE w == x \o z
             m == Len(x)
             n == Len(z)
             inside == Run(ScanStep, InString, z)
  <1>1. /\ m \in Nat /\ n \in Nat /\ Len(w) = m + n /\ w \in Seq(Tokens)
        /\ (\A i \in 1..m : w[i] = x[i]) /\ \A i \in 1..n : w[m + i] = z[i]
    BY ConcatParts
  <1>2. /\ inside[0] = InString
        /\ \A i \in 1..n : inside[i] = ScanStep[z[i]][inside[i - 1]]
        /\ \A i \in 0..m : Scan(w)[i] = Scan(x)[i]
        /\ \A i \in 0..n : Scan(w)[m + i] = inside[i]
    BY ScanInside DEF Opens
  <1>3. \A i \in 1..m : i \notin Outside(w, Hash)
    <2> SUFFICES ASSUME NEW i \in 1..m, i \in Outside(w, Hash) PROVE FALSE
      OBVIOUS
    <2>1. w[i] = Hash /\ ~Scan(w)[i - 1].in_string /\ i - 1 \in 0..m
      BY <1>1 DEF Outside
    <2>2. x[i] = Hash /\ ~Scan(x)[i - 1].in_string
      BY <2>1, <1>1, <1>2
    <2>3. i \in DOMAIN x
      OBVIOUS
    <2> QED
      BY <2>2, <2>3 DEF Opens, Outside
  <1> HIDE DEF inside
  <1>4. ASSUME \A i \in 0..n - 1 : inside[i] = InString PROVE Outside(w, Hash) = {}
    <2> SUFFICES ASSUME NEW i \in Outside(w, Hash) PROVE FALSE
      OBVIOUS
    <2>1. i \in 1..m + n /\ ~Scan(w)[i - 1].in_string
      BY <1>1 DEF Outside
    <2>2. i \notin 1..m
      BY <1>3
    <2>3. (i - 1) - m \in 0..n - 1 /\ (i - 1) - m \in 0..n /\ m + ((i - 1) - m) = i - 1
      BY <2>1, <2>2, <1>1
    <2>4. Scan(w)[i - 1] = InString
      BY <2>3, <1>2, <1>4
    <2> QED
      BY <2>1, <2>4 DEF InString
  <1>5. ASSUME n = 1 PROVE Outside(w, Hash) = {}
    <2>1. \A i \in 0..n - 1 : inside[i] = InString
      BY <1>2, <1>5
    <2> QED
      BY <2>1, <1>4
  <1>6. ASSUME Plain(z) PROVE Opens(w)
    <2> DEFINE H == {i \in Nat : inside[i] = InString}
    <2>1. 0 \in H
      BY <1>2
    <2>2. ASSUME NEW i \in 0..n - 1, i \in H PROVE i + 1 \in H
      <3>1. i + 1 \in 1..n /\ (i + 1) - 1 = i
        BY <1>1
      <3>2. z[i + 1] \in Tokens /\ z[i + 1] # Quote /\ z[i + 1] # Escape
        BY <3>1, <1>6 DEF Plain
      <3>3. ScanStep[z[i + 1]][InString] = InString
        BY <3>2 DEF ScanStep, InString, ScanStates
      <3>4. inside[i + 1] = InString
        BY <3>1, <3>3, <1>2, <2>2
      <3> QED
        BY <3>4
    <2> HIDE DEF H
    <2>3. \A i \in 0..n : i \in H
      <3>1. n \in Nat /\ 0 \in Nat
        BY <1>1
      <3> HIDE DEF n
      <3> QED
        BY <3>1, <2>1, <2>2, Ops!UpTo
    <2>4. \A i \in 0..n : inside[i] = InString
      BY <2>3 DEF H
    <2>5. Outside(w, Hash) = {}
      BY <2>4, <1>1, <1>4
    <2>6. n \in 0..n
      BY <1>1
    <2>7. Scan(w)[m + n] = InString
      BY <2>4, <2>6, <1>2
    <2> QED
      BY <2>5, <2>7, <1>1 DEF Opens
  <1> QED
    BY <1>5, <1>6

\* It leaves a string open that has all of its text in it.
LEMMA HalfOpens ==
    ASSUME NEW text \in Seq(Tokens)
    PROVE  Half(text) \in Seq(Tokens) /\ Opens(Half(text)) /\ Half(text)[1] = Quote
           /\ Len(Half(text)) = Len(Escaped(text)) + 1 /\ Escaped(text) \in Seq(Tokens)
  <1> DEFINE e == Escaped(text)
             q == <<Quote>>
             w == q \o e
             n == Len(e)
             inside == Run(ScanStep, InString, e)
  <1>1. e \in Seq(Tokens) /\ StaysInside(e)
    <2>1. Len(text) \in 0..Len(text)
      OBVIOUS
    <2> QED
      BY <2>1, LiteralHides, EscapedStaysInside, EscapingStep
  <1>2. q \in Seq(Tokens) /\ Len(q) = 1 /\ q[1] = Quote /\ Quote # Hash
    BY TokensAreDistinct DEF Delimiters
  <1> HIDE DEF e, q
  <1>3. Scan(q)[Len(q)] = InString
    <2>1. Scan(q)[1] = ScanStep[Quote][NoString]
      <3>1. Scan(q)[0] = NoString /\ \A i \in 1..Len(q) : Scan(q)[i] = ScanStep[q[i]][Scan(q)[i - 1]]
        BY <1>2, ScanSteps
      <3>2. 1 \in 1..Len(q) /\ 1 - 1 = 0
        BY <1>2
      <3>3. Scan(q)[1] = ScanStep[q[1]][Scan(q)[1 - 1]]
        BY <3>1, <3>2
      <3> QED
        BY <3>1, <3>2, <3>3, <1>2
    <2>2. ScanStep[Quote][NoString] = InString
      BY TokensAreDistinct DEF ScanStep, ScanStates, NoString, InString, Delimiters
    <2> QED
      BY <2>1, <2>2, <1>2
  <1>4. /\ w \in Seq(Tokens) /\ n \in Nat /\ Len(w) = 1 + n /\ w[1] = Quote
        /\ \A i \in 1..n : w[1 + i] = e[i]
    <2>1. /\ w \in Seq(Tokens) /\ Len(w) = Len(q) + Len(e)
          /\ (\A i \in 1..Len(q) : w[i] = q[i]) /\ \A i \in 1..Len(e) : w[Len(q) + i] = e[i]
      BY <1>1, <1>2, ConcatParts
    <2>2. 1 \in 1..Len(q) /\ Len(e) \in Nat
      BY <1>1, <1>2
    <2> HIDE DEF w
    <2> QED
      BY <2>1, <2>2, <1>2
  <1>5. \A i \in 0..n : Scan(w)[1 + i] = inside[i]
    <2>1. \A i \in 0..n : Scan(w)[Len(q) + i] = inside[i]
      BY <1>1, <1>2, <1>3, ScanInside
    <2> HIDE DEF w, inside, n
    <2> QED
      BY <2>1, <1>2
  <1>6. inside[n] = InString /\ \A i \in 0..n : inside[i].in_string
    BY <1>1 DEF StaysInside
  <1> HIDE DEF inside, w, n
  <1>7. Scan(w)[Len(w)] = InString
    <2>1. n \in 0..n
      BY <1>4
    <2> QED
      BY <2>1, <1>4, <1>5, <1>6
  <1>8. Outside(w, Hash) = {}
    <2> SUFFICES ASSUME NEW i \in Outside(w, Hash) PROVE FALSE
      OBVIOUS
    <2>1. i \in 1..n + 1 /\ w[i] = Hash /\ ~Scan(w)[i - 1].in_string
      BY <1>4 DEF Outside
    <2>2. i # 1
      BY <2>1, <1>2, <1>4
    <2>3. i - 2 \in 0..n /\ 1 + (i - 2) = i - 1
      BY <2>1, <2>2, <1>4
    <2> QED
      BY <2>1, <2>3, <1>5, <1>6
  <1> QED
    BY <1>1, <1>4, <1>7, <1>8 DEF Opens, Half, w, q, e, n

\* Scanned from inside a string, a text without escapes that is closed is still inside one.
LEMMA FlipScan ==
    ASSUME NEW x \in Seq(Tokens), Scan(x)[Len(x)] = InString,
           NEW u \in Seq(Tokens), Scan(u)[Len(u)] = NoString, \A i \in 1..Len(u) : u[i] # Escape
    PROVE  Scan(x \o u)[Len(x \o u)] = InString
  <1> DEFINE n == Len(u)
             inside == Run(ScanStep, InString, u)
             outside == Scan(u)
             H == {i \in Nat : \/ outside[i] = NoString /\ inside[i] = InString
                               \/ outside[i] = InString /\ inside[i] = NoString}
  <1>1. /\ inside[0] = InString
        /\ \A i \in 1..n : inside[i] = ScanStep[u[i]][inside[i - 1]]
        /\ \A i \in 0..n : Scan(x \o u)[Len(x) + i] = inside[i]
    BY ScanInside
  <1>2. /\ outside[0] = NoString
        /\ \A i \in 1..n : outside[i] = ScanStep[u[i]][outside[i - 1]]
    BY ScanSteps
  <1>3. n \in Nat /\ Len(x) \in Nat /\ Len(x \o u) = Len(x) + n /\ \A i \in 1..n : u[i] \in Tokens
    BY ConcatParts
  <1> HIDE DEF n, inside, outside
  <1>4. 0 \in H
    BY <1>1, <1>2
  <1>5. ASSUME NEW i \in 0..n - 1, i \in H PROVE i + 1 \in H
    <2>1. i + 1 \in 1..n /\ (i + 1) - 1 = i
      BY <1>3
    <2>2. u[i + 1] \in Tokens /\ u[i + 1] # Escape
      BY <2>1, <1>3 DEF n
    <2>3. /\ inside[i + 1] = ScanStep[u[i + 1]][inside[i]]
          /\ outside[i + 1] = ScanStep[u[i + 1]][outside[i]]
      BY <2>1, <1>1, <1>2
    <2>4. \/ /\ ScanStep[u[i + 1]][InString] = InString /\ ScanStep[u[i + 1]][NoString] = NoString
          \/ /\ ScanStep[u[i + 1]][InString] = NoString /\ ScanStep[u[i + 1]][NoString] = InString
      BY <2>2 DEF ScanStep, ScanStates, InString, NoString
    <2> QED
      BY <2>3, <2>4, <1>5
  <1> HIDE DEF H
  <1>6. \A i \in 0..n : i \in H
    BY <1>3, <1>4, <1>5, Ops!UpTo
  <1>7. n \in H /\ n \in 0..n
    BY <1>3, <1>6
  <1>8. InString # NoString
    BY DEF InString, NoString
  <1>9. inside[n] = InString
    BY <1>7, <1>8 DEF H, outside, n
  <1> QED
    BY <1>1, <1>3, <1>7, <1>9

\* Marks that are moved are as many.
LEMMA ShiftedCount ==
    ASSUME NEW m \in Nat, NEW n \in Nat, NEW S \in SUBSET (1..n)
    PROVE  LET T == {m + i : i \in S} IN
           IsFiniteSet(S) /\ IsFiniteSet(T) /\ Cardinality(T) = Cardinality(S)
  <1> DEFINE T == {m + i : i \in S}
             f == [i \in S |-> m + i]
  <1>1. IsFiniteSet(S)
    <2>1. IsFiniteSet(1..n)
      BY FS_Interval
    <2> QED
      BY <2>1, FS_Subset
  <1>2. f \in [S -> T] /\ \A t \in T : \E s \in S : f[s] = t
    OBVIOUS
  <1>3. \A a, b \in S : f[a] = f[b] => a = b
    OBVIOUS
  <1> HIDE DEF f
  <1>4. f \in Bijection(S, T)
    BY <1>2, <1>3 DEF Bijection, Injection, Surjection, IsInjective
  <1>5. ExistsBijection(S, T)
    BY <1>4 DEF ExistsBijection
  <1> HIDE DEF T
  <1>6. IsFiniteSet(T) /\ Cardinality(T) = Cardinality(S)
    BY <1>1, <1>5, FS_Bijection
  <1> QED
    BY <1>1, <1>6 DEF T

\* Of a token outside strings, two texts together have as many as both.
LEMMA OutsideCount ==
    ASSUME NEW token, NEW s \in Seq(Tokens), NEW u \in Seq(Tokens), Scan(s)[Len(s)] = NoString
    PROVE  /\ Cardinality(Outside(s, token)) \in Nat /\ Cardinality(Outside(u, token)) \in Nat
           /\ Cardinality(Outside(s \o u, token)) =
                 Cardinality(Outside(s, token)) + Cardinality(Outside(u, token))
  <1> DEFINE S == Outside(s, token)
             U == Outside(u, token)
             m == Len(s)
             n == Len(u)
             T == {m + i : i \in U}
  <1>1. m \in Nat /\ n \in Nat /\ S \in SUBSET (1..m) /\ U \in SUBSET (1..n)
    BY DEF Outside
  <1>2. Outside(s \o u, token) = S \cup T
    BY OutsideBoth
  <1> HIDE DEF S, U, m, n
  <1>3. IsFiniteSet(U) /\ IsFiniteSet(T) /\ Cardinality(T) = Cardinality(U)
    BY <1>1, ShiftedCount
  <1>4. IsFiniteSet(S)
    BY <1>1, ShiftedCount
  <1>5. S \cap T = {}
    BY <1>1
  <1> HIDE DEF T
  <1>6. Cardinality(S \cup T) = Cardinality(S) + Cardinality(T) - Cardinality(S \cap T)
    BY <1>3, <1>4, FS_Union
  <1>7. Cardinality(S \cap T) = 0 /\ Cardinality(S) \in Nat /\ Cardinality(U) \in Nat
    BY <1>3, <1>4, <1>5, FS_EmptySet, FS_CardinalityType
  <1> QED
    BY <1>2, <1>3, <1>6, <1>7 DEF S, U

\* Brackets that are not closed add up.
LEMMA BracketsAdd ==
    ASSUME NEW s \in Seq(Tokens), NEW u \in Seq(Tokens), Scan(s)[Len(s)] = NoString
    PROVE  /\ UnbalancedBrackets(s) \in Int /\ UnbalancedBrackets(u) \in Int
           /\ UnbalancedBrackets(s \o u) = UnbalancedBrackets(s) + UnbalancedBrackets(u)
           /\ Scan(u)[Len(u)] = NoString <=> Scan(s \o u)[Len(s \o u)] = NoString
  <1>1. \A token \in {Open, Close} :
            /\ Cardinality(Outside(s, token)) \in Nat /\ Cardinality(Outside(u, token)) \in Nat
            /\ Cardinality(Outside(s \o u, token)) =
                  Cardinality(Outside(s, token)) + Cardinality(Outside(u, token))
    BY OutsideCount
  <1>2. Scan(s \o u)[Len(s \o u)] = Scan(u)[Len(u)]
    <2>1. Len(s \o u) = Len(s) + Len(u) /\ Len(u) \in 0..Len(u)
      BY ConcatParts
    <2> QED
      BY <2>1, ScanAgain
  <1> QED
    BY <1>1, <1>2 DEF UnbalancedBrackets

-----------------------------------------------------------------------------
(* A value that misses a closing delimiter.                                 *)

\* What is before and behind a cut.
LEMMA Parts ==
    ASSUME NEW p \in Seq(Tokens), NEW r \in Seq(Tokens)
    PROVE  LET w == p \o r IN
           /\ SubSeq(w, 1, Len(p)) = p /\ SubSeq(w, Len(p) + 1, Len(w)) = r
  <1> DEFINE w == p \o r
             m == Len(p)
             n == Len(r)
             front == SubSeq(w, 1, m)
             back == SubSeq(w, m + 1, Len(w))
  <1>1. /\ m \in Nat /\ n \in Nat /\ w \in Seq(Tokens) /\ Len(w) = m + n
        /\ (\A i \in 1..m : w[i] = p[i]) /\ \A i \in 1..n : w[m + i] = r[i]
    BY ConcatParts
  <1> HIDE DEF w, m, n
  <1>2. /\ front \in Seq(Tokens) /\ Len(front) = m /\ \A i \in 1..m : front[i] = w[i]
        /\ back \in Seq(Tokens) /\ Len(back) = n /\ \A i \in 1..n : back[i] = w[m + i]
    BY <1>1
  <1> HIDE DEF front, back
  <1>3. front = p
    BY <1>1, <1>2, SMTT(40) DEF m
  <1>4. back = r
    <2>1. \A i \in 1..n : back[i] = r[i]
      BY <1>1, <1>2
    <2>2. r \in Seq(Tokens) /\ Len(r) = n
      BY DEF n
    <2>3. back \in Seq(Tokens) /\ Len(back) = n
      BY <1>2
    <2> QED
      BY <2>1, <2>2, <2>3
  <1> QED
    BY <1>3, <1>4 DEF front, back, w, m

\* Taking a token out of the middle, or none from behind the end.
LEMMA TakenOut ==
    ASSUME NEW p \in Seq(Tokens), NEW c \in Tokens, NEW r \in Seq(Tokens)
    PROVE  /\ Without((p \o <<c>>) \o r, Len(p) + 1) = p \o r
           /\ \A place \in Nat : place > Len(p) => Without(p, place) = p
  <1> DEFINE one == <<c>>
             q == p \o one
             w == q \o r
             m == Len(p)
  <1>1. one \in Seq(Tokens) /\ Len(one) = 1
    OBVIOUS
  <1> HIDE DEF one
  <1>2. q \in Seq(Tokens) /\ Len(q) = m + 1 /\ m \in Nat
    <2>1. q \in Seq(Tokens) /\ Len(q) = Len(p) + Len(one)
      BY <1>1, ConcatParts
    <2> QED
      BY <2>1, <1>1
  <1>3. SubSeq(q, 1, m) = p /\ \A i \in 1..m : q[i] = p[i]
    BY <1>1, ConcatParts, Parts
  <1> HIDE DEF q
  <1>4. /\ w \in Seq(Tokens) /\ Len(w) = (m + 1) + Len(r) /\ Len(r) \in Nat
        /\ SubSeq(w, (m + 1) + 1, Len(w)) = r /\ \A i \in 1..m + 1 : w[i] = q[i]
    BY <1>2, ConcatParts, Parts
  <1> HIDE DEF w
  <1>5. SubSeq(w, 1, m) = p
    <2> DEFINE front == SubSeq(w, 1, m)
    <2>1. front \in Seq(Tokens) /\ Len(front) = m /\ \A i \in 1..m : front[i] = w[i]
      BY <1>2, <1>4
    <2>2. \A i \in 1..m : front[i] = p[i]
      BY <2>1, <1>2, <1>3, <1>4
    <2> HIDE DEF front
    <2>3. front = p
      BY <2>1, <2>2
    <2> QED
      BY <2>3 DEF front
  <1>6. Without(w, m + 1) = SubSeq(w, 1, m) \o SubSeq(w, (m + 1) + 1, Len(w))
    <2>1. m + 1 <= Len(w) /\ (m + 1) - 1 = m
      BY <1>2, <1>4
    <2> QED
      BY <2>1 DEF Without, RemoveAt
  <1>7. \A place \in Nat : place > Len(p) => Without(p, place) = p
    <2>1. \A place \in Nat : place > Len(p) => ~(place <= Len(p))
      BY <1>2
    <2> QED
      BY <2>1 DEF Without
  <1> QED
    BY <1>4, <1>5, <1>6, <1>7 DEF w, q, one, m

\* An array as far as its string number k, but for its closing quote.
Begun(texts, k) == (<<Open>> \o Listed(texts)[k - 1]) \o Half(texts[k])

\* It leaves that string open.
LEMMA BegunOpens ==
    ASSUME NEW texts \in Seq(Seq(Tokens)), NEW k \in 1..Len(texts)
    PROVE  LET begun == Begun(texts, k) IN
           begun \in Seq(Tokens) /\ Opens(begun) /\ StartsWith(begun, Open)
  <1> DEFINE b == <<Open>> \o Listed(texts)[k - 1]
             h == Half(texts[k])
             w == b \o h
  <1>1. k - 1 \in 0..Len(texts) /\ texts[k] \in Seq(Tokens)
    OBVIOUS
  <1>2. b \in Seq(Tokens) /\ b # <<>> /\ Head(b) = Open /\ Hides(b, {Hash})
    BY <1>1, ArrayScans
  <1>3. h \in Seq(Tokens) /\ Opens(h)
    BY <1>1, HalfOpens
  <1> HIDE DEF b, h
  <1>4. w \in Seq(Tokens) /\ Opens(w)
    BY <1>2, <1>3, ConcatParts, OpensBoth
  <1>5. w # <<>> /\ Head(w) = Open
    <2>1. Len(b) \in Nat /\ Len(b) # 0 /\ b[1] = Open
      BY <1>2
    <2>2. Len(w) = Len(b) + Len(h) /\ w[1] = b[1] /\ Len(h) \in Nat
      BY <2>1, <1>2, <1>3, ConcatParts
    <2> HIDE DEF w
    <2> QED
      BY <2>1, <2>2, <1>4
  <1> QED
    BY <1>4, <1>5 DEF StartsWith, Begun, w, b, h

\* What comes before the missing quote and what comes behind.
LEMMA BegunParts ==
    ASSUME NEW texts \in Seq(Seq(Tokens)), NEW k \in 1..Len(texts)
    PROVE  /\ \A j \in 0..k - 1 : Begins(<<Open>> \o Listed(texts)[j], Begun(texts, k))
           /\ \A j \in k..Len(texts) : \E rest \in Seq(Tokens) :
                /\ <<Open>> \o Listed(texts)[j] = (Begun(texts, k) \o <<Quote>>) \o rest
                /\ k < Len(texts) => Begins(<<Comma>>, rest)
                /\ j = Len(texts) /\ k = Len(texts) => rest = <<>>
           /\ Len(<<Open>> \o Listed(texts)[k - 1] \o Literal(texts[k])) = Len(Begun(texts, k)) + 1
  <1> DEFINE n == Len(texts)
             o == <<Open>>
             q == <<Quote>>
             l == Listed(texts)[k - 1]
             b == o \o l
             h == Half(texts[k])
             begun == b \o h
             end == IF k < n THEN <<Comma>> ELSE <<>>
  <1>1. /\ k - 1 \in 0..n /\ k \in 0..n /\ texts[k] \in Seq(Tokens) /\ n \in Nat
        /\ Open \in Tokens /\ Quote \in Tokens /\ Comma \in Tokens
    BY TokensAreDistinct DEF Delimiters
  <1>2. o \in Seq(Tokens) /\ q \in Seq(Tokens) /\ Len(q) = 1 /\ end \in Seq(Tokens)
    BY <1>1
  <1>3. l \in Seq(Tokens) /\ h \in Seq(Tokens) /\ Literal(texts[k]) = h \o q
    BY <1>1, ListedSteps, HalfOpens DEF Half, Literal
  <1>4. Listed(texts)[k] = l \o ((h \o q) \o end)
    BY <1>1, <1>3, ListedSteps, SeparatedItems
  <1> HIDE DEF o, q, end
  <1>5. begun = Begun(texts, k)
    BY DEF Begun, o
  <1> HIDE DEF l, h
  <1>6. b \in Seq(Tokens) /\ begun \in Seq(Tokens) /\ h \o q \in Seq(Tokens)
        /\ (h \o q) \o end \in Seq(Tokens) /\ begun \o q \in Seq(Tokens)
    BY <1>2, <1>3, ConcatParts
  <1>7. o \o Listed(texts)[k] = (begun \o q) \o end
    <2> DEFINE x == h \o q
    <2>1. o \o (l \o (x \o end)) = b \o (x \o end)
      <3> HIDE DEF x
      <3>1. x \o end \in Seq(Tokens)
        BY <1>6 DEF x
      <3> DEFINE y == x \o end
      <3> HIDE DEF y
      <3>2. o \o (l \o y) = (o \o l) \o y
        BY <3>1, <1>2, <1>3, ConcatAssociates DEF y
      <3> QED
        BY <3>2 DEF y
    <2> HIDE DEF b
    <2>2. b \o (x \o end) = (b \o x) \o end
      <3>1. b \in Seq(Tokens) /\ x \in Seq(Tokens)
        BY <1>6 DEF b
      <3> HIDE DEF x
      <3> QED
        BY <3>1, <1>2, ConcatAssociates
    <2>3. b \o x = (b \o h) \o q
      <3>1. b \in Seq(Tokens)
        BY <1>6 DEF b
      <3> QED
        BY <3>1, <1>2, <1>3, ConcatAssociates
    <2> QED
      BY <1>4, <2>1, <2>2, <2>3
  <1>8. ASSUME NEW j \in 0..k - 1 PROVE Begins(o \o Listed(texts)[j], begun)
    <2>1. j \in 0..n /\ k - 1 \in j..n
      BY <1>1
    <2> DEFINE short == Listed(texts)[j]
    <2>2. Begins(short, l) /\ short \in Seq(Tokens)
      BY <2>1, ListedGrows, ListedSteps DEF Begins, l
    <2> HIDE DEF short
    <2>3. Begins(o \o short, b) /\ o \o short \in Seq(Tokens)
      BY <2>2, <1>2, <1>3, BeginsParts, ConcatParts
    <2> HIDE DEF b
    <2>4. Begins(o \o short, b \o h)
      BY <2>3, <1>3, <1>6, BeginsParts
    <2> QED
      BY <2>4 DEF short
  <1>9. ASSUME NEW j \in k..n
        PROVE  \E rest \in Seq(Tokens) :
                  /\ o \o Listed(texts)[j] = (begun \o q) \o rest
                  /\ k < n => Begins(<<Comma>>, rest)
                  /\ j = n /\ k = n => rest = <<>>
    <2>1. k \in 0..n /\ j \in k..n
      BY <1>1
    <2>2. PICK more \in Seq(Tokens) : Listed(texts)[j] = Listed(texts)[k] \o more
      BY <2>1, ListedGrows
    <2> DEFINE full == Listed(texts)[k]
               rest == end \o more
               x == begun \o q
    <2>3. full \in Seq(Tokens)
      BY <1>1, ListedSteps
    <2> HIDE DEF full, begun
    <2>4. rest \in Seq(Tokens)
      BY <1>2, ConcatParts
    <2>5. o \o (full \o more) = (o \o full) \o more
      BY <1>2, <2>3, ConcatAssociates, SMTT(40)
    <2>6. (x \o end) \o more = x \o (end \o more)
      <3> HIDE DEF x
      <3>1. x \in Seq(Tokens)
        BY <1>6 DEF x
      <3> QED
        BY <3>1, <1>2, ConcatAssociates
    <2>7. o \o Listed(texts)[j] = x \o rest
      BY <2>2, <2>5, <2>6, <1>7 DEF full
    <2>8. k < n => Begins(<<Comma>>, rest)
      <3> SUFFICES ASSUME k < n PROVE Begins(<<Comma>>, rest)
        OBVIOUS
      <3>1. rest = <<Comma>> \o more
        BY DEF end
      <3> QED
        BY <3>1 DEF Begins
    <2>9. j = n /\ k = n => rest = <<>>
      <3> SUFFICES ASSUME j = n, k = n PROVE rest = <<>>
        OBVIOUS
      <3>1. full \o more = full
        BY <2>2 DEF full
      <3>2. Len(full \o more) = Len(full) + Len(more) /\ Len(full) \in Nat /\ Len(more) \in Nat
        BY <2>3, ConcatParts
      <3>3. more = <<>>
        BY <3>1, <3>2
      <3>4. end = <<>>
        BY <1>1 DEF end
      <3> QED
        BY <3>3, <3>4
    <2> HIDE DEF rest
    <2> QED
      BY <2>4, <2>7, <2>8, <2>9
  <1>10. Len(o \o l \o Literal(texts[k])) = Len(begun) + 1
    <2>0. b \in Seq(Tokens)
      BY <1>6
    <2> HIDE DEF b
    <2>1. b \o (h \o q) = (b \o h) \o q
      BY <2>0, <1>2, <1>3, ConcatAssociates
    <2>2. Len(begun \o q) = Len(begun) + Len(q)
      BY <1>2, <1>6, ConcatParts
    <2> QED
      BY <2>1, <2>2, <1>2, <1>3 DEF b
  <1> QED
    BY <1>5, <1>8, <1>9, <1>10 DEF o, q, l

\* A value of which a closing delimiter is missing, as far as a piece: before the place
\* it is the value, behind it what there would be without.
LEMMA TornSpelling ==
    ASSUME NEW a, Meaningful(a), NEW k \in Closings(a), NEW upto \in 1..Pieces(a)
    PROVE  LET w == Without(Spelling(a, upto), Place(a, k))
               n == Len(a.value)
           IN \/ a.kind = "text" /\ w = Half(a.value)
              \/ /\ a.kind = "array" /\ upto <= k /\ w = Spelling(a, upto)
                 /\ k <= n => Begins(w, Begun(a.value, k))
              \/ /\ a.kind = "array" /\ k <= n /\ k < upto
                 /\ \E rest \in Seq(Tokens) :
                      /\ w = Begun(a.value, k) \o rest
                      /\ k < n => Begins(<<Comma>>, rest)
                      /\ k = n => Plain(rest)
              \/ a.kind = "array" /\ k = n + 1 /\ upto = Pieces(a) /\ w = Spelling(a, n + 1)
  <1> DEFINE n == Len(a.value)
             s == Spelling(a, upto)
             w == Without(s, Place(a, k))
             none == <<>>
             z == <<Close>>
  <1>0. /\ Quote \in Tokens /\ Close \in Tokens /\ none \in Seq(Tokens) /\ z \in Seq(Tokens)
        /\ Len(none) = 0 /\ Len(z) = 1 /\ Plain(none) /\ Plain(z)
    <2>1. Quote \in Tokens /\ Close \in Tokens /\ Close # Quote /\ Close # Escape
      BY TokensAreDistinct DEF Delimiters, Close, Escape
    <2> QED
      BY <2>1 DEF Plain
  <1> HIDE DEF none, z
  <1>1. CASE a.kind = "text"
    <2> DEFINE p == Half(a.value)
    <2>1. a.value \in Seq(Tokens) /\ s = Literal(a.value) /\ Spelling(a, Pieces(a)) = Literal(a.value)
      BY <1>1, KindsOfValues
    <2>2. p \in Seq(Tokens) /\ Literal(a.value) = p \o <<Quote>>
      BY <2>1, HalfOpens DEF Half, Literal
    <2>3. Place(a, k) = Len(Literal(a.value))
      BY <1>1, <2>1 DEF Place
    <2> HIDE DEF p, s
    <2> DEFINE x == p \o <<Quote>>
    <2>4. x \in Seq(Tokens) /\ Len(x) = Len(p) + 1
      <3> DEFINE q == <<Quote>>
      <3>1. q \in Seq(Tokens) /\ Len(q) = 1
        BY <1>0
      <3> HIDE DEF q
      <3> QED
        BY <3>1, <2>2, ConcatParts DEF q
    <2>5. Without(x \o none, Len(p) + 1) = p \o none
      BY <2>2, <1>0, TakenOut
    <2>6. x \o none = x /\ p \o none = p
      <3> HIDE DEF x
      <3> QED
        BY <2>2, <2>4 DEF none
    <2> HIDE DEF x
    <2>7. w = p
      BY <2>1, <2>2, <2>3, <2>4, <2>5, <2>6 DEF x
    <2> QED
      BY <2>7, <1>1 DEF p, s
  <1>2. CASE a.kind = "number"
    BY <1>2 DEF Closings
  <1>3. CASE a.kind = "array"
    <2> DEFINE b == <<Open>> \o Listed(a.value)[n]
               begun == Begun(a.value, k)
               Goal == \E rest \in Seq(Tokens) :
                           /\ w = begun \o rest
                           /\ k < n => Begins(<<Comma>>, rest)
                           /\ k = n => Plain(rest)
    <2>1. /\ a.value \in Seq(Seq(Tokens)) /\ Pieces(a) = n + 2 /\ n \in Nat
          /\ \A i \in 1..n + 1 : Spelling(a, i) = <<Open>> \o Listed(a.value)[i - 1]
          /\ Spelling(a, n + 2) = b \o z
      <3>1. /\ a.value \in Seq(Seq(Tokens)) /\ Pieces(a) = n + 2
            /\ \A i \in 1..n + 1 : Spelling(a, i) = <<Open>> \o Listed(a.value)[i - 1]
            /\ Spelling(a, Pieces(a)) = <<Open>> \o Listed(a.value)[n] \o <<Close>>
        BY <1>3, KindsOfValues
      <3> QED
        BY <3>1, SMTT(40) DEF z
    <2>2. k \in 1..n + 1
      BY <1>3 DEF Closings
    <2>3. b \in Seq(Tokens)
      <3>1. n \in 0..n
        BY <2>1
      <3> QED
        BY <3>1, <2>1, ArrayScans
    <2>4. Spelling(a, n + 1) = b
      <3>1. n + 1 \in 1..n + 1 /\ (n + 1) - 1 = n
        BY <2>1
      <3> QED
        BY <3>1, <2>1
    <2>5. s \in Seq(Tokens)
      BY SpellingScans
    <2>6. CASE k = n + 1
      <3>1. Place(a, k) = Len(b \o z)
        <4>1. ~(k <= n)
          BY <2>1, <2>6
        <4> QED
          BY <4>1, <2>1, <1>3 DEF Place
      <3> HIDE DEF b
      <3>2. Len(b \o z) = Len(b) + 1 /\ Len(b) \in Nat
        <4>1. Len(b \o z) = Len(b) + Len(z)
          BY <1>0, <2>3, ConcatParts
        <4> QED
          BY <4>1, <1>0, <2>3
      <3>3. CASE upto = n + 2
        <4> DEFINE x == b \o z
        <4>1. x = b \o <<Close>> /\ s = x /\ x \in Seq(Tokens)
          BY <2>1, <2>3, <3>3, <1>0, ConcatParts DEF z
        <4>2. Without((b \o <<Close>>) \o none, Len(b) + 1) = b \o none
          BY <2>3, <1>0, TakenOut
        <4>3. x \o none = x /\ b \o none = b
          <5> HIDE DEF x
          <5> QED
            BY <4>1, <2>3 DEF none
        <4> HIDE DEF s, x
        <4>4. w = b
          BY <4>1, <4>2, <4>3, <3>1, <3>2 DEF x
        <4> QED
          BY <4>4, <2>1, <2>4, <2>6, <3>3, <1>3 DEF s
      <3>4. CASE upto # n + 2
        <4>1. upto \in 1..n + 1 /\ upto - 1 \in 0..n /\ n \in (upto - 1)..n /\ upto <= k
          BY <2>1, <2>6, <3>4
        <4>2. Begins(s, b)
          <5> DEFINE l == Listed(a.value)[upto - 1]
                     o == <<Open>>
                     all == Listed(a.value)[n]
          <5>1. l \in Seq(Tokens) /\ all \in Seq(Tokens) /\ Begins(l, all) /\ o \in Seq(Tokens)
            <6>1. n \in 0..n /\ upto - 1 \in 0..n /\ n \in (upto - 1)..n /\ a.value \in Seq(Seq(Tokens))
              BY <4>1, <2>1
            <6>2. l \in Seq(Tokens) /\ all \in Seq(Tokens)
              BY <6>1, ListedSteps
            <6>3. Begins(l, all)
              BY <6>1, ListedGrows DEF Begins
            <6>4. o \in Seq(Tokens)
              BY TokensAreDistinct DEF Delimiters
            <6> QED
              BY <6>2, <6>3, <6>4
          <5> HIDE DEF l, o, all
          <5>2. Begins(o \o l, o \o all)
            BY <5>1, BeginsParts
          <5> QED
            BY <5>2, <4>1, <2>1 DEF o, l, all, b
        <4>3. Len(s) <= Len(b)
          <5>1. PICK rest \in Seq(Tokens) : b = s \o rest
            BY <4>2 DEF Begins
          <5> HIDE DEF s
          <5>2. Len(b) = Len(s) + Len(rest) /\ Len(s) \in Nat /\ Len(rest) \in Nat
            BY <5>1, <2>5, ConcatParts
          <5> QED
            BY <5>2
        <4> HIDE DEF s
        <4>4. w = s
          <5>1. Len(b) + 1 \in Nat /\ Len(b) + 1 > Len(s)
            BY <2>5, <3>2, <4>3
          <5>2. \A place \in Nat : place > Len(s) => Without(s, place) = s
            BY <2>5, <1>0, TakenOut
          <5> QED
            BY <5>1, <5>2, <3>1, <3>2
        <4>5. ~(k <= n)
          BY <2>1, <2>6
        <4> QED
          BY <4>1, <4>4, <4>5, <1>3 DEF s
      <3> QED
        BY <3>3, <3>4
    <2>7. CASE k # n + 1
      <3>1. k \in 1..n /\ k <= n
        BY <2>1, <2>2, <2>7
      <3>2. begun \in Seq(Tokens) /\ Len(begun) \in Nat
        BY <3>1, <2>1, BegunOpens
      <3>3. Place(a, k) = Len(begun) + 1
        BY <3>1, <2>1, <1>3, BegunParts DEF Place
      <3>4. CASE upto <= k
        <4>1. upto \in 1..n + 1 /\ upto - 1 \in 0..k - 1
          BY <2>1, <3>1, <3>4
        <4>2. Begins(s, begun)
          BY <4>1, <3>1, <2>1, BegunParts
        <4>3. Len(s) <= Len(begun)
          <5>1. PICK rest \in Seq(Tokens) : begun = s \o rest
            BY <4>2 DEF Begins
          <5> HIDE DEF s, begun
          <5>2. Len(begun) = Len(s) + Len(rest) /\ Len(s) \in Nat /\ Len(rest) \in Nat
            BY <5>1, <2>5, ConcatParts
          <5> QED
            BY <5>2
        <4> HIDE DEF s, begun
        <4>4. w = s
          <5>1. Len(begun) + 1 \in Nat /\ Len(begun) + 1 > Len(s)
            BY <2>5, <3>2, <4>3
          <5>2. \A place \in Nat : place > Len(s) => Without(s, place) = s
            BY <2>5, <1>0, TakenOut
          <5> QED
            BY <5>1, <5>2, <3>3
        <4> QED
          BY <3>4, <4>2, <4>4, <1>3 DEF s, begun
      <3>5. CASE ~(upto <= k)
        <4>1. k < upto /\ upto \in 1..n + 2
          BY <3>1, <3>5, <2>1
        <4> HIDE DEF begun
        <4>2. ASSUME NEW rest \in Seq(Tokens), s = (begun \o <<Quote>>) \o rest PROVE w = begun \o rest
          <5>1. Without((begun \o <<Quote>>) \o rest, Len(begun) + 1) = begun \o rest
            BY <3>2, <1>0, TakenOut
          <5> HIDE DEF s
          <5> QED
            BY <5>1, <4>2, <3>3
        <4>3. CASE upto # n + 2
          <5>1. upto \in 1..n + 1 /\ upto - 1 \in k..n
            <6>1. n \in Nat
              BY <2>1
            <6> HIDE DEF n
            <6> QED
              BY <6>1, <4>1, <4>3, <3>1
          <5>2. PICK rest \in Seq(Tokens) :
                    /\ <<Open>> \o Listed(a.value)[upto - 1] = (begun \o <<Quote>>) \o rest
                    /\ k < n => Begins(<<Comma>>, rest)
                    /\ upto - 1 = n /\ k = n => rest = <<>>
            BY <5>1, <3>1, <2>1, BegunParts DEF begun
          <5>3. s = (begun \o <<Quote>>) \o rest
            BY <5>1, <5>2, <2>1
          <5>4. k = n => Plain(rest)
            <6>1. k = n => upto - 1 = n
              BY <5>1
            <6> QED
              BY <6>1, <5>2, <1>0 DEF none
          <5>5. Goal
            BY <5>2, <5>3, <5>4, <4>2
          <5> QED
            BY <5>5, <4>1, <3>1, <1>3 DEF begun
        <4>4. CASE upto = n + 2
          <5>1. n \in k..n
            BY <3>1, <2>1
          <5>2. PICK rest \in Seq(Tokens) :
                    /\ b = (begun \o <<Quote>>) \o rest
                    /\ k < n => Begins(<<Comma>>, rest)
                    /\ n = n /\ k = n => rest = <<>>
            BY <5>1, <3>1, <2>1, BegunParts DEF begun
          <5> DEFINE more == rest \o z
                     x == begun \o <<Quote>>
          <5>3. more \in Seq(Tokens) /\ x \in Seq(Tokens)
            <6>1. <<Quote>> \in Seq(Tokens)
              BY <1>0
            <6> QED
              BY <6>1, <1>0, <3>2, ConcatParts
          <5>4. (x \o rest) \o z = x \o (rest \o z)
            <6> HIDE DEF x
            <6> QED
              BY <5>3, <1>0, ConcatAssociates
          <5>5. s = x \o more
            BY <5>2, <5>4, <4>4, <2>1
          <5>6. k = n => Plain(more)
            BY <5>2, <1>0, PlainBoth DEF none
          <5>7. k < n => Begins(<<Comma>>, more)
            <6>1. <<Comma>> \in Seq(Tokens)
              BY TokensAreDistinct DEF Delimiters
            <6> QED
              BY <6>1, <5>2, <1>0, BeginsParts
          <5> HIDE DEF more
          <5>8. Goal
            BY <5>3, <5>5, <5>6, <5>7, <4>2 DEF x
          <5> QED
            BY <5>8, <4>1, <3>1, <1>3 DEF begun
        <4> QED
          BY <4>3, <4>4
      <3> QED
        BY <3>4, <3>5
    <2> QED
      BY <2>6, <2>7
  <1> QED
    BY <1>1, <1>2, <1>3 DEF Meaningful

\* A text goes on as it starts, and what is behind a part is determined by the whole.
LEMMA GoesOnAsItStarts ==
    ASSUME NEW s \in Seq(Tokens), NEW u \in Seq(Tokens)
    PROVE  /\ \A token : StartsWith(s, token) => StartsWith(s \o u, token)
           /\ \A v \in Seq(Tokens) : s \o u = s \o v => u = v
  <1> DEFINE w == s \o u
  <1>1. ASSUME NEW token, StartsWith(s, token) PROVE StartsWith(w, token)
    <2>1. Len(s) # 0 /\ s[1] = token
      BY <1>1 DEF StartsWith
    <2>2. w \in Seq(Tokens) /\ Len(w) = Len(s) + Len(u) /\ w[1] = s[1]
      BY <2>1, ConcatParts
    <2> HIDE DEF w
    <2>3. Len(w) # 0 /\ w[1] = token
      BY <2>1, <2>2
    <2> QED
      BY <2>2, <2>3, FirstTokens
  <1>2. ASSUME NEW v \in Seq(Tokens), s \o u = s \o v PROVE u = v
    <2>1. /\ SubSeq(s \o u, Len(s) + 1, Len(s \o u)) = u
          /\ SubSeq(s \o v, Len(s) + 1, Len(s \o v)) = v
      BY Parts
    <2> QED
      BY <2>1, <1>2
  <1> QED
    BY <1>1, <1>2

\* A line that leaves a string open keeps what can be in the string, comment or not.
LEMMA OpenLine ==
    ASSUME NEW p \in Seq(Tokens), Hides(p, {Hash}), NEW s \in Seq(Tokens), Hides(s, {Hash}),
           NEW b \in Seq(Tokens), Opens(b), NEW tail \in Seq(Tokens), Plain(tail)
    PROVE  /\ StripComment((p \o b) \o tail) = (p \o b) \o tail
           /\ Opens((s \o b) \o tail)
  <1> DEFINE x == p \o b
             y == s \o b
  <1>1. x \in Seq(Tokens) /\ y \in Seq(Tokens) /\ Opens(x) /\ Opens(y)
    BY ConcatParts, OpensBoth
  <1> HIDE DEF x, y
  <1>2. StripComment(x \o tail) = x \o tail /\ Opens(y \o tail)
    <2>1. Opens(x \o tail) /\ Opens(y \o tail) /\ x \o tail \in Seq(Tokens)
      BY <1>1, OpenStays, ConcatParts
    <2> QED
      BY <2>1, StripTyped DEF Opens
  <1> QED
    BY <1>2 DEF x, y

\* And a comma in it, whatever follows.
LEMMA CommaInside ==
    ASSUME NEW p \in Seq(Tokens), Hides(p, {Hash}), NEW b \in Seq(Tokens), Opens(b),
           NEW c \in Seq(Tokens), Len(c) = 1, NEW tail \in Seq(Tokens)
    PROVE  Begins((p \o b) \o c, StripComment(((p \o b) \o c) \o tail))
  <1> DEFINE x == p \o b
  <1>1. x \in Seq(Tokens) /\ Opens(x)
    BY ConcatParts, OpensBoth
  <1> HIDE DEF x
  <1>2. Outside(x \o c, Hash) = {} /\ x \o c \in Seq(Tokens)
    BY <1>1, OpenStays, ConcatParts
  <1>3. Begins(x \o c, StripComment((x \o c) \o tail))
    BY <1>2, StripKeeps
  <1> QED
    BY <1>3 DEF x

\* What a value that misses its delimiter number k has become once the place of the
\* delimiter is read: a string that does not end, an array that a comma tears inside a
\* string, or that ends in one, or that ends without its bracket.
Harmed(a, k, v) ==
    \/ a.kind = "text" /\ \E rest \in Seq(Tokens) : v = Half(a.value) \o rest /\ Plain(rest)
    \/ /\ a.kind = "array" /\ StartsWith(v, Open)
       /\ \/ k < Len(a.value) /\ Begins(Begun(a.value, k) \o <<Comma>>, v)
          \/ k = Len(a.value) /\ Scan(v)[Len(v)] = InString
          \/ k = Len(a.value) + 1 /\ Scan(v)[Len(v)] = NoString

\* A line is its code and its comment.
LEMMA CodeAndComment ==
    ASSUME NEW code \in Seq(Tokens), NEW line \in Seq(Tokens), IsCode(code, line)
    PROVE  Comment(code, line) \in Seq(Tokens) /\ line = code \o Comment(code, line)
  <1> DEFINE n == Len(code)
             m == Len(line)
             c == SubSeq(line, n + 1, m)
             w == code \o c
  <1>1. n \in Nat /\ m \in Nat /\ n <= m /\ \A i \in 1..n : line[i] = code[i]
    BY PrefixParts DEF IsCode
  <1> HIDE DEF n
  <1>2. c \in Seq(Tokens) /\ Len(c) = m - n /\ \A i \in 1..m - n : c[i] = line[n + i]
    BY <1>1
  <1> HIDE DEF c, m
  <1>3. /\ w \in Seq(Tokens) /\ Len(w) = n + Len(c)
        /\ (\A i \in 1..n : w[i] = code[i]) /\ \A i \in 1..Len(c) : w[n + i] = c[i]
    BY <1>2, ConcatParts DEF n
  <1> HIDE DEF w
  <1>4. ASSUME NEW i \in 1..m PROVE w[i] = line[i]
    <2>1. CASE i \in 1..n
      BY <2>1, <1>1, <1>3
    <2>2. CASE i \notin 1..n
      <3>1. i - n \in 1..m - n /\ n + (i - n) = i
        BY <2>2, <1>1
      <3>2. w[n + (i - n)] = c[i - n] /\ c[i - n] = line[n + (i - n)]
        BY <3>1, <1>2, <1>3
      <3> QED
        BY <3>1, <3>2
    <2> QED
      BY <2>1, <2>2
  <1>5. Len(w) = m
    BY <1>1, <1>2, <1>3
  <1>6. w = line
    BY <1>3, <1>4, <1>5 DEF m
  <1> QED
    BY <1>2, <1>6 DEF Comment, w, c, n, m

\* An array as far as its last string scans as one that is not closed.
LEMMA OpenArray ==
    ASSUME NEW texts \in Seq(Seq(Tokens)), NEW k \in 0..Len(texts)
    PROVE  LET begun == <<Open>> \o Listed(texts)[k] IN
           /\ begun \in Seq(Tokens) /\ StartsWith(begun, Open) /\ Hides(begun, {Hash})
           /\ Scan(begun)[Len(begun)] = NoString /\ UnbalancedBrackets(begun) = 1
  <1> DEFINE begun == <<Open>> \o Listed(texts)[k]
  <1>1. /\ begun \in Seq(Tokens) /\ begun # <<>> /\ Head(begun) = Open /\ Hides(begun, {Hash})
        /\ Outside(begun, Open) = {1} /\ Outside(begun, Close) = {}
    BY ArrayScans
  <1> HIDE DEF begun
  <1>2. Cardinality({1}) = 1 /\ Cardinality({}) = 0
    BY FS_EmptySet, FS_Singleton
  <1>3. UnbalancedBrackets(begun) = 1
    BY <1>1, <1>2 DEF UnbalancedBrackets
  <1> QED
    BY <1>1, <1>3 DEF StartsWith, Hides, begun

\* What is said of texts here without looking into them.
Texts == Seq(Tokens)
Associates(s, t, u) == (s \o t) \o u = s \o (t \o u)
\* It does not matter in which order three of them are put together,
LEMMA TextsAssociate ==
    ASSUME NEW s \in Texts, NEW t \in Texts, NEW u \in Texts
    PROVE  Associates(s, t, u)
  BY ConcatAssociates DEF Texts, Associates
\* and two of them form one.
LEMMA TextsTogether ==
    ASSUME NEW s \in Texts, NEW t \in Texts
    PROVE  s \o t \in Texts
  BY ConcatParts DEF Texts

\* The line brings to the value s what is in it behind p: all there is, or at least a comma.
KeepsAll(p, s, b, line) ==
    \E tail \in Texts, y \in Texts :
        /\ StripComment(line) = p \o y /\ s \o y = (s \o b) \o tail
        /\ Plain(tail) /\ Opens(s \o y)
KeepsComma(p, s, b, line) ==
    \E tail \in Texts, y \in Texts :
        StripComment(line) = p \o y /\ s \o y = ((s \o b) \o <<Comma>>) \o tail

\* A line that leaves a string of a value open, in which there is more of the value and a
\* comment: without quotes in these all of it is value, and a comma in any case.
LEMMA InsideAString ==
    ASSUME NEW p \in Texts, Hides(p, {Hash}), NEW s \in Texts, Hides(s, {Hash}),
           NEW b \in Texts, Opens(b), NEW rest \in Texts, NEW c \in Texts
    PROVE  /\ Plain(rest) /\ Plain(c) => KeepsAll(p, s, b, (p \o (b \o rest)) \o c)
           /\ Begins(<<Comma>>, rest) => KeepsComma(p, s, b, (p \o (b \o rest)) \o c)
  <1> DEFINE line == (p \o (b \o rest)) \o c
             x == p \o b
             v == s \o b
  <1>1. x \in Texts /\ v \in Texts
    BY TextsTogether
  <1>2. line = (x \o rest) \o c
    <2>1. Associates(p, b, rest)
      BY TextsAssociate
    <2> QED
      BY <2>1 DEF Associates
  <1>3. ASSUME NEW tail \in Texts
        PROVE  b \o tail \in Texts /\ x \o tail = p \o (b \o tail) /\ v \o tail = s \o (b \o tail)
    <2>1. Associates(p, b, tail) /\ Associates(s, b, tail)
      BY TextsAssociate
    <2>2. b \o tail \in Texts
      BY TextsTogether
    <2> QED
      BY <2>1, <2>2 DEF Associates
  <1> HIDE DEF line
  <1>4. ASSUME Plain(rest), Plain(c)
        PROVE  \E tail \in Texts, y \in Texts :
                  /\ StripComment(line) = p \o y /\ s \o y = v \o tail
                  /\ Plain(tail) /\ Opens(s \o y)
    <2> DEFINE tail == rest \o c
    <2>1. tail \in Texts
      BY TextsTogether
    <2>2. Plain(tail)
      BY <1>4, PlainBoth DEF Texts
    <2>3. line = x \o tail
      <3> HIDE DEF x
      <3>1. Associates(x, rest, c)
        BY <1>1, TextsAssociate
      <3> QED
        BY <3>1, <1>2 DEF Associates
    <2> HIDE DEF tail
    <2>4. StripComment((p \o b) \o tail) = (p \o b) \o tail /\ Opens((s \o b) \o tail)
      <3>1. /\ p \in Seq(Tokens) /\ s \in Seq(Tokens) /\ b \in Seq(Tokens) /\ tail \in Seq(Tokens)
        BY <2>1 DEF Texts
      <3> QED
        BY <3>1, <2>2, OpenLine, ZenonT(40)
    <2>5. b \o tail \in Texts /\ x \o tail = p \o (b \o tail) /\ v \o tail = s \o (b \o tail)
      BY <2>1, <1>3
    <2> HIDE DEF x, v
    <2> QED
      BY <2>1, <2>2, <2>3, <2>4, <2>5 DEF x, v
  <1>5. ASSUME Begins(<<Comma>>, rest)
        PROVE  \E tail \in Texts, y \in Texts :
                  StripComment(line) = p \o y /\ s \o y = (v \o <<Comma>>) \o tail
    <2> DEFINE comma == <<Comma>>
    <2>1. comma \in Seq(Tokens) /\ comma \in Texts /\ Len(comma) = 1
      BY TokensAreDistinct DEF Delimiters, Texts
    <2>2. PICK more \in Texts : rest = comma \o more
      BY <1>5 DEF Begins, Texts
    <2> HIDE DEF comma
    <2> DEFINE end == more \o c
    <2>3. end \in Texts
      BY TextsTogether
    <2>4. line = (x \o comma) \o end
      <3> HIDE DEF x
      <3>0. x \o comma \in Texts
        BY <1>1, <2>1, TextsTogether
      <3>1. Associates(x, comma, more)
        BY <1>1, <2>1, TextsAssociate
      <3>2. Associates(x \o comma, more, c)
        BY <3>0, TextsAssociate
      <3> QED
        BY <3>1, <3>2, <1>2, <2>2 DEF Associates
    <2> HIDE DEF end
    <2>5. Begins((p \o b) \o comma, StripComment(((p \o b) \o comma) \o end))
      <3>1. p \in Seq(Tokens) /\ b \in Seq(Tokens) /\ end \in Seq(Tokens)
        BY <2>3 DEF Texts
      <3> QED
        BY <3>1, <2>1, CommaInside
    <2>6. PICK r \in Texts : StripComment(line) = (x \o comma) \o r
      BY <2>4, <2>5 DEF Begins, Texts
    <2> DEFINE tail == comma \o r
    <2>7. tail \in Texts /\ (x \o comma) \o r = x \o tail /\ (v \o comma) \o r = v \o tail
      <3> HIDE DEF x, v
      <3>1. tail \in Texts
        BY <2>1, TextsTogether
      <3>2. Associates(x, comma, r) /\ Associates(v, comma, r)
        BY <1>1, <2>1, TextsAssociate
      <3> QED
        BY <3>1, <3>2 DEF Associates
    <2> HIDE DEF tail
    <2>8. b \o tail \in Texts /\ x \o tail = p \o (b \o tail) /\ v \o tail = s \o (b \o tail)
      BY <2>7, <1>3
    <2> HIDE DEF x, v
    <2> QED
      BY <2>6, <2>7, <2>8 DEF comma
  <1> QED
    BY <1>4, <1>5 DEF line, KeepsAll, KeepsComma

\* What a line of an assignment that misses a delimiter brings behind p: either the value is
\* still what it should be so far, or it is harmed.
TornSays(a, k, upto, p, s, line) ==
    \E y \in Seq(Tokens) :
        /\ StripComment(line) = p \o y
        /\ \/ a.kind = "array" /\ upto <= k /\ s \o y = Spelling(a, upto)
           \/ /\ Harmed(a, k, s \o y) /\ (a.kind = "array" => k < upto)
              /\ a.kind = "array" /\ k = Len(a.value) + 1 => UnbalancedBrackets(s \o y) = 1

\* s is what there may be of a value before its delimiter number k.
Precedes(a, k, s) ==
    /\ a.kind = "text" => s = <<>>
    /\ a.kind = "array" /\ k <= Len(a.value) => Begins(s, Begun(a.value, k))

\* Such a line as load_toml sees it.
LEMMA TornLine ==
    ASSUME NEW a, Meaningful(a), NEW k \in Closings(a), NEW upto \in 1..Pieces(a),
           NEW p \in Seq(Tokens), Hides(p, {Hash}), NEW s \in Seq(Tokens), Hides(s, {Hash}),
           NEW x \in Seq(Tokens), NEW line \in Seq(Tokens), IsCode(p \o x, line),
           s \o x = Without(Spelling(a, upto), Place(a, k)),
           Precedes(a, k, s), ClosesString(a, k) => Plain(Comment(p \o x, line))
    PROVE  TornSays(a, k, upto, p, s, line)
  <1> DEFINE n == Len(a.value)
             w == s \o x
             c == Comment(p \o x, line)
             Goal == \E y \in Seq(Tokens) :
                        /\ StripComment(line) = p \o y
                        /\ \/ a.kind = "array" /\ upto <= k /\ s \o y = Spelling(a, upto)
                           \/ /\ Harmed(a, k, s \o y) /\ (a.kind = "array" => k < upto)
                              /\ a.kind = "array" /\ k = n + 1 => UnbalancedBrackets(s \o y) = 1
  <1> SUFFICES Goal
    BY DEF TornSays
  <1>1. p \o x \in Seq(Tokens) /\ w \in Seq(Tokens)
    BY ConcatParts
  <1>2. c \in Seq(Tokens) /\ line = (p \o x) \o c
    BY <1>1, CodeAndComment
  <1>3. \/ a.kind = "text" /\ w = Half(a.value)
        \/ /\ a.kind = "array" /\ upto <= k /\ w = Spelling(a, upto)
           /\ k <= n => Begins(w, Begun(a.value, k))
        \/ /\ a.kind = "array" /\ k <= n /\ k < upto
           /\ \E rest \in Seq(Tokens) :
                /\ w = Begun(a.value, k) \o rest
                /\ k < n => Begins(<<Comma>>, rest)
                /\ k = n => Plain(rest)
        \/ a.kind = "array" /\ k = n + 1 /\ upto = Pieces(a) /\ w = Spelling(a, n + 1)
    BY TornSpelling
  <1>4. a.kind = "array" => a.value \in Seq(Seq(Tokens)) /\ n \in Nat /\ k \in 1..n + 1
    BY DEF Meaningful, Closings
  <1>5. ASSUME Hides(w, {Hash}) PROVE StripComment(line) = p \o x
    <2>1. Hides(x, {Hash})
      BY <1>5, HidesBoth
    <2>2. Hides(p \o x, {Hash})
      BY <2>1, HidesBoth
    <2> QED
      BY <2>2, <1>1, CommentGoes
  <1>6. CASE a.kind = "text" /\ w = Half(a.value)
    <2> DEFINE h == Half(a.value)
               none == <<>>
    <2>1. h \in Seq(Tokens) /\ Opens(h) /\ Plain(c) /\ Plain(none) /\ none \in Seq(Tokens)
      BY <1>6, HalfOpens DEF Meaningful, ClosesString, Plain
    <2>2. s = none /\ none \o x = x /\ x \o none = x
      BY <1>6 DEF Precedes
    <2>3. x = h
      BY <2>2, <1>6
    <2> HIDE DEF h, c, none
    <2>4. KeepsAll(p, s, x, (p \o (x \o none)) \o c)
      <3>1. none \in Texts /\ c \in Texts /\ x \in Texts /\ p \in Texts /\ s \in Texts
        BY <2>1, <1>2 DEF Texts
      <3> QED
        BY <3>1, <2>1, <2>3, InsideAString
    <2>5. PICK tail \in Texts, y \in Texts :
             /\ StripComment((p \o (x \o none)) \o c) = p \o y /\ s \o y = (s \o x) \o tail
             /\ Plain(tail) /\ Opens(s \o y)
      BY <2>4 DEF KeepsAll
    <2>6. StripComment(line) = p \o y
      BY <2>2, <2>5, <1>2
    <2>7. s \o y = h \o tail
      BY <2>2, <2>3, <2>5
    <2>8. Harmed(a, k, s \o y)
      <3>1. tail \in Seq(Tokens)
        BY DEF Texts
      <3> QED
        BY <3>1, <2>5, <2>7, <1>6 DEF Harmed, h
    <2>9. y \in Seq(Tokens) /\ a.kind # "array"
      BY <1>6 DEF Texts
    <2> QED
      BY <2>6, <2>8, <2>9
  <1>7. CASE a.kind = "array" /\ upto <= k /\ w = Spelling(a, upto)
    <2>1. Hides(w, {Hash})
      BY <1>7, SpellingScans
    <2>2. Goal
      BY <2>1, <1>5, <1>7
    <2> QED
      BY <2>2
  <1>8. CASE a.kind = "array" /\ k = n + 1 /\ upto = Pieces(a) /\ w = Spelling(a, n + 1)
    <2>1. w = <<Open>> \o Listed(a.value)[n]
      <3>1. n + 1 \in 1..n + 1 /\ (n + 1) - 1 = n
        BY <1>4, <1>8
      <3>2. \A i \in 1..n + 1 : Spelling(a, i) = <<Open>> \o Listed(a.value)[i - 1]
        BY <1>8, KindsOfValues
      <3> QED
        BY <3>1, <3>2, <1>8
    <2>2. /\ StartsWith(w, Open) /\ Hides(w, {Hash})
          /\ Scan(w)[Len(w)] = NoString /\ UnbalancedBrackets(w) = 1
      <3>1. n \in 0..n
        BY <1>4, <1>8
      <3> HIDE DEF w, n
      <3> QED
        BY <3>1, <2>1, <1>4, <1>8, OpenArray DEF n
    <2>3. Harmed(a, k, w)
      BY <2>2, <1>8 DEF Harmed
    <2>4. k < upto
      <3>1. Pieces(a) = n + 2
        BY <1>8, KindsOfValues
      <3> QED
        BY <3>1, <1>4, <1>8
    <2>5. Goal
      BY <2>2, <2>3, <2>4, <1>5, <1>8
    <2> QED
      BY <2>5
  <1>9. ASSUME a.kind = "array", k <= n, k < upto, NEW rest \in Seq(Tokens), w = Begun(a.value, k) \o rest,
               k < n => Begins(<<Comma>>, rest), k = n => Plain(rest)
        PROVE  Goal
    <2> DEFINE begun == Begun(a.value, k)
    <2>1. begun \in Seq(Tokens) /\ Opens(begun) /\ StartsWith(begun, Open) /\ k # n + 1
      <3>1. k \in 1..n /\ k # n + 1
        BY <1>4, <1>9
      <3> QED
        BY <3>1, <1>4, <1>9, BegunOpens
    <2>2. PICK b \in Texts : begun = s \o b
      BY <1>9 DEF Begins, Texts, Precedes
    <2> HIDE DEF begun, c
    <2>3. p \in Texts /\ s \in Texts /\ x \in Texts /\ c \in Texts /\ rest \in Texts /\ b \in Seq(Tokens)
      BY <1>2, <1>9 DEF Texts
    <2>4. x = b \o rest
      <3>1. Associates(s, b, rest) /\ b \o rest \in Texts
        BY <2>3, TextsAssociate, TextsTogether
      <3>2. s \o x = s \o (b \o rest)
        BY <3>1, <2>2, <1>9 DEF Associates, begun
      <3> DEFINE u == b \o rest
      <3>3. u \in Seq(Tokens)
        BY <3>1 DEF Texts
      <3> HIDE DEF u
      <3>4. s \o x = s \o u => x = u
        BY <3>3, GoesOnAsItStarts
      <3> QED
        BY <3>2, <3>4 DEF u
    <2>5. Opens(b)
      BY <2>1, <2>2, <2>3, OpensBoth
    <2>6. line = (p \o (b \o rest)) \o c
      BY <2>4, <1>2
    <2>7. CASE k = n
      <3>1. Plain(c) /\ Plain(rest)
        BY <1>9, <2>7 DEF ClosesString, c
      <3>2. KeepsAll(p, s, b, (p \o (b \o rest)) \o c)
        BY <3>1, <2>3, <2>5, InsideAString
      <3>3. PICK tail \in Texts, y \in Texts :
               StripComment(line) = p \o y /\ s \o y = begun \o tail /\ Opens(s \o y)
        BY <3>2, <2>2, <2>6 DEF KeepsAll
      <3>4. StartsWith(s \o y, Open)
        BY <3>3, <2>1, GoesOnAsItStarts DEF Texts
      <3>5. Harmed(a, k, s \o y)
        BY <3>3, <3>4, <1>9, <2>7 DEF Harmed, Opens
      <3>6. y \in Seq(Tokens)
        BY DEF Texts
      <3> QED
        BY <3>3, <3>5, <3>6, <2>1, <1>9
    <2>8. CASE k # n
      <3> DEFINE comma == <<Comma>>
                 more == begun \o comma
      <3>1. comma \in Seq(Tokens) /\ k < n
        BY <1>4, <1>9, <2>8, TokensAreDistinct DEF Delimiters
      <3>2. KeepsComma(p, s, b, (p \o (b \o rest)) \o c)
        BY <3>1, <1>9, <2>3, <2>5, InsideAString
      <3>3. PICK tail \in Texts, y \in Texts :
               StripComment(line) = p \o y /\ s \o y = (begun \o <<Comma>>) \o tail
        BY <3>2, <2>2, <2>6 DEF KeepsComma
      <3> HIDE DEF comma
      <3>4. more \in Seq(Tokens) /\ StartsWith(more, Open)
        BY <3>1, <2>1, ConcatParts, GoesOnAsItStarts
      <3> HIDE DEF more
      <3>5. tail \in Seq(Tokens) /\ y \in Seq(Tokens) /\ s \o y = more \o tail
        BY <3>3 DEF Texts, more, comma
      <3>6. StartsWith(more \o tail, Open) /\ Begins(more, more \o tail)
        BY <3>4, <3>5, GoesOnAsItStarts DEF Begins
      <3>7. Harmed(a, k, s \o y)
        BY <3>1, <3>5, <3>6, <1>9 DEF Harmed, begun, comma, more
      <3> QED
        BY <3>3, <3>5, <3>7, <2>1, <1>9
    <2> QED
      BY <2>7, <2>8
  <1> HIDE DEF Goal
  <1>10. Goal
    BY <1>3, <1>6, <1>7, <1>8, <1>9 DEF Goal
  <1> QED
    BY <1>10

-----------------------------------------------------------------------------
(* A harmed value is no value.                                              *)

\* A string that is not closed is no value, whatever is in it.
LEMMA HalfIsMalformed ==
    ASSUME NEW text \in Seq(Tokens), NEW rest \in Seq(Tokens), Plain(rest)
    PROVE  LET v == Half(text) \o rest IN
           v \in Seq(Tokens) /\ ~StartsWith(v, Open) /\ ParseValue[v] = Malformed
  <1> DEFINE h == Half(text)
             v == h \o rest
  <1>1. h \in Seq(Tokens) /\ h[1] = Quote /\ Len(h) \in Nat /\ Len(h) # 0 /\ ParseValue[h] = Malformed
    <2>1. /\ h \in Seq(Tokens) /\ h[1] = Quote /\ Len(h) = Len(Escaped(text)) + 1
          /\ Escaped(text) \in Seq(Tokens)
      BY HalfOpens
    <2>2. Len(text) + 1 \in 1..Len(text) + 1 /\ (Len(text) + 1) - 1 = Len(text)
      OBVIOUS
    <2>3. h = Torn(text, Len(text) + 1)
      BY <2>2, EscapingStep DEF Half, Torn
    <2>4. ParseValue[Torn(text, Len(text) + 1)] = Malformed
      BY <2>2, TornIsMalformed
    <2> QED
      BY <2>1, <2>3, <2>4
  <1> HIDE DEF h
  <1>2. /\ v \in Seq(Tokens) /\ Len(v) = Len(h) + Len(rest) /\ v[1] = Quote
        /\ \A i \in 1..Len(rest) : v[Len(h) + i] = rest[i]
    <2>1. /\ v \in Seq(Tokens) /\ Len(v) = Len(h) + Len(rest) /\ (\A i \in 1..Len(h) : v[i] = h[i])
          /\ \A i \in 1..Len(rest) : v[Len(h) + i] = rest[i]
      BY <1>1, ConcatParts
    <2>2. 1 \in 1..Len(h)
      BY <1>1
    <2> HIDE DEF v
    <2> QED
      BY <2>1, <2>2, <1>1
  <1>3. rest = <<>> => v = h
    BY <1>1
  <1> HIDE DEF v
  <1>4. Len(v) # 0 /\ Len(rest) \in Nat /\ Quote # Open
    BY <1>1, <1>2, TokensAreDistinct
  <1>5. ~StartsWith(v, Open)
    BY <1>2, <1>4, FirstTokens
  <1>6. CASE rest = <<>>
    BY <1>1, <1>2, <1>3, <1>5, <1>6 DEF v, h
  <1>7. CASE rest # <<>>
    <2>1. Len(rest) \in 1..Len(rest)
      BY <1>7
    <2>2. v[Len(v)] # Quote
      BY <2>1, <1>2 DEF Plain
    <2>3. ~EndsWith(v, Quote) /\ StartsWith(v, Quote)
      BY <2>2, <1>2, <1>4, FirstTokens
    <2>4. Parsed(ParseValue, v) = Malformed
      BY <2>3, <1>5 DEF Parsed, ParseScalar
    <2> QED
      BY <2>4, <1>2, <1>5, ParseValueDefined DEF v, h
  <1> QED
    BY <1>6, <1>7

\* A string ends in an item of its own where it, or what follows it, has a comma first.
LEMMA FirstComma ==
    ASSUME NEW t \in Seq(Tokens)
    PROVE  \E j \in 1..Len(t) + 1 :
              /\ \A i \in 1..j - 1 : t[i] # Comma
              /\ Torn(t, j) \o <<Comma>> \in Seq(Tokens)
              /\ Begins(Torn(t, j) \o <<Comma>>, Half(t) \o <<Comma>>)
  <1> DEFINE c == <<Comma>>
             h == Half(t)
             marks == {i \in 1..Len(t) : t[i] = Comma}
  <1>1. c \in Seq(Tokens) /\ h \in Seq(Tokens)
    BY HalfOpens, TokensAreDistinct DEF Delimiters
  <1>2. CASE marks = {}
    <2> DEFINE j == Len(t) + 1
    <2>1. j \in 1..Len(t) + 1 /\ j - 1 = Len(t) /\ \A i \in 1..j - 1 : t[i] # Comma
      BY <1>2
    <2>2. Torn(t, j) = h
      BY <2>1, EscapingStep DEF Half, Torn
    <2> HIDE DEF j, h, c
    <2>3. h \o c \in Seq(Tokens) /\ Begins(h \o c, h \o c)
      <3> DEFINE x == h \o c
      <3>1. x \in Seq(Tokens)
        BY <1>1, ConcatParts
      <3> HIDE DEF x
      <3>2. <<>> \in Seq(Tokens) /\ x = x \o <<>>
        BY <3>1
      <3>3. Begins(x, x)
        BY <3>2 DEF Begins
      <3> QED
        BY <3>1, <3>3 DEF x
    <2> QED
      BY <2>1, <2>2, <2>3 DEF h, c
  <1>3. CASE marks # {}
    <2>1. PICK j \in marks : \A i \in marks : j <= i
      <3>1. marks \in SUBSET Nat
        OBVIOUS
      <3> HIDE DEF marks
      <3> QED
        BY <3>1, <1>3, Ops!LeastNatural
    <2>2. j \in 1..Len(t) /\ t[j] = Comma /\ j \in 1..Len(t) + 1
      OBVIOUS
    <2>3. \A i \in 1..j - 1 : t[i] # Comma
      BY <2>1
    <2>4. Torn(t, j) \o c \in Seq(Tokens) /\ Begins(Torn(t, j) \o c, h)
      BY <2>2, TornBegins
    <2> DEFINE x == Torn(t, j) \o c
    <2> HIDE DEF x, h, c
    <2>5. Begins(x, h \o c)
      BY <2>4, <1>1, BeginsParts DEF x
    <2> QED
      BY <2>2, <2>3, <2>4, <2>5 DEF x, h, c
  <1> QED
    BY <1>2, <1>3

\* A text is what comes before its last token and that token.
LEMMA LastOff ==
    ASSUME NEW s \in Seq(Tokens), Len(s) # 0
    PROVE  \E r \in Seq(Tokens) : s = r \o <<s[Len(s)]>>
  <1> DEFINE r == SubSeq(s, 1, Len(s) - 1)
             one == <<s[Len(s)]>>
             w == r \o one
  <1>1. /\ r \in Seq(Tokens) /\ Len(r) = Len(s) - 1 /\ \A i \in 1..Len(s) - 1 : r[i] = s[i]
        /\ Len(s) \in Nat
    <2>1. Len(s) \in Nat /\ Len(s) - 1 \in Nat /\ Len(s) - 1 <= Len(s)
      OBVIOUS
    <2>2. r \in Seq(Tokens) /\ Len(r) = Len(s) - 1
      <3>1. \A n \in Nat : n <= Len(s) => SubSeq(s, 1, n) \in Seq(Tokens) /\ Len(SubSeq(s, 1, n)) = n
        OBVIOUS
      <3> QED
        BY <2>1, <3>1
    <2>3. ASSUME NEW i \in 1..Len(s) - 1 PROVE r[i] = s[i]
      BY <2>1
    <2> QED
      BY <2>1, <2>2, <2>3
  <1>2. one \in Seq(Tokens) /\ Len(one) = 1 /\ one[1] = s[Len(s)]
    OBVIOUS
  <1> HIDE DEF r, one
  <1>3. /\ w \in Seq(Tokens) /\ Len(w) = Len(r) + Len(one) /\ (\A i \in 1..Len(r) : w[i] = r[i])
        /\ \A i \in 1..Len(one) : w[Len(r) + i] = one[i]
    BY <1>1, <1>2, ConcatParts
  <1> HIDE DEF w
  <1>4. Len(w) = Len(s)
    BY <1>1, <1>2, <1>3
  <1>5. \A i \in 1..Len(s) - 1 : w[i] = s[i]
    BY <1>1, <1>3
  <1>6. w[Len(s)] = s[Len(s)]
    <2>1. 1 \in 1..Len(one) /\ Len(r) + 1 = Len(s)
      BY <1>1, <1>2
    <2> QED
      BY <2>1, <1>2, <1>3
  <1>7. \A i \in 1..Len(s) : w[i] = s[i]
    BY <1>1, <1>5, <1>6
  <1>8. w = s
    BY <1>3, <1>4, <1>7
  <1> QED
    BY <1>1, <1>8 DEF w, one

\* An array of which a string is not closed and that goes on with a comma is no value.
LEMMA TornArrayIsMalformed ==
    ASSUME NEW texts \in Seq(Seq(Tokens)), NEW k \in 1..Len(texts),
           NEW v \in Seq(Tokens), Begins(Begun(texts, k) \o <<Comma>>, v)
    PROVE  ParseValue[v] = Malformed
  <1> DEFINE o == <<Open>>
             c == <<Comma>>
             l == Listed(texts)[k - 1]
             t == texts[k]
             h == Half(t)
             m == h \o c
             begun == Begun(texts, k)
  <1>1. /\ o \in Seq(Tokens) /\ c \in Seq(Tokens) /\ Len(c) = 1 /\ c[1] = Comma /\ Close # Comma
        /\ Open \in Tokens /\ Close \in Tokens
    BY TokensAreDistinct DEF Delimiters
  <1>2. l \in Seq(Tokens) /\ h \in Seq(Tokens) /\ t \in Seq(Tokens)
    <2>1. k - 1 \in 0..Len(texts) /\ t \in Seq(Tokens)
      OBVIOUS
    <2> QED
      BY <2>1, ListedSteps, HalfOpens
  <1>3. begun \in Seq(Tokens) /\ StartsWith(begun, Open)
    BY BegunOpens
  <1>4. PICK tail \in Seq(Tokens) : v = (begun \o c) \o tail
    BY DEF Begins
  <1>5. PICK j \in 1..Len(t) + 1 :
            /\ \A i \in 1..j - 1 : t[i] # Comma
            /\ Torn(t, j) \o c \in Seq(Tokens) /\ Begins(Torn(t, j) \o c, h \o c)
    BY <1>2, FirstComma
  <1> DEFINE torn == Torn(t, j) \o c
  <1> HIDE DEF torn
  <1>6. begun \o c = o \o (l \o m)
    <2> HIDE DEF o, l, h, c
    <2>1. begun = (o \o l) \o h
      BY DEF Begun, o, l, h
    <2>2. o \in Texts /\ l \in Texts /\ h \in Texts /\ c \in Texts
      BY <1>1, <1>2 DEF Texts
    <2>3. Associates(o \o l, h, c) /\ Associates(o, l, m)
      BY <2>2, TextsAssociate, TextsTogether
    <2> QED
      BY <2>1, <2>3 DEF Associates
  <1>7. begun \o c \in Seq(Tokens) /\ m \in Seq(Tokens) /\ l \o m \in Seq(Tokens)
    <2>1. begun \o c \in Seq(Tokens)
      <3> HIDE DEF begun, c
      <3> QED
        BY <1>1, <1>3, ConcatParts
    <2>2. m \in Seq(Tokens)
      <3> HIDE DEF h, c
      <3> QED
        BY <1>1, <1>2, ConcatParts
    <2> HIDE DEF l, m
    <2> QED
      BY <2>1, <2>2, <1>2, ConcatParts
  <1>8. StartsWith(v, Open)
    <2> DEFINE x == begun \o c
    <2>1. x \in Seq(Tokens) /\ StartsWith(x, Open)
      <3> HIDE DEF begun, c
      <3> QED
        BY <1>1, <1>3, <1>7, GoesOnAsItStarts
    <2> HIDE DEF x
    <2> QED
      BY <2>1, <1>4, GoesOnAsItStarts DEF x
  <1>9. CASE ~EndsWith(v, Close)
    BY <1>8, <1>9, ParseValueDefined DEF Parsed
  <1>10. CASE EndsWith(v, Close)
    <2>1. PICK more \in Seq(Tokens) : tail = more \o <<Close>>
      <3> DEFINE x == begun \o c
      <3>1. x \in Seq(Tokens) /\ Len(x) # 0 /\ x[Len(x)] = Comma
        <4> HIDE DEF begun, c
        <4>1. x \in Seq(Tokens) /\ Len(x) = Len(begun) + 1 /\ Len(begun) \in Nat
              /\ x[Len(begun) + 1] = c[1]
          <5>1. 1 \in 1..Len(c)
            BY <1>1
          <5>2. x \in Seq(Tokens) /\ Len(x) = Len(begun) + Len(c)
                /\ \A i \in 1..Len(c) : x[Len(begun) + i] = c[i]
            BY <1>1, <1>3, ConcatParts
          <5> HIDE DEF x
          <5> QED
            BY <5>1, <5>2, <1>1, <1>3
        <4> HIDE DEF x
        <4> QED
          BY <4>1, <1>1
      <3> HIDE DEF x
      <3>2. Len(tail) # 0
        <4> SUFFICES ASSUME Len(tail) = 0 PROVE FALSE
          OBVIOUS
        <4>1. tail = <<>> /\ x \o <<>> = x
          BY <3>1
        <4>2. v = x
          BY <4>1, <1>4 DEF x
        <4> QED
          BY <4>2, <3>1, <1>1, <1>10, FirstTokens
      <3>3. tail[Len(tail)] = Close
        <4>1. v = x \o tail /\ Len(tail) \in 1..Len(tail)
          BY <3>2, <1>4 DEF x
        <4>2. Len(x \o tail) = Len(x) + Len(tail) /\ (x \o tail)[Len(x) + Len(tail)] = tail[Len(tail)]
          BY <3>1, <4>1, ConcatParts
        <4>3. Len(v) # 0 /\ v[Len(v)] = tail[Len(tail)]
          BY <4>1, <4>2, <3>1
        <4> QED
          BY <4>3, <1>10, FirstTokens
      <3> QED
        BY <3>2, <3>3, LastOff
    <2> DEFINE u == (l \o m) \o more
               z == <<Close>>
    <2>2. u \in Seq(Tokens) /\ z \in Seq(Tokens)
      <3>1. z \in Seq(Tokens)
        BY <1>1
      <3> DEFINE x == l \o m
      <3>2. x \in Seq(Tokens)
        BY <1>7
      <3> HIDE DEF x, z
      <3>3. x \o more \in Seq(Tokens)
        BY <3>2, ConcatParts
      <3> QED
        BY <3>1, <3>3 DEF x
    <2>3. Inner(v) = u
      <3> DEFINE x == l \o m
      <3> HIDE DEF o, z, x, c, begun
      <3>1. o \in Texts /\ x \in Texts /\ more \in Texts /\ z \in Texts
        BY <1>1, <1>7, <2>2 DEF Texts, x
      <3>2. Associates(o \o x, more, z) /\ Associates(o, x, more)
        BY <3>1, TextsAssociate, TextsTogether
      <3>3. v = (o \o x) \o (more \o z)
        BY <1>4, <1>6, <2>1 DEF x, z
      <3>4. v = (o \o (x \o more)) \o z
        BY <3>2, <3>3 DEF Associates
      <3> DEFINE y == x \o more
      <3>5. y \in Seq(Tokens)
        BY <2>2 DEF x
      <3> HIDE DEF y
      <3>6. Inner((<<Open>> \o y) \o <<Close>>) = y
        BY <3>5, <1>1, InnerOf
      <3> QED
        BY <3>4, <3>6 DEF y, x, o, z
    <2>4. Begins(l \o torn, u)
      <3>1. torn \in Seq(Tokens) /\ Begins(torn, m)
        BY <1>5 DEF torn
      <3> DEFINE x == l \o m
                 y == l \o torn
      <3>2. x \in Seq(Tokens)
        BY <1>7
      <3> HIDE DEF l, m
      <3>3. y \in Seq(Tokens) /\ Begins(y, x)
        BY <3>1, <1>2, <1>7, ConcatParts, BeginsParts
      <3> HIDE DEF x, y
      <3>4. Begins(y, x \o more)
        BY <3>2, <3>3, BeginsParts
      <3> QED
        BY <3>4 DEF x, y
    <2> HIDE DEF u
    <2>5. Torn(t, j) \in Range(SplitItems(u))
      <3>1. /\ j \in 1..Len(texts[k]) + 1 /\ \A i \in 1..j - 1 : texts[k][i] # Comma
            /\ u \in Seq(Tokens)
        BY <2>2, <1>5
      <3>2. Begins(Listed(texts)[k - 1] \o (Torn(texts[k], j) \o <<Comma>>), u)
        BY <2>4 DEF torn
      <3>3. Torn(texts[k], j) \in Range(SplitItems(u))
        BY <3>1, <3>2, TearsOff
      <3> QED
        BY <3>3
    <2>6. ParseValue[Torn(t, j)] = Malformed
      BY <1>2, TornIsMalformed
    <2> DEFINE items == SplitItems(Inner(v))
               parsed == [i \in DOMAIN items |-> ParseValue[items[i]]]
    <2>7. Malformed \in Range(parsed)
      <3>1. PICK i \in DOMAIN items : items[i] = Torn(t, j)
        BY <2>3, <2>5 DEF Range
      <3>2. parsed[i] = Malformed /\ i \in DOMAIN parsed
        BY <3>1, <2>6
      <3> HIDE DEF parsed
      <3> QED
        BY <3>2 DEF Range
    <2>8. Parsed(ParseValue, v) = Malformed
      BY <2>7, <1>8, Zenon DEF Parsed
    <2> QED
      BY <2>8, ParseValueDefined
  <1> QED
    BY <1>9, <1>10

\* What is harmed is not stored: it is continued, or it is no value.
LEMMA HarmedIsNotStored ==
    ASSUME NEW a, Meaningful(a), NEW k \in Closings(a), NEW v \in Seq(Tokens), Harmed(a, k, v),
           a.kind = "array" /\ k = Len(a.value) + 1 => UnbalancedBrackets(v) > 0,
           ~(StartsWith(v, Open) /\ ArrayIncomplete(v))
    PROVE  ParseValue[v] = Malformed
  <1>1. CASE a.kind = "text"
    <2>1. PICK rest \in Seq(Tokens) : v = Half(a.value) \o rest /\ Plain(rest)
      BY <1>1 DEF Harmed
    <2>2. a.value \in Seq(Tokens)
      BY <1>1 DEF Meaningful
    <2> QED
      BY <2>1, <2>2, HalfIsMalformed
  <1>2. CASE a.kind = "array"
    <2>1. a.value \in Seq(Seq(Tokens)) /\ k \in 1..Len(a.value) + 1 /\ Len(a.value) \in Nat
      BY <1>2 DEF Meaningful, Closings
    <2>2. StartsWith(v, Open) /\ ~ArrayIncomplete(v)
      BY <1>2 DEF Harmed
    <2>3. k # Len(a.value) + 1
      BY <2>2, <1>2 DEF ArrayIncomplete
    <2>4. Scan(v)[Len(v)] # InString
      BY <2>2 DEF ArrayIncomplete, UnterminatedString, InString
    <2>5. k < Len(a.value) /\ Begins(Begun(a.value, k) \o <<Comma>>, v)
      BY <2>3, <2>4, <1>2 DEF Harmed
    <2>6. k \in 1..Len(a.value)
      BY <2>1, <2>5
    <2> QED
      BY <2>1, <2>5, <2>6, TornArrayIsMalformed
  <1> QED
    BY <1>1, <1>2 DEF Harmed

\* The other lines do not put right what is harmed: not if they are closed, and bring no
\* escape where a string is open.
LEMMA HarmStays ==
    ASSUME NEW a, Meaningful(a), a.kind = "array", NEW k \in Closings(a),
           NEW v \in Seq(Tokens), Harmed(a, k, v), NEW u \in Seq(Tokens),
           k >= Len(a.value) => Scan(u)[Len(u)] = NoString,
           k = Len(a.value) => \A i \in 1..Len(u) : u[i] # Escape
    PROVE  /\ v \o u \in Seq(Tokens) /\ Harmed(a, k, v \o u)
           /\ k = Len(a.value) + 1 =>
                 /\ UnbalancedBrackets(v) \in Int /\ UnbalancedBrackets(u) \in Int
                 /\ UnbalancedBrackets(v \o u) = UnbalancedBrackets(v) + UnbalancedBrackets(u)
  <1> DEFINE n == Len(a.value)
             w == v \o u
  <1>1. a.value \in Seq(Seq(Tokens)) /\ k \in 1..n + 1 /\ n \in Nat
    BY DEF Meaningful, Closings
  <1>2. w \in Seq(Tokens) /\ StartsWith(w, Open)
    <2>1. StartsWith(v, Open)
      BY DEF Harmed
    <2> QED
      BY <2>1, ConcatParts, GoesOnAsItStarts
  <1>3. CASE k < n
    <2> DEFINE x == Begun(a.value, k) \o <<Comma>>
    <2>1. x \in Seq(Tokens)
      <3>1. k \in 1..n
        BY <1>1, <1>3
      <3>2. Begun(a.value, k) \in Seq(Tokens) /\ <<Comma>> \in Seq(Tokens)
        <4>1. <<Comma>> \in Seq(Tokens)
          BY TokensAreDistinct DEF Delimiters
        <4> QED
          BY <4>1, <3>1, <1>1, BegunOpens
      <3> QED
        BY <3>2, ConcatParts
    <2>2. Begins(x, v)
      BY <1>1, <1>3 DEF Harmed
    <2> HIDE DEF x
    <2>3. Begins(x, w)
      BY <2>1, <2>2, BeginsParts
    <2> HIDE DEF w
    <2>4. Harmed(a, k, w) /\ k # n + 1
      BY <2>3, <1>1, <1>2, <1>3 DEF Harmed, x
    <2> QED
      BY <2>4, <1>2 DEF w
  <1>4. CASE k = n
    <2>1. Scan(v)[Len(v)] = InString
      BY <1>1, <1>4 DEF Harmed
    <2>2. Scan(u)[Len(u)] = NoString
      BY <1>1, <1>4
    <2>3. Scan(w)[Len(w)] = InString
      BY <2>1, <2>2, <1>4, FlipScan
    <2> HIDE DEF w
    <2>4. Harmed(a, k, w) /\ k # n + 1
      BY <2>3, <1>1, <1>2, <1>4 DEF Harmed
    <2> QED
      BY <2>4, <1>2 DEF w
  <1>5. CASE k = n + 1
    <2>1. Scan(v)[Len(v)] = NoString
      BY <1>1, <1>5 DEF Harmed
    <2>2. Scan(u)[Len(u)] = NoString
      BY <1>1, <1>5
    <2>3. /\ UnbalancedBrackets(v) \in Int /\ UnbalancedBrackets(u) \in Int
          /\ UnbalancedBrackets(w) = UnbalancedBrackets(v) + UnbalancedBrackets(u)
          /\ Scan(w)[Len(w)] = NoString
      BY <2>1, <2>2, BracketsAdd
    <2> HIDE DEF w
    <2>4. Harmed(a, k, w)
      BY <2>3, <1>1, <1>2, <1>5 DEF Harmed
    <2> QED
      BY <2>3, <2>4, <1>2 DEF w
  <1> QED
    BY <1>1, <1>3, <1>4, <1>5

\* The scanner is outside strings behind a piece of a value, and a bracket is open until
\* the last one.
LEMMA SpellingBalance ==
    ASSUME NEW a, Meaningful(a), NEW upto \in 1..Pieces(a)
    PROVE  LET s == Spelling(a, upto) IN
           /\ s \in Seq(Tokens) /\ Scan(s)[Len(s)] = NoString
           /\ UnbalancedBrackets(s) = IF upto = Pieces(a) THEN 0 ELSE 1
  <1> DEFINE s == Spelling(a, upto)
             n == Len(a.value)
  <1>0. /\ Open \in Tokens /\ Close \in Tokens /\ Open # Quote /\ Close # Quote
        /\ Open \notin Words /\ Close \notin Words /\ Quote \notin Words
    BY TokensAreDistinct DEF Delimiters
  <1>1. s \in Seq(Tokens) /\ Scan(s)[Len(s)] = NoString
    BY SpellingScans DEF Hides
  <1>2. ASSUME Hides(s, {Open, Close}) PROVE UnbalancedBrackets(s) = 0
    <2> HIDE DEF s
    <2>1. Outside(s, Open) = {} /\ Outside(s, Close) = {}
      BY <1>1, <1>2, OutsideNone
    <2>2. Cardinality({}) = 0
      BY FS_EmptySet
    <2> QED
      BY <2>1, <2>2 DEF UnbalancedBrackets
  <1>3. CASE a.kind = "text"
    <2>1. s = Literal(a.value) /\ a.value \in Seq(Tokens) /\ Pieces(a) = 1 /\ upto = 1
      BY <1>3, KindsOfValues
    <2>2. Hides(s, Tokens \ {Quote})
      BY <2>1, LiteralHides
    <2> HIDE DEF s
    <2>3. Hides(s, {Open, Close})
      BY <2>2, <1>0, <1>1, HidesFewer
    <2> QED
      BY <2>1, <2>3, <1>1, <1>2 DEF s
  <1>4. CASE a.kind = "number"
    <2>1. s = <<a.word>> /\ a.word \in Words /\ Pieces(a) = 1 /\ upto = 1
      BY <1>4, KindsOfValues
    <2>2. a.word \in Tokens /\ a.word # Quote /\ a.word \notin {Open, Close}
      BY <2>1, <1>0 DEF Tokens
    <2>3. Hides(<<a.word>>, {Open, Close})
      BY <2>2, SmallHides
    <2> QED
      BY <2>1, <2>3, <1>1, <1>2
  <1>5. CASE a.kind = "array"
    <2>1. /\ a.value \in Seq(Seq(Tokens)) /\ Pieces(a) = n + 2 /\ n \in Nat /\ n \in 0..n
          /\ \A i \in 1..n + 1 : Spelling(a, i) = <<Open>> \o Listed(a.value)[i - 1]
          /\ Spelling(a, Pieces(a)) = <<Open>> \o Listed(a.value)[n] \o <<Close>>
      <3>1. /\ a.value \in Seq(Seq(Tokens)) /\ Pieces(a) = n + 2
            /\ \A i \in 1..n + 1 : Spelling(a, i) = <<Open>> \o Listed(a.value)[i - 1]
            /\ Spelling(a, Pieces(a)) = <<Open>> \o Listed(a.value)[n] \o <<Close>>
        BY <1>5, KindsOfValues
      <3>2. n \in Nat
        BY <3>1
      <3> HIDE DEF n
      <3> QED
        BY <3>1, <3>2, SMTT(40)
    <2>2. CASE upto = Pieces(a)
      <3> DEFINE whole == (<<Open>> \o Listed(a.value)[n]) \o <<Close>>
      <3>1. Outside(whole, Open) = {1} /\ Outside(whole, Close) = {Len(whole)}
        BY <2>1, ArrayScans
      <3> HIDE DEF whole
      <3>2. Cardinality({1}) = 1 /\ Cardinality({Len(whole)}) = 1
        BY FS_Singleton
      <3>3. UnbalancedBrackets(whole) = 0
        BY <3>1, <3>2 DEF UnbalancedBrackets
      <3> QED
        BY <3>3, <2>1, <2>2, <1>1 DEF whole
    <2>3. CASE upto # Pieces(a)
      <3>1. upto \in 1..n + 1 /\ upto - 1 \in 0..n
        BY <2>1, <2>3
      <3>2. s = <<Open>> \o Listed(a.value)[upto - 1]
        BY <3>1, <2>1
      <3>3. UnbalancedBrackets(<<Open>> \o Listed(a.value)[upto - 1]) = 1
        BY <3>1, <2>1, OpenArray
      <3> QED
        BY <3>2, <3>3, <2>3, <1>1
    <2> QED
      BY <2>2, <2>3
  <1> QED
    BY <1>3, <1>4, <1>5 DEF Meaningful

\* A text without an escape.
EscapeFree(s) == \A i \in 1..Len(s) : s[i] # Escape

\* Texts without one have parts without, and the other way round.
LEMMA EscapeFreeBoth ==
    ASSUME NEW s \in Seq(Tokens), NEW u \in Seq(Tokens)
    PROVE  EscapeFree(s \o u) <=> EscapeFree(s) /\ EscapeFree(u)
  <1> DEFINE w == s \o u
             m == Len(s)
             n == Len(u)
  <1>1. /\ m \in Nat /\ n \in Nat /\ Len(w) = m + n
        /\ (\A i \in 1..m : w[i] = s[i]) /\ \A i \in 1..n : w[m + i] = u[i]
    BY ConcatParts
  <1> HIDE DEF w, m, n
  <1>2. ASSUME EscapeFree(w) PROVE EscapeFree(s) /\ EscapeFree(u)
    <2>1. \A i \in 1..m : i \in 1..Len(w)
      BY <1>1
    <2>2. \A i \in 1..n : m + i \in 1..Len(w)
      BY <1>1
    <2> QED
      BY <2>1, <2>2, <1>1, <1>2 DEF EscapeFree, m, n
  <1>3. ASSUME EscapeFree(s), EscapeFree(u), NEW i \in 1..Len(w) PROVE w[i] # Escape
    <2>1. CASE i \in 1..m
      BY <2>1, <1>1, <1>3 DEF EscapeFree, m
    <2>2. CASE i \notin 1..m
      <3>1. i - m \in 1..n /\ m + (i - m) = i
        BY <2>2, <1>1
      <3> QED
        BY <3>1, <1>1, <1>3 DEF EscapeFree, n
    <2> QED
      BY <2>1, <2>2
  <1> QED
    BY <1>2, <1>3 DEF EscapeFree, w

\* No escape comes from a text that has neither quote nor escape.
LEMMA LiteralIsEscapeFree ==
    ASSUME NEW text \in Seq(Tokens), {Quote, Escape} \cap Range(text) = {}
    PROVE  EscapeFree(Literal(text))
  <1> DEFINE E == Escaping(text)
             n == Len(text)
             H == {i \in Nat : EscapeFree(E[i])}
             q == <<Quote>>
             e == Escaped(text)
  <1>1. /\ n \in Nat /\ \A i \in 1..n : text[i] \in Tokens /\ text[i] \notin {Quote, Escape}
    <2>1. n \in Nat /\ \A i \in 1..n : text[i] \in Tokens /\ i \in DOMAIN text
      OBVIOUS
    <2>2. \A i \in DOMAIN text : text[i] \in Range(text)
      BY DEF Range
    <2> QED
      BY <2>1, <2>2
  <1>2. /\ \A i \in 0..n : E[i] \in Seq(Tokens)
        /\ E[0] = <<>> /\ e = E[n]
        /\ \A i \in 1..n : E[i] = E[i - 1] \o EscapedToken(text[i])
    BY EscapingStep
  <1> HIDE DEF E, e, n
  <1>3. 0 \in H
    BY <1>2 DEF EscapeFree
  <1>4. ASSUME NEW i \in 0..n - 1, i \in H PROVE i + 1 \in H
    <2> DEFINE one == <<text[i + 1]>>
    <2>1. i \in 0..n /\ i + 1 \in 1..n /\ (i + 1) - 1 = i
      BY <1>1
    <2>2. E[i + 1] = E[i] \o one
      <3>1. EscapedToken(text[i + 1]) = one
        BY <2>1, <1>1 DEF EscapedToken
      <3> QED
        BY <3>1, <2>1, <1>2
    <2>3. one \in Seq(Tokens) /\ EscapeFree(one)
      BY <2>1, <1>1 DEF EscapeFree
    <2> HIDE DEF one
    <2>4. EscapeFree(E[i] \o one)
      BY <2>1, <2>3, <1>2, <1>4, EscapeFreeBoth
    <2>5. i + 1 \in Nat
      BY <2>1
    <2> QED
      BY <2>2, <2>4, <2>5
  <1> HIDE DEF H
  <1>5. \A i \in 0..n : i \in H
    BY <1>1, <1>3, <1>4, Ops!UpTo
  <1>6. n \in 0..n
    BY <1>1
  <1>7. e \in Seq(Tokens) /\ EscapeFree(e)
    BY <1>2, <1>5, <1>6 DEF H
  <1>8. q \in Seq(Tokens) /\ EscapeFree(q)
    BY TokensAreDistinct DEF EscapeFree, Delimiters
  <1> HIDE DEF q
  <1>9. q \o e \in Seq(Tokens) /\ EscapeFree(q \o e)
    BY <1>7, <1>8, ConcatParts, EscapeFreeBoth
  <1> DEFINE b == q \o e
  <1> HIDE DEF b
  <1>10. EscapeFree(b \o q)
    BY <1>8, <1>9, EscapeFreeBoth DEF b
  <1> QED
    BY <1>10 DEF Literal, b, q, e

\* Nor from a value of which no string has one.
LEMMA SpellingIsEscapeFree ==
    ASSUME NEW a, Meaningful(a), ~HasEscapes(a), NEW upto \in 1..Pieces(a)
    PROVE  EscapeFree(Spelling(a, upto))
  <1> DEFINE s == Spelling(a, upto)
             n == Len(a.value)
  <1>0. /\ Comma \in Tokens /\ Open \in Tokens /\ Close \in Tokens /\ Escape \notin Words
        /\ Escape # Comma /\ Escape # Open /\ Escape # Close
    BY TokensAreDistinct DEF Delimiters, Escape, Open, Close
  <1>1. CASE a.kind = "text"
    <2>1. s = Literal(a.value) /\ a.value \in Seq(Tokens)
      BY <1>1, KindsOfValues
    <2>2. {Quote, Escape} \cap Range(a.value) = {}
      BY <1>1 DEF HasEscapes, Strings
    <2>3. EscapeFree(Literal(a.value))
      BY <2>1, <2>2, LiteralIsEscapeFree
    <2> QED
      BY <2>1, <2>3
  <1>2. CASE a.kind = "number"
    <2>1. s = <<a.word>> /\ a.word \in Words
      BY <1>2, KindsOfValues
    <2> QED
      BY <2>1, <1>0 DEF EscapeFree
  <1>3. CASE a.kind = "array"
    <2> DEFINE L == Listed(a.value)
               H == {j \in Nat : EscapeFree(L[j])}
               o == <<Open>>
               z == <<Close>>
    <2>1. /\ a.value \in Seq(Seq(Tokens)) /\ Pieces(a) = n + 2
          /\ \A i \in 1..n + 1 : Spelling(a, i) = <<Open>> \o Listed(a.value)[i - 1]
          /\ Spelling(a, Pieces(a)) = <<Open>> \o Listed(a.value)[n] \o <<Close>>
      BY <1>3, KindsOfValues
    <2>2. /\ n \in Nat /\ L[0] = <<>> /\ \A j \in 0..n : L[j] \in Seq(Tokens)
          /\ \A j \in 1..n : L[j] = L[j - 1] \o Separated(a.value)[j]
      <3>1. n \in Nat
        BY <2>1
      <3>2. /\ L \in [0..n -> Seq(Tokens)] /\ L[0] = <<>>
            /\ \A j \in 1..n : L[j] = L[j - 1] \o Separated(a.value)[j]
        BY <2>1, ListedSteps
      <3> HIDE DEF L
      <3> QED
        BY <3>1, <3>2
    <2>3. ASSUME NEW j \in 1..n
          PROVE  Separated(a.value)[j] \in Seq(Tokens) /\ EscapeFree(Separated(a.value)[j])
      <3> DEFINE t == a.value[j]
                 lit == Literal(t)
                 end == IF j < n THEN <<Comma>> ELSE <<>>
      <3>1. t \in Seq(Tokens) /\ Separated(a.value)[j] = lit \o end
            /\ Separated(a.value)[j] \in Seq(Tokens)
        BY <2>1, SeparatedItems
      <3>2. {Quote, Escape} \cap Range(t) = {}
        <4>1. t \in Range(a.value)
          <5>1. j \in DOMAIN a.value
            BY <2>1
          <5> QED
            BY <5>1 DEF Range
        <4>2. Strings(a) = Range(a.value)
          BY <1>3 DEF Strings
        <4> HIDE DEF t
        <4> QED
          BY <4>1, <4>2 DEF HasEscapes
      <3> HIDE DEF t
      <3>3. lit \in Seq(Tokens) /\ EscapeFree(lit)
        BY <3>1, <3>2, LiteralHides, LiteralIsEscapeFree
      <3>4. end \in Seq(Tokens) /\ EscapeFree(end)
        BY <1>0 DEF EscapeFree
      <3> HIDE DEF lit, end
      <3>5. EscapeFree(lit \o end)
        BY <3>3, <3>4, EscapeFreeBoth
      <3> QED
        BY <3>1, <3>5
    <2> HIDE DEF L, n
    <2>4. 0 \in H
      BY <2>2 DEF EscapeFree
    <2>5. ASSUME NEW j \in 0..n - 1, j \in H PROVE j + 1 \in H
      <3> DEFINE item == Separated(a.value)[j + 1]
      <3>1. j \in 0..n /\ j + 1 \in 1..n /\ (j + 1) - 1 = j
        BY <2>2
      <3>2. item \in Seq(Tokens) /\ EscapeFree(item) /\ L[j + 1] = L[j] \o item
        BY <3>1, <2>2, <2>3
      <3> HIDE DEF item
      <3>3. EscapeFree(L[j] \o item)
        BY <3>1, <3>2, <2>2, <2>5, EscapeFreeBoth
      <3>4. j + 1 \in Nat
        BY <3>1
      <3> QED
        BY <3>2, <3>3, <3>4
    <2> HIDE DEF H
    <2>6. \A j \in 0..n : j \in H
      BY <2>2, <2>4, <2>5, Ops!UpTo
    <2>7. o \in Seq(Tokens) /\ EscapeFree(o) /\ z \in Seq(Tokens) /\ EscapeFree(z)
      BY <1>0 DEF EscapeFree
    <2> HIDE DEF o, z
    <2>8. ASSUME NEW j \in 0..n PROVE o \o L[j] \in Seq(Tokens) /\ EscapeFree(o \o L[j])
      <3>1. L[j] \in Seq(Tokens) /\ EscapeFree(L[j])
        BY <2>2, <2>6 DEF H
      <3> QED
        BY <3>1, <2>7, ConcatParts, EscapeFreeBoth
    <2>9. CASE upto = Pieces(a)
      <3>1. n \in 0..n
        BY <2>2
      <3> DEFINE x == o \o L[n]
      <3>2. x \in Seq(Tokens) /\ EscapeFree(x)
        BY <3>1, <2>8
      <3> HIDE DEF x
      <3>3. EscapeFree(x \o z)
        BY <3>2, <2>7, EscapeFreeBoth
      <3> QED
        BY <3>3, <2>1, <2>9 DEF x, o, z, L
    <2>10. CASE upto # Pieces(a)
      <3>1. upto \in 1..n + 1 /\ upto - 1 \in 0..n
        BY <2>1, <2>2, <2>10
      <3>2. EscapeFree(o \o L[upto - 1])
        BY <3>1, <2>8
      <3> QED
        BY <3>1, <3>2, <2>1 DEF o, L
    <2> QED
      BY <2>9, <2>10
  <1> QED
    BY <1>1, <1>2, <1>3 DEF Meaningful

\* One where the value of the assignment under way goes on, zero elsewhere.
Depth(d, at) == IF Complete(d, at) THEN 0 ELSE 1

\* Marks that are not in a text are not outside its strings, and one alone is.
LEMMA PlainBalance ==
    /\ \A s \in Seq(Tokens) : (\A i \in 1..Len(s) : s[i] \notin {Quote, Open, Close}) =>
          Scan(s)[Len(s)] = NoString /\ UnbalancedBrackets(s) = 0
    /\ Scan(<<Open>>)[Len(<<Open>>)] = NoString /\ UnbalancedBrackets(<<Open>>) = 1
    /\ Scan(<<Close>>)[Len(<<Close>>)] = NoString /\ UnbalancedBrackets(<<Close>>) = -1
  <1>0. /\ Open \in Tokens /\ Close \in Tokens /\ Open # Quote /\ Close # Quote /\ Open # Close
    BY TokensAreDistinct DEF Delimiters
  <1>1. ASSUME NEW s \in Seq(Tokens), \A i \in 1..Len(s) : s[i] \notin {Quote, Open, Close}
        PROVE  Scan(s)[Len(s)] = NoString /\ UnbalancedBrackets(s) = 0
    <2>1. \A i \in 1..Len(s) : s[i] # Quote /\ s[i] \notin {Open, Close}
      BY <1>1
    <2>2. Hides(s, {Open, Close})
      BY <2>1, PlainHides
    <2>3. Outside(s, Open) = {} /\ Outside(s, Close) = {}
      BY <2>2, OutsideNone
    <2>4. Cardinality({}) = 0
      BY FS_EmptySet
    <2> QED
      BY <2>2, <2>3, <2>4 DEF UnbalancedBrackets, Hides
  <1>2. ASSUME NEW x \in Tokens, x # Quote PROVE Scan(<<x>>)[Len(<<x>>)] = NoString
    <2>1. Hides(<<x>>, {})
      BY <1>2, SmallHides
    <2> QED
      BY <2>1 DEF Hides
  <1>3. Cardinality({}) = 0 /\ Cardinality({1}) = 1
    BY FS_EmptySet, FS_Singleton
  <1>4. UnbalancedBrackets(<<Open>>) = 1
    <2>1. Outside(<<Open>>, Open) = {1} /\ Outside(<<Open>>, Close) = {}
      BY <1>0, OutsideOne
    <2> QED
      BY <2>1, <1>3 DEF UnbalancedBrackets
  <1>5. UnbalancedBrackets(<<Close>>) = -1
    <2>1. Outside(<<Close>>, Close) = {1} /\ Outside(<<Close>>, Open) = {}
      BY <1>0, OutsideOne
    <2> QED
      BY <2>1, <1>3 DEF UnbalancedBrackets
  <1> QED
    BY <1>0, <1>1, <1>2, <1>4, <1>5

\* A header is balanced, and has no escape.
LEMMA HeaderBalance ==
    ASSUME NEW path \in Seq(Words)
    PROVE  LET code == <<Open>> \o path \o <<Close>> IN
           /\ code \in Seq(Tokens) /\ Scan(code)[Len(code)] = NoString
           /\ UnbalancedBrackets(code) = 0 /\ EscapeFree(code)
  <1> DEFINE o == <<Open>>
             z == <<Close>>
             b == o \o path
             code == b \o z
  <1>1. /\ Open \in Tokens /\ Close \in Tokens /\ Escape # Open /\ Escape # Close
        /\ path \in Seq(Tokens)
        /\ \A i \in 1..Len(path) : path[i] \notin {Quote, Open, Close} /\ path[i] # Escape
    <2>1. \A i \in 1..Len(path) : path[i] \in Words
      OBVIOUS
    <2>2. /\ Open \in Tokens /\ Close \in Tokens /\ Escape # Open /\ Escape # Close
          /\ \A w \in Words : w \notin {Quote, Open, Close} /\ w # Escape
      BY TokensAreDistinct DEF Delimiters, Escape, Open, Close
    <2>3. path \in Seq(Tokens)
      BY DEF Tokens
    <2> QED
      BY <2>1, <2>2, <2>3
  <1>2. o \in Seq(Tokens) /\ z \in Seq(Tokens) /\ EscapeFree(o) /\ EscapeFree(z) /\ EscapeFree(path)
    BY <1>1 DEF EscapeFree
  <1>3. /\ Scan(o)[Len(o)] = NoString /\ UnbalancedBrackets(o) = 1
        /\ Scan(z)[Len(z)] = NoString /\ UnbalancedBrackets(z) = -1
        /\ Scan(path)[Len(path)] = NoString /\ UnbalancedBrackets(path) = 0
    BY <1>1, PlainBalance
  <1> HIDE DEF o, z
  <1>4. b \in Seq(Tokens) /\ EscapeFree(b) /\ UnbalancedBrackets(b) = 1 /\ Scan(b)[Len(b)] = NoString
    <2>1. b \in Seq(Tokens) /\ EscapeFree(b)
      BY <1>1, <1>2, ConcatParts, EscapeFreeBoth
    <2>2. UnbalancedBrackets(b) = UnbalancedBrackets(o) + UnbalancedBrackets(path)
          /\ Scan(b)[Len(b)] = NoString
      BY <1>1, <1>2, <1>3, BracketsAdd
    <2> HIDE DEF b
    <2> QED
      BY <2>1, <2>2, <1>3
  <1> HIDE DEF b
  <1>5. code \in Seq(Tokens) /\ EscapeFree(code)
    BY <1>2, <1>4, ConcatParts, EscapeFreeBoth
  <1>6. /\ UnbalancedBrackets(code) = UnbalancedBrackets(b) + UnbalancedBrackets(z)
        /\ Scan(code)[Len(code)] = NoString
    BY <1>2, <1>3, <1>4, BracketsAdd
  <1> HIDE DEF code
  <1>7. UnbalancedBrackets(code) = 0
    BY <1>3, <1>4, <1>6
  <1> QED
    BY <1>5, <1>6, <1>7 DEF code, b, o, z

\* What is left by a line that is not the damaged assignment's: no string is open behind it,
\* it opens the bracket of a value that goes on and closes that of one that ends, and it has
\* escapes only if the value has.
Behaves(d, before, after, code) ==
    /\ Scan(code)[Len(code)] = NoString
    /\ UnbalancedBrackets(code) = Depth(d, after) - Depth(d, before)
    /\ after.of # 0 => after.upto \in 1..Pieces(d.means[after.of])
    /\ \/ EscapeFree(code)
       \/ after.of # 0 /\ after.of # d.torn /\ HasEscapes(d.means[after.of])
\* Every such line does.
LEMMA LineBalance ==
    ASSUME NEW d, Written(d), NEW n \in 1..Len(d.text), NEW code \in Seq(Tokens),
           LET before == After(d, n - 1)
               after == After(d, n)
           IN /\ \/ SaysNothing(before, after, code)
                 \/ SaysHeader(d, before, after, code)
                 \/ /\ after.of # d.torn
                    /\ SaysFirst(d, before, after, code) \/ SaysMore(d, before, after, code)
              /\ before.of # 0 => before.upto \in 1..Pieces(d.means[before.of])
    PROVE  Behaves(d, After(d, n - 1), After(d, n), code)
  <1> DEFINE before == After(d, n - 1)
             after == After(d, n)
  <1>1. /\ before.of \in 0..Len(d.means) /\ after.of \in 0..Len(d.means)
        /\ after.section \in Seq(Words)
        /\ before.of # 0 => before.of \in DOMAIN d.means
        /\ after.of # 0 => after.of \in DOMAIN d.means
        /\ DOMAIN d.means = 1..Len(d.means) /\ Len(d.means) \in Nat
    <2>1. n \in 0..Len(d.text) /\ n - 1 \in 0..Len(d.text)
      OBVIOUS
    <2> QED
      BY <2>1, OutlineTyped
  <1>2. \A i \in DOMAIN d.means : Meaningful(d.means[i])
    BY DEF Written
  <1>3. before.of # 0 => before.upto \in 1..Pieces(d.means[before.of])
    OBVIOUS
  <1>4. \/ SaysNothing(before, after, code)
        \/ SaysHeader(d, before, after, code)
        \/ /\ after.of # d.torn
           /\ SaysFirst(d, before, after, code) \/ SaysMore(d, before, after, code)
    OBVIOUS
  <1> HIDE DEF before, after
  <1>5. CASE SaysNothing(before, after, code)
    <2>1. after = before /\ code = <<>>
      BY <1>5 DEF SaysNothing
    <2>2. \A i \in 1..Len(code) : code[i] \notin {Quote, Open, Close} /\ code[i] # Escape
      BY <2>1
    <2>3. Scan(code)[Len(code)] = NoString /\ UnbalancedBrackets(code) = 0 /\ EscapeFree(code)
      BY <2>2, PlainBalance DEF EscapeFree
    <2>4. Depth(d, after) - Depth(d, before) = 0
      BY <2>1 DEF Depth
    <2> QED
      BY <2>1, <2>3, <2>4, <1>3 DEF Behaves, before, after
  <1>6. CASE SaysHeader(d, before, after, code)
    <2>1. /\ Complete(d, before) /\ after.of = before.of /\ Complete(d, after)
          /\ code = <<Open>> \o after.section \o <<Close>>
      BY <1>6 DEF SaysHeader
    <2>2. /\ Scan(code)[Len(code)] = NoString /\ UnbalancedBrackets(code) = 0
          /\ EscapeFree(code)
      BY <2>1, <1>1, HeaderBalance
    <2>3. Depth(d, after) - Depth(d, before) = 0
      BY <2>1 DEF Depth
    <2>4. after.of # 0 => after.upto \in 1..Pieces(d.means[after.of])
      <3> SUFFICES ASSUME after.of # 0 PROVE after.upto \in 1..Pieces(d.means[after.of])
        OBVIOUS
      <3>1. Pieces(d.means[after.of]) \in Nat /\ Pieces(d.means[after.of]) >= 1
        BY <1>1, <1>2, PiecesAreCounted
      <3>2. after.upto = Pieces(d.means[after.of])
        BY <2>1 DEF Complete
      <3> QED
        BY <3>1, <3>2
    <2> QED
      BY <2>2, <2>3, <2>4 DEF Behaves, before, after
  <1>7. CASE after.of # d.torn /\ SaysFirst(d, before, after, code)
    <2> DEFINE a == d.means[after.of]
               s == Spelling(a, after.upto)
               p == <<Last(a.path), Equals>>
    <2>1. /\ Complete(d, before) /\ after.of = before.of + 1 /\ after.of \in DOMAIN d.means
          /\ after.upto \in 1..Pieces(a) /\ code = p \o s
      BY <1>7 DEF SaysFirst
    <2>2. Meaningful(a) /\ Last(a.path) \in Words
      <3>1. Meaningful(a)
        BY <2>1, <1>2
      <3> HIDE DEF a
      <3>2. Last(a.path) \in Words
        BY <3>1, PathParts DEF Meaningful
      <3> QED
        BY <3>1, <3>2
    <2> HIDE DEF a
    <2>3. /\ p \in Seq(Tokens) /\ EscapeFree(p)
          /\ \A i \in 1..Len(p) : p[i] \notin {Quote, Open, Close}
      <3>1. /\ Equals \in Tokens /\ Last(a.path) \in Tokens
            /\ \A t \in {Equals, Last(a.path)} : t \notin {Quote, Open, Close, Escape}
        BY <2>2, TokensAreDistinct DEF Delimiters, Equals, Escape
      <3> QED
        BY <3>1 DEF EscapeFree
    <2>4. Scan(p)[Len(p)] = NoString /\ UnbalancedBrackets(p) = 0
      BY <2>3, PlainBalance
    <2>5. /\ s \in Seq(Tokens) /\ Scan(s)[Len(s)] = NoString
          /\ UnbalancedBrackets(s) = IF after.upto = Pieces(a) THEN 0 ELSE 1
      BY <2>1, <2>2, SpellingBalance
    <2>6. ~HasEscapes(a) => EscapeFree(s)
      BY <2>1, <2>2, SpellingIsEscapeFree
    <2> HIDE DEF p, s
    <2>7. /\ UnbalancedBrackets(p \o s) = UnbalancedBrackets(p) + UnbalancedBrackets(s)
          /\ Scan(p \o s)[Len(p \o s)] = NoString
      BY <2>3, <2>4, <2>5, BracketsAdd
    <2>8. ~HasEscapes(a) => EscapeFree(p \o s)
      BY <2>3, <2>5, <2>6, EscapeFreeBoth
    <2>9. Depth(d, before) = 0 /\ Depth(d, after) = IF after.upto = Pieces(a) THEN 0 ELSE 1
      BY <2>1, <1>1 DEF Depth, Complete, a
    <2>10. UnbalancedBrackets(code) = Depth(d, after) - Depth(d, before)
      BY <2>1, <2>4, <2>5, <2>7, <2>9
    <2> QED
      BY <2>1, <2>7, <2>8, <2>10, <1>1, <1>7 DEF Behaves, before, after, a
  <1>8. CASE after.of # d.torn /\ SaysMore(d, before, after, code)
    <2> DEFINE a == d.means[after.of]
               s == Spelling(a, before.upto)
               w == Spelling(a, after.upto)
    <2>1. ~Complete(d, before) /\ after.of = before.of /\ before.of # 0
      BY <1>8 DEF SaysMore, Complete
    <2>2. before.upto \in 1..Pieces(a) /\ after.upto \in 1..Pieces(a) /\ s \o code = w
      BY <2>1, <1>3, <1>8 DEF SaysMore
    <2>3. Meaningful(a)
      BY <2>1, <1>1, <1>2
    <2> HIDE DEF a
    <2>4. /\ s \in Seq(Tokens) /\ Scan(s)[Len(s)] = NoString
          /\ UnbalancedBrackets(s) = (IF before.upto = Pieces(a) THEN 0 ELSE 1)
          /\ w \in Seq(Tokens) /\ Scan(w)[Len(w)] = NoString
          /\ UnbalancedBrackets(w) = (IF after.upto = Pieces(a) THEN 0 ELSE 1)
      BY <2>2, <2>3, SpellingBalance
    <2>5. ~HasEscapes(a) => EscapeFree(w)
      BY <2>2, <2>3, SpellingIsEscapeFree
    <2> HIDE DEF s, w
    <2>6. /\ UnbalancedBrackets(code) \in Int
          /\ UnbalancedBrackets(w) = UnbalancedBrackets(s) + UnbalancedBrackets(code)
          /\ Scan(code)[Len(code)] = NoString
      <3>1. /\ UnbalancedBrackets(code) \in Int
            /\ UnbalancedBrackets(s \o code) = UnbalancedBrackets(s) + UnbalancedBrackets(code)
            /\ Scan(code)[Len(code)] = NoString <=> Scan(s \o code)[Len(s \o code)] = NoString
        BY <2>4, BracketsAdd
      <3> QED
        BY <3>1, <2>2, <2>4
    <2>7. ~HasEscapes(a) => EscapeFree(code)
      <3>1. EscapeFree(s \o code) <=> EscapeFree(s) /\ EscapeFree(code)
        BY <2>4, EscapeFreeBoth
      <3> QED
        BY <3>1, <2>2, <2>5
    <2>8. /\ Depth(d, before) = (IF before.upto = Pieces(a) THEN 0 ELSE 1)
          /\ Depth(d, after) = (IF after.upto = Pieces(a) THEN 0 ELSE 1)
      BY <2>1 DEF Depth, Complete, a
    <2>9. UnbalancedBrackets(code) = Depth(d, after) - Depth(d, before)
      BY <2>4, <2>6, <2>8
    <2> QED
      BY <2>1, <2>2, <2>6, <2>7, <2>9, <1>8 DEF Behaves, before, after, a
  <1> QED
    BY <1>4, <1>5, <1>6, <1>7, <1>8 DEF before, after

\* What there is of an array before the place of the missing delimiter begins what there is
\* of it later.
LEMMA TornGrows ==
    ASSUME NEW a, Meaningful(a), a.kind = "array", NEW k \in Closings(a),
           NEW from \in 1..Pieces(a), from <= k, NEW upto \in from + 1..Pieces(a)
    PROVE  LET s == Spelling(a, from)
               w == Without(Spelling(a, upto), Place(a, k))
           IN /\ Without(s, Place(a, k)) = s /\ s \in Seq(Tokens) /\ Hides(s, {Hash})
              /\ w \in Seq(Tokens) /\ Begins(s, w)
              /\ k <= Len(a.value) => Begins(s, Begun(a.value, k))
  <1> DEFINE n == Len(a.value)
             s == Spelling(a, from)
             w == Without(Spelling(a, upto), Place(a, k))
  <1>1. /\ a.value \in Seq(Seq(Tokens)) /\ Pieces(a) = n + 2 /\ n \in Nat /\ k \in 1..n + 1
    BY KindsOfValues DEF Closings
  <1>2. s \in Seq(Tokens) /\ Hides(s, {Hash})
    BY SpellingScans
  <1>3. /\ Without(Spelling(a, from), Place(a, k)) = s
        /\ k <= n => Begins(s, Begun(a.value, k))
    <2>1. ~(k < from) /\ ~(k = n + 1 /\ from = Pieces(a))
      BY <1>1
    <2>2. /\ Without(Spelling(a, from), Place(a, k)) = Spelling(a, from)
          /\ k <= n => Begins(Without(Spelling(a, from), Place(a, k)), Begun(a.value, k))
      BY <2>1, TornSpelling
    <2> QED
      BY <2>2
  <1>4. ASSUME NEW to \in from + 1..Pieces(a)
        PROVE  Spelling(a, to) \in Seq(Tokens) /\ Begins(s, Spelling(a, to))
    <2>1. to \in 1..Pieces(a)
      BY <1>1
    <2>2. Spelling(a, to) \in Seq(Tokens)
      BY <2>1, SpellingScans
    <2>3. LET rest == SubSeq(Spelling(a, to), Len(s) + 1, Len(Spelling(a, to)))
          IN rest \in Seq(Tokens) /\ s \o rest = Spelling(a, to)
      BY SpellingGrows
    <2> HIDE DEF s
    <2>4. Begins(s, Spelling(a, to))
      BY <2>3 DEF Begins
    <2> QED
      BY <2>2, <2>4
  <1>5. upto \in 1..Pieces(a)
    BY <1>1
  <1>6. \/ upto <= k /\ w = Spelling(a, upto)
        \/ /\ k <= n
           /\ \E rest \in Seq(Tokens) : w = Begun(a.value, k) \o rest
        \/ k = n + 1 /\ upto = Pieces(a) /\ w = Spelling(a, n + 1)
    BY <1>5, TornSpelling
  <1> HIDE DEF s
  <1>7. CASE upto <= k /\ w = Spelling(a, upto)
    BY <1>2, <1>3, <1>4, <1>7 DEF s
  <1>8. CASE k <= n /\ \E rest \in Seq(Tokens) : w = Begun(a.value, k) \o rest
    <2> DEFINE b == Begun(a.value, k)
    <2>1. PICK rest \in Seq(Tokens) : w = b \o rest
      BY <1>8
    <2>2. k \in 1..n
      BY <1>1, <1>8
    <2>3. b \in Seq(Tokens) /\ Begins(s, b)
      BY <2>2, <1>1, <1>3, BegunOpens
    <2> HIDE DEF b, w
    <2>4. w \in Seq(Tokens) /\ Begins(s, w)
      BY <2>1, <2>3, <1>2, ConcatParts, BeginsParts
    <2> QED
      BY <2>4, <1>2, <1>3 DEF s, w
  <1>9. CASE k = n + 1 /\ upto = Pieces(a) /\ w = Spelling(a, n + 1)
    <2>1. w \in Seq(Tokens)
      <3>1. n + 1 \in 1..Pieces(a)
        BY <1>1
      <3> QED
        BY <3>1, <1>9, SpellingScans
    <2>2. CASE from = n + 1
      <3>1. w = s
        BY <2>2, <1>9 DEF s
      <3> HIDE DEF w
      <3>2. <<>> \in Seq(Tokens) /\ w = s \o <<>>
        BY <3>1, <1>2
      <3>3. Begins(s, w)
        BY <3>2 DEF Begins
      <3> QED
        BY <3>3, <2>1, <1>2, <1>3 DEF s, w
    <2>3. CASE from # n + 1
      <3>1. n + 1 \in from + 1..Pieces(a)
        BY <2>3, <1>1, <1>9
      <3>2. Begins(s, w)
        BY <3>1, <1>4, <1>9
      <3> QED
        BY <3>2, <2>1, <1>2, <1>3 DEF s
    <2> QED
      BY <2>2, <2>3
  <1> QED
    BY <1>6, <1>7, <1>8, <1>9

\* Where the last string is not closed, what comes behind the array's place has neither
\* quote nor escape.
LEMMA BehindThePlace ==
    ASSUME NEW a, Meaningful(a), a.kind = "array", NEW k \in Closings(a), k = Len(a.value),
           NEW from \in 1..Pieces(a), k < from, NEW upto \in from + 1..Pieces(a)
    PROVE  LET s == Without(Spelling(a, from), Place(a, k))
               w == Without(Spelling(a, upto), Place(a, k))
               code == SubSeq(w, Len(s) + 1, Len(w))
           IN code \in Seq(Tokens) /\ Plain(code)
  <1> DEFINE n == Len(a.value)
             b == Begun(a.value, k)
             s == Without(Spelling(a, from), Place(a, k))
             w == Without(Spelling(a, upto), Place(a, k))
             code == SubSeq(w, Len(s) + 1, Len(w))
  <1>1. /\ a.value \in Seq(Seq(Tokens)) /\ Pieces(a) = n + 2 /\ n \in Nat /\ k \in 1..n
        /\ k # n + 1 /\ k < upto /\ upto \in 1..Pieces(a)
    BY KindsOfValues DEF Closings
  <1>2. b \in Seq(Tokens)
    BY <1>1, BegunOpens
  <1>3. ASSUME NEW to \in 1..Pieces(a), k < to
        PROVE  \E rest \in Seq(Tokens) :
                  Without(Spelling(a, to), Place(a, k)) = b \o rest /\ Plain(rest)
    <2> DEFINE x == Without(Spelling(a, to), Place(a, k))
    <2>1. ~(to <= k)
      BY <1>1, <1>3
    <2>2. /\ k <= n
          /\ \E rest \in Seq(Tokens) :
                /\ x = Begun(a.value, k) \o rest
                /\ k < n => Begins(<<Comma>>, rest)
                /\ k = n => Plain(rest)
      <3> HIDE DEF n
      <3>1. a.kind # "text" /\ k # n + 1
        BY <1>1
      <3> HIDE DEF b
      <3> QED
        BY <2>1, <3>1, TornSpelling DEF n
    <2> HIDE DEF x, b
    <2> QED
      BY <2>2 DEF b, x
  <1> HIDE DEF b
  <1>4. PICK before \in Seq(Tokens) : s = b \o before
    BY <1>3
  <1>5. PICK rest \in Seq(Tokens) : w = b \o rest /\ Plain(rest)
    BY <1>1, <1>3
  <1> HIDE DEF s, w
  <1>6. /\ s \in Seq(Tokens) /\ Len(s) = Len(b) + Len(before) /\ Len(b) \in Nat /\ Len(before) \in Nat
        /\ w \in Seq(Tokens) /\ Len(w) = Len(b) + Len(rest) /\ Len(rest) \in Nat
        /\ \A i \in 1..Len(rest) : w[Len(b) + i] = rest[i]
    BY <1>2, <1>4, <1>5, ConcatParts
  <1>7. /\ code \in Seq(Tokens)
        /\ \A i \in 1..Len(code) : Len(s) + i \in 1..Len(w) /\ code[i] = w[Len(s) + i]
    <2>1. Len(s) \in Nat /\ Len(w) \in Nat
      BY <1>6
    <2>2. CASE Len(s) <= Len(w)
      BY <2>1, <2>2, <1>6, SMTT(40)
    <2>3. CASE ~(Len(s) <= Len(w))
      <3>1. code = <<>>
        BY <2>1, <2>3, <1>6
      <3> HIDE DEF code
      <3> QED
        BY <3>1
    <2> QED
      BY <2>2, <2>3
  <1> HIDE DEF code
  <1>8. ASSUME NEW i \in 1..Len(code) PROVE code[i] # Quote /\ code[i] # Escape
    <2>1. Len(before) + i \in 1..Len(rest) /\ Len(s) + i = Len(b) + (Len(before) + i)
      BY <1>6, <1>7
    <2>2. code[i] = rest[Len(before) + i]
      BY <2>1, <1>6, <1>7
    <2> QED
      BY <2>1, <2>2, <1>5 DEF Plain
  <1> QED
    BY <1>7, <1>8 DEF Plain, code, s, w

\* A line without quotes and escapes brings none without its comment either.
LEMMA PlainLine ==
    ASSUME NEW line \in Seq(Tokens), Plain(line)
    PROVE  LET code == StripComment(line) IN
           code \in Seq(Tokens) /\ Scan(code)[Len(code)] = NoString /\ EscapeFree(code)
  <1> DEFINE code == StripComment(line)
  <1>1. code \in Seq(Tokens) /\ \A i \in 1..Len(code) : i \in 1..Len(line) /\ code[i] = line[i]
    BY StripTyped
  <1> HIDE DEF code
  <1>2. \A i \in 1..Len(code) : code[i] # Quote /\ code[i] # Escape
    BY <1>1 DEF Plain
  <1>3. Hides(code, {})
    BY <1>1, <1>2, PlainHides
  <1> QED
    BY <1>1, <1>2, <1>3 DEF Hides, EscapeFree, code

-----------------------------------------------------------------------------
(* A file that misses a delimiter.                                          *)

\* What load_toml has of the value that misses a delimiter, with what that has swallowed:
\* up to the place of the delimiter the value itself, behind it a harmed one.
TornValue(d, at, v) ==
    LET a == d.means[d.torn]
        k == d.lacks
    IN /\ v \in Seq(Tokens)
       /\ at.of >= d.torn /\ at.upto \in 1..Pieces(d.means[at.of])
       /\ \/ /\ at.of = d.torn /\ a.kind = "array" /\ at.upto <= k
             /\ v = Spelling(a, at.upto)
          \/ /\ Harmed(a, k, v)
             /\ at.of = d.torn /\ a.kind = "array" => k < at.upto
             /\ a.kind = "array" /\ k = Len(a.value) + 1 =>
                   UnbalancedBrackets(v) = 1 + Depth(d, at)

\* A value that misses a delimiter is a text as far as each of its pieces.
LEMMA TornTyped ==
    ASSUME NEW a, Meaningful(a), NEW k \in Closings(a), NEW upto \in 1..Pieces(a)
    PROVE  Without(Spelling(a, upto), Place(a, k)) \in Seq(Tokens)
  <1> DEFINE w == Without(Spelling(a, upto), Place(a, k))
             n == Len(a.value)
  <1>1. \/ a.kind = "text" /\ w = Half(a.value)
        \/ /\ a.kind = "array" /\ upto <= k /\ w = Spelling(a, upto)
           /\ k <= n => Begins(w, Begun(a.value, k))
        \/ /\ a.kind = "array" /\ k <= n /\ k < upto
           /\ \E rest \in Seq(Tokens) :
                /\ w = Begun(a.value, k) \o rest
                /\ k < n => Begins(<<Comma>>, rest)
                /\ k = n => Plain(rest)
        \/ a.kind = "array" /\ k = n + 1 /\ upto = Pieces(a) /\ w = Spelling(a, n + 1)
    BY TornSpelling
  <1> HIDE DEF w
  <1>2. CASE a.kind = "text" /\ w = Half(a.value)
    BY <1>2, HalfOpens DEF Meaningful, w
  <1>3. CASE w = Spelling(a, upto)
    BY <1>3, SpellingScans DEF w
  <1>4. CASE a.kind = "array" /\ k <= n /\ \E rest \in Seq(Tokens) : w = Begun(a.value, k) \o rest
    <2>1. PICK rest \in Seq(Tokens) : w = Begun(a.value, k) \o rest
      BY <1>4
    <2>2. a.value \in Seq(Seq(Tokens)) /\ k \in 1..n
      <3>1. a.value \in Seq(Seq(Tokens)) /\ n \in Nat /\ k \in 1..n + 1
        BY <1>4 DEF Meaningful, Closings
      <3> QED
        BY <3>1, <1>4
    <2>3. Begun(a.value, k) \in Seq(Tokens)
      BY <2>2, BegunOpens
    <2>4. w \in Seq(Tokens)
      BY <2>1, <2>3, ConcatParts
    <2> QED
      BY <2>4 DEF w
  <1>5. CASE a.kind = "array" /\ w = Spelling(a, n + 1)
    <2>1. Pieces(a) = n + 2 /\ n \in Nat
      BY <1>5, KindsOfValues
    <2>2. n + 1 \in 1..Pieces(a)
      BY <2>1
    <2> QED
      BY <2>2, <1>5, SpellingScans DEF w
  <1> QED
    BY <1>1, <1>2, <1>3, <1>4, <1>5

\* The first line of the assignment that misses a delimiter begins it, whatever its value
\* looks like then.
LEMMA TornIsBegun ==
    ASSUME NEW d, Written(d), Damaged(d), d.text \in Seq(Seq(Tokens))
    PROVE  LET a == d.means[d.torn] IN
           /\ Complete(d, After(d, d.damaged - 1)) /\ Last(a.path) \in Words
           /\ \E y \in Seq(Tokens) :
                /\ StripComment(d.text[d.damaged]) = <<Last(a.path), Equals>> \o y
                /\ TornValue(d, After(d, d.damaged), y)
  <1> DEFINE n == d.damaged
             before == After(d, n - 1)
             after == After(d, n)
             a == d.means[d.torn]
             k == d.lacks
             line == d.text[n]
             p == <<Last(a.path), Equals>>
             x == Without(Spelling(a, after.upto), Place(a, k))
             none == <<>>
  <1>1. /\ n \in 1..Len(d.text) /\ n - 1 \in 0..Len(d.text) /\ n \in 0..Len(d.text)
        /\ line \in Seq(Tokens) /\ n \in DOMAIN d.text
    <2>1. n \in DOMAIN d.text
      BY DEF Damaged
    <2> QED
      BY <2>1
  <1>2. /\ before.of \in 0..Len(d.means) /\ after.of \in 0..Len(d.means)
        /\ before = [of |-> before.of, upto |-> before.upto, section |-> before.section]
        /\ DOMAIN d.means = 1..Len(d.means) /\ Len(d.means) \in Nat
    BY <1>1, OutlineTyped
  <1>3. /\ d.torn \in DOMAIN d.means /\ k \in Closings(a) /\ Meaningful(a)
        /\ before.of < d.torn /\ ~(after.of < d.torn)
    <2>1. /\ d.torn \in DOMAIN d.means /\ k \in Closings(a)
          /\ \A i \in 0..Len(d.text) : After(d, i).of < d.torn <=> i < n
      BY DEF Damaged
    <2>2. n - 1 < n /\ ~(n < n)
      BY <1>1
    <2> QED
      BY <2>1, <2>2, <1>1 DEF Written
  <1>4. \/ BlankLine(d, before, after, line)
        \/ HeaderLine(d, before, after, line)
        \/ FirstLine(d, before, after, line)
        \/ FurtherLine(d, before, after, line)
    BY <1>1 DEF Written
  <1>5. after.of # before.of
    BY <1>2, <1>3
  <1> HIDE DEF before, after, line
  <1>6. FirstLine(d, before, after, line)
    <2>1. ~BlankLine(d, before, after, line) /\ ~FurtherLine(d, before, after, line)
      BY <1>5 DEF BlankLine, FurtherLine
    <2>2. ~HeaderLine(d, before, after, line)
      <3> SUFFICES ASSUME HeaderLine(d, before, after, line) PROVE FALSE
        OBVIOUS
      <3>1. after = [before EXCEPT !.section = Front(d.means[before.of + 1].path)]
        BY DEF HeaderLine
      <3>2. after.of = before.of
        BY <3>1, <1>2
      <3> QED
        BY <3>2, <1>5
    <2> QED
      BY <1>4, <2>1, <2>2
  <1>7. /\ Complete(d, before) /\ after.of = before.of + 1
        /\ after.upto \in 1..Pieces(d.means[after.of])
        /\ IsCodeOf(d, after.of, <<Last(d.means[after.of].path), Equals>> \o Spelt(d, after.of, after.upto), line)
    BY <1>6 DEF FirstLine
  <1>8. after.of = d.torn
    BY <1>2, <1>3, <1>7
  <1>9. /\ after.upto \in 1..Pieces(a) /\ IsCode(p \o x, line)
        /\ ClosesString(a, k) => {Quote, Escape} \cap Range(Comment(p \o x, line)) = {}
    BY <1>7, <1>8 DEF Spelt, IsCodeOf
  <1>10. x \in Seq(Tokens)
    BY <1>3, <1>9, TornTyped
  <1>11. Last(a.path) \in Words /\ p \in Seq(Tokens) /\ Hides(p, {Hash})
    <2> HIDE DEF a
    <2>1. Last(a.path) \in Words
      BY <1>3, PathParts DEF Meaningful
    <2>2. \A t \in {Last(a.path), Equals} : t \in Tokens /\ t # Quote /\ t \notin {Hash}
      BY <2>1, TokensAreDistinct DEF Delimiters
    <2>3. p \in Seq(Tokens) /\ \A i \in 1..Len(p) : p[i] # Quote /\ p[i] \notin {Hash}
      BY <2>2
    <2>4. Hides(p, {Hash})
      BY <2>3, PlainHides
    <2> QED
      BY <2>1, <2>3, <2>4
  <1>12. /\ none \in Seq(Tokens) /\ Hides(none, {Hash}) /\ none \o x = x
         /\ \A y \in Seq(Tokens) : none \o y = y
         /\ \A y \in Seq(Tokens) : Begins(none, y)
    <2>1. none \in Seq(Tokens) /\ Hides(none, {Hash})
      BY BlankScans
    <2>2. \A y \in Seq(Tokens) : none \o y = y
      OBVIOUS
    <2> HIDE DEF none, x
    <2> QED
      BY <2>1, <2>2, <1>10 DEF Begins
  <1>13. ASSUME a.kind = "array", k <= Len(a.value) PROVE Begins(none, Begun(a.value, k))
    <2>1. a.value \in Seq(Seq(Tokens)) /\ k \in 1..Len(a.value)
      <3>1. a.value \in Seq(Seq(Tokens)) /\ Len(a.value) \in Nat /\ k \in 1..Len(a.value) + 1
        BY <1>3, <1>13 DEF Meaningful, Closings
      <3> QED
        BY <3>1, <1>13
    <2>2. Begun(a.value, k) \in Seq(Tokens)
      BY <2>1, BegunOpens
    <2> HIDE DEF none
    <2> QED
      BY <2>2, <1>12
  <1>14. ASSUME ClosesString(a, k) PROVE Plain(Comment(p \o x, line))
    <2> DEFINE c == Comment(p \o x, line)
    <2>1. c \in Seq(Tokens)
      <3> DEFINE code == p \o x
      <3>1. code \in Seq(Tokens)
        <4> HIDE DEF p, x
        <4> QED
          BY <1>10, <1>11, ConcatParts
      <3> HIDE DEF code
      <3> QED
        BY <3>1, <1>1, <1>9, CodeAndComment DEF code, line
    <2>2. {Quote, Escape} \cap Range(c) = {}
      BY <1>9, <1>14
    <2> HIDE DEF c
    <2>3. \A i \in 1..Len(c) : c[i] \in Range(c)
      BY <2>1 DEF Range
    <2>4. Plain(c)
      BY <2>2, <2>3 DEF Plain
    <2> QED
      BY <2>4 DEF c
  <1>15. line \in Seq(Tokens)
    BY <1>1 DEF line
  <1> HIDE DEF none, x, p
  <1>16. TornSays(a, k, after.upto, p, none, line)
    <2>1. none \o x = Without(Spelling(a, after.upto), Place(a, k))
      BY <1>12 DEF x
    <2>2. Precedes(a, k, none)
      BY <1>13 DEF Precedes, none
    <2> HIDE DEF a, k
    <2> QED
      BY <2>1, <2>2, <1>3, <1>9, <1>10, <1>11, <1>12, <1>14, <1>15, TornLine
  <1>17. PICK y \in Seq(Tokens) :
            /\ StripComment(line) = p \o y
            /\ \/ a.kind = "array" /\ after.upto <= k /\ none \o y = Spelling(a, after.upto)
               \/ /\ Harmed(a, k, none \o y) /\ (a.kind = "array" => k < after.upto)
                  /\ a.kind = "array" /\ k = Len(a.value) + 1 =>
                        UnbalancedBrackets(none \o y) = 1
    BY <1>16 DEF TornSays
  <1>18. none \o y = y
    BY <1>12
  <1>19. a.kind = "array" /\ k = Len(a.value) + 1 /\ k < after.upto => Depth(d, after) = 0
    <2> SUFFICES ASSUME a.kind = "array", k = Len(a.value) + 1, k < after.upto
                 PROVE  Depth(d, after) = 0
      OBVIOUS
    <2> HIDE DEF a
    <2>1. Pieces(a) = Len(a.value) + 2 /\ Len(a.value) \in Nat
      BY <1>3, KindsOfValues, SMTT(40)
    <2>2. after.upto = Pieces(a)
      BY <2>1, <1>9
    <2> QED
      BY <2>2, <1>8 DEF Depth, Complete, a
  <1>20. TornValue(d, after, y)
    <2>1. after.of >= d.torn
      BY <1>2, <1>3
    <2>2. Harmed(a, k, y) /\ a.kind = "array" /\ k = Len(a.value) + 1 /\ k < after.upto
            /\ UnbalancedBrackets(y) = 1
          => UnbalancedBrackets(y) = 1 + Depth(d, after)
      BY <1>19
    <2> HIDE DEF none
    <2> QED
      BY <2>1, <2>2, <1>8, <1>9, <1>17, <1>18 DEF TornValue
  <1> QED
    BY <1>7, <1>11, <1>17, <1>20 DEF before, after, line, p

\* What the reader has of it is not stored: it is no value if it does not go on.
LEMMA TornIsNotStored ==
    ASSUME NEW d, Written(d), Damaged(d), NEW at, NEW v, TornValue(d, at, v),
           ~(StartsWith(v, Open) /\ ArrayIncomplete(v))
    PROVE  ParseValue[v] = Malformed
  <1> DEFINE a == d.means[d.torn]
             k == d.lacks
  <1>1. Meaningful(a) /\ k \in Closings(a)
    BY DEF Damaged, Written
  <1>2. v \in Seq(Tokens) /\ at.of >= d.torn /\ at.upto \in 1..Pieces(d.means[at.of])
    BY DEF TornValue
  <1>3. CASE at.of = d.torn /\ a.kind = "array" /\ at.upto <= k /\ v = Spelling(a, at.upto)
    <2>1. at.upto \in 1..Pieces(a)
      BY <1>2, <1>3
    <2> HIDE DEF a, k
    <2>2. at.upto # Pieces(a)
      <3>1. Pieces(a) = Len(a.value) + 2 /\ Len(a.value) \in Nat /\ k \in 1..Len(a.value) + 1
        BY <1>1, <1>3, KindsOfValues DEF Closings
      <3> QED
        BY <3>1, <1>3
    <2>3. StartsWith(v, Open) /\ ArrayIncomplete(v)
      BY <2>1, <2>2, <1>1, <1>3, SpellingScans
    <2> QED
      BY <2>3
  <1>4. CASE /\ Harmed(a, k, v)
             /\ a.kind = "array" /\ k = Len(a.value) + 1 =>
                   UnbalancedBrackets(v) = 1 + Depth(d, at)
    <2>1. a.kind = "array" /\ k = Len(a.value) + 1 => UnbalancedBrackets(v) > 0
      BY <1>4 DEF Depth
    <2> HIDE DEF a, k
    <2> QED
      BY <2>1, <1>1, <1>2, <1>4, HarmedIsNotStored
  <1> QED
    BY <1>3, <1>4 DEF TornValue

\* A line that does not belong to it leaves a harmed value harmed, and cannot come before
\* the value is.
LEMMA TornSwallows ==
    ASSUME NEW d, Written(d), Damaged(d), NEW n \in 1..Len(d.text), NEW code \in Seq(Tokens),
           NEW v, TornValue(d, After(d, n - 1), v), StartsWith(v, Open),
           LET a == d.means[d.torn]
           IN a.kind = "array" /\ d.lacks = Len(a.value) =>
                 \A i \in d.torn + 1..Len(d.means) : ~HasEscapes(d.means[i]),
           LET before == After(d, n - 1)
               after == After(d, n)
           IN \/ SaysNothing(before, after, code)
              \/ SaysHeader(d, before, after, code)
              \/ /\ after.of # d.torn
                 /\ SaysFirst(d, before, after, code) \/ SaysMore(d, before, after, code)
    PROVE  TornValue(d, After(d, n), v \o code)
  <1> DEFINE a == d.means[d.torn]
             k == d.lacks
             before == After(d, n - 1)
             after == After(d, n)
             w == v \o code
  <1>1. /\ before.of \in 0..Len(d.means) /\ after.of \in 0..Len(d.means)
        /\ before.of # 0 => before.of \in DOMAIN d.means
        /\ DOMAIN d.means = 1..Len(d.means) /\ Len(d.means) \in Nat
    <2>1. n \in 0..Len(d.text) /\ n - 1 \in 0..Len(d.text)
      OBVIOUS
    <2> QED
      BY <2>1, OutlineTyped
  <1>2. Meaningful(a) /\ k \in Closings(a) /\ d.torn \in DOMAIN d.means
    BY DEF Damaged, Written
  <1>3. /\ v \in Seq(Tokens) /\ before.of >= d.torn /\ before.upto \in 1..Pieces(d.means[before.of])
        /\ \/ /\ before.of = d.torn /\ a.kind = "array" /\ before.upto <= k
              /\ v = Spelling(a, before.upto)
           \/ /\ Harmed(a, k, v)
              /\ before.of = d.torn /\ a.kind = "array" => k < before.upto
              /\ a.kind = "array" /\ k = Len(a.value) + 1 =>
                    UnbalancedBrackets(v) = 1 + Depth(d, before)
    BY DEF TornValue
  <1>4. Behaves(d, before, after, code)
    BY <1>3, LineBalance
  <1>5. \/ SaysNothing(before, after, code)
        \/ SaysHeader(d, before, after, code)
        \/ /\ after.of # d.torn
           /\ SaysFirst(d, before, after, code) \/ SaysMore(d, before, after, code)
    OBVIOUS
  <1>6. a.kind = "array" /\ k = Len(a.value) =>
           \A i \in d.torn + 1..Len(d.means) : ~HasEscapes(d.means[i])
    OBVIOUS
  <1> HIDE DEF before, after
  <1>7. /\ after.of >= d.torn /\ after.of # 0
        /\ SaysNothing(before, after, code) => after = before /\ code = <<>>
        /\ SaysHeader(d, before, after, code) => after.of = before.of /\ Complete(d, after)
        /\ ~SaysNothing(before, after, code) /\ before.of = d.torn => Complete(d, before)
    <2>1. \/ after = before \/ after.of = before.of \/ after.of = before.of + 1
      BY <1>5 DEF SaysNothing, SaysHeader, SaysFirst, SaysMore
    <2>2. after.of >= d.torn /\ after.of # 0
      BY <2>1, <1>1, <1>2, <1>3
    <2>3. ~SaysNothing(before, after, code) /\ before.of = d.torn => Complete(d, before)
      BY <1>5 DEF SaysHeader, SaysFirst, SaysMore
    <2> QED
      BY <2>2, <2>3 DEF SaysNothing, SaysHeader
  <1>8. after.upto \in 1..Pieces(d.means[after.of])
    BY <1>4, <1>7 DEF Behaves
  <1>9. CASE before.of = d.torn /\ a.kind = "array" /\ before.upto <= k /\ v = Spelling(a, before.upto)
    <2>1. ~Complete(d, before)
      <3> HIDE DEF a
      <3>1. Pieces(a) = Len(a.value) + 2 /\ Len(a.value) \in Nat /\ k \in 1..Len(a.value) + 1
        BY <1>2, <1>9, KindsOfValues DEF Closings
      <3>2. before.upto # Pieces(a)
        BY <3>1, <1>9
      <3>3. d.torn # 0
        BY <1>1, <1>2
      <3> QED
        BY <3>2, <3>3, <1>9 DEF Complete, a
    <2>2. after = before /\ code = <<>>
      BY <2>1, <1>7, <1>9
    <2>3. w = v
      BY <2>2, <1>3
    <2> HIDE DEF w
    <2>4. TornValue(d, after, w)
      BY <2>2, <2>3, <1>3, <1>9 DEF TornValue
    <2> QED
      BY <2>4 DEF w, after
  <1>10. CASE /\ Harmed(a, k, v)
              /\ before.of = d.torn /\ a.kind = "array" => k < before.upto
              /\ a.kind = "array" /\ k = Len(a.value) + 1 =>
                    UnbalancedBrackets(v) = 1 + Depth(d, before)
    <2>1. a.kind = "array"
      <3>1. CASE a.kind = "text"
        <4>1. PICK rest \in Seq(Tokens) : v = Half(a.value) \o rest /\ Plain(rest)
          BY <3>1, <1>10 DEF Harmed
        <4>2. a.value \in Seq(Tokens)
          BY <3>1, <1>2 DEF Meaningful
        <4>3. ~StartsWith(v, Open)
          BY <4>1, <4>2, HalfIsMalformed
        <4> QED
          BY <4>3
      <3> QED
        BY <3>1, <1>10 DEF Harmed
    <2>2. Scan(code)[Len(code)] = NoString
      BY <1>4 DEF Behaves
    <2>3. k = Len(a.value) => EscapeFree(code)
      <3> SUFFICES ASSUME k = Len(a.value), ~EscapeFree(code) PROVE FALSE
        OBVIOUS
      <3>1. after.of # d.torn /\ HasEscapes(d.means[after.of])
        BY <1>4 DEF Behaves
      <3>2. after.of \in d.torn + 1..Len(d.means)
        BY <3>1, <1>1, <1>2, <1>7
      <3> QED
        BY <3>1, <3>2, <2>1, <1>6
    <2>4. /\ w \in Seq(Tokens) /\ Harmed(a, k, w)
          /\ k = Len(a.value) + 1 =>
                /\ UnbalancedBrackets(v) \in Int /\ UnbalancedBrackets(code) \in Int
                /\ UnbalancedBrackets(w) = UnbalancedBrackets(v) + UnbalancedBrackets(code)
      <3>1. k = Len(a.value) => \A i \in 1..Len(code) : code[i] # Escape
        BY <2>3 DEF EscapeFree
      <3> HIDE DEF a, k
      <3> QED
        BY <3>1, <2>1, <2>2, <1>2, <1>3, <1>10, HarmStays
    <2>5. k = Len(a.value) + 1 => UnbalancedBrackets(w) = 1 + Depth(d, after)
      <3> SUFFICES ASSUME k = Len(a.value) + 1
                   PROVE  UnbalancedBrackets(w) = 1 + Depth(d, after)
        OBVIOUS
      <3>1. UnbalancedBrackets(code) = Depth(d, after) - Depth(d, before)
        BY <1>4 DEF Behaves
      <3>2. Depth(d, after) \in Int /\ Depth(d, before) \in Int
        BY DEF Depth
      <3> HIDE DEF w
      <3> QED
        BY <3>1, <3>2, <2>1, <2>4, <1>10
    <2>6. after.of = d.torn => k < after.upto
      <3> SUFFICES ASSUME after.of = d.torn PROVE k < after.upto
        OBVIOUS
      <3>1. CASE SaysNothing(before, after, code)
        BY <3>1, <2>1, <1>7, <1>10
      <3>2. CASE SaysHeader(d, before, after, code)
        <4>1. after.upto = Pieces(a)
          BY <3>2, <1>7 DEF Complete
        <4> HIDE DEF a
        <4>2. Pieces(a) = Len(a.value) + 2 /\ Len(a.value) \in Nat /\ k \in 1..Len(a.value) + 1
          BY <2>1, <1>2, KindsOfValues DEF Closings
        <4> QED
          BY <4>1, <4>2
      <3> QED
        BY <3>1, <3>2, <1>5
    <2> HIDE DEF w
    <2>7. TornValue(d, after, w)
      BY <2>4, <2>5, <2>6, <1>7, <1>8 DEF TornValue
    <2> QED
      BY <2>7 DEF w, after
  <1> QED
    BY <1>3, <1>9, <1>10

\* A further line of it: the value itself up to the place of the delimiter, harmed from then.
LEMMA TornContinues ==
    ASSUME NEW d, Written(d), Damaged(d), d.text \in Seq(Seq(Tokens)), NEW n \in 1..Len(d.text),
           NEW v, TornValue(d, After(d, n - 1), v),
           After(d, n).of = d.torn, FurtherLine(d, After(d, n - 1), After(d, n), d.text[n])
    PROVE  TornValue(d, After(d, n), v \o StripComment(d.text[n]))
  <1> DEFINE a == d.means[d.torn]
             k == d.lacks
             before == After(d, n - 1)
             after == After(d, n)
             line == d.text[n]
             from == before.upto
             upto == after.upto
             s == Without(Spelling(a, from), Place(a, k))
             x == Without(Spelling(a, upto), Place(a, k))
             code == SubSeq(x, Len(s) + 1, Len(x))
             w == v \o StripComment(line)
  <1>1. Meaningful(a) /\ k \in Closings(a) /\ d.torn \in DOMAIN d.means /\ line \in Seq(Tokens)
    BY DEF Damaged, Written
  <1>2. /\ before.of = d.torn /\ after.of = d.torn /\ ~Complete(d, before)
        /\ upto \in from + 1..Pieces(a) /\ IsCode(code, line)
        /\ ClosesString(a, k) => {Quote, Escape} \cap Range(Comment(code, line)) = {}
    BY DEF FurtherLine, IsCodeOf, Spelt
  <1>3. /\ v \in Seq(Tokens) /\ from \in 1..Pieces(a)
        /\ \/ /\ a.kind = "array" /\ from <= k /\ v = Spelling(a, from)
           \/ Harmed(a, k, v) /\ (a.kind = "array" => k < from)
    BY <1>2 DEF TornValue
  <1>4. d.torn >= d.torn
    <2>1. d.torn \in Int
      BY <1>1 DEF Written
    <2> QED
      BY <2>1
  <1> HIDE DEF before, after, line, a, k
  <1>5. a.kind = "array"
    <2>1. CASE Pieces(a) = 1
      BY <2>1, <1>2, <1>3
    <2> QED
      BY <2>1, <1>1, KindsOfValues
  <1>6. /\ a.value \in Seq(Seq(Tokens)) /\ Pieces(a) = Len(a.value) + 2 /\ Len(a.value) \in Nat
        /\ k \in 1..Len(a.value) + 1 /\ upto \in 1..Pieces(a) /\ from # Pieces(a)
    <2>1. /\ a.value \in Seq(Seq(Tokens)) /\ Pieces(a) = Len(a.value) + 2 /\ Len(a.value) \in Nat
          /\ k \in 1..Len(a.value) + 1
      <3>1. a.value \in Seq(Seq(Tokens)) /\ Pieces(a) = Len(a.value) + 2
        BY <1>1, <1>5, KindsOfValues
      <3>2. k \in 1..Len(a.value) + 1
        BY <1>1, <1>5 DEF Closings
      <3> QED
        BY <3>1, <3>2
    <2>2. from # Pieces(a)
      BY <1>1, <1>2 DEF Complete, a
    <2> QED
      BY <2>1, <2>2, <1>2, <1>3
  <1>7. x \in Seq(Tokens)
    BY <1>1, <1>6, TornTyped
  <1>8. ASSUME code \in Seq(Tokens), ClosesString(a, k)
        PROVE  /\ Comment(code, line) \in Seq(Tokens) /\ line = code \o Comment(code, line)
               /\ Plain(Comment(code, line))
    <2> DEFINE c == Comment(code, line)
    <2>1. c \in Seq(Tokens) /\ line = code \o c
      BY <1>1, <1>2, <1>8, CodeAndComment
    <2>2. {Quote, Escape} \cap Range(c) = {}
      BY <1>2, <1>8
    <2> HIDE DEF c
    <2>3. \A i \in 1..Len(c) : c[i] \in Range(c)
      BY <2>1 DEF Range
    <2>4. Plain(c)
      BY <2>2, <2>3 DEF Plain
    <2> QED
      BY <2>1, <2>4 DEF c
  <1>9. CASE from <= k /\ v = Spelling(a, from)
    <2> DEFINE none == <<>>
    <2>1. /\ s = v /\ Hides(v, {Hash}) /\ Begins(v, x)
          /\ k <= Len(a.value) => Begins(v, Begun(a.value, k))
      <3>1. from \in 1..Pieces(a) /\ from <= k /\ upto \in from + 1..Pieces(a)
        BY <1>2, <1>3, <1>9
      <3> HIDE DEF from, upto
      <3> QED
        BY <3>1, <1>1, <1>5, <1>9, TornGrows
    <2> HIDE DEF s, x
    <2>2. code \in Seq(Tokens) /\ v \o code = x
      <3>1. PICK rest \in Seq(Tokens) : x = v \o rest
        BY <2>1 DEF Begins
      <3>2. SubSeq(v \o rest, Len(v) + 1, Len(v \o rest)) = rest
        BY <1>3, Parts
      <3>3. code = rest
        BY <3>1, <3>2, <2>1
      <3> QED
        BY <3>1, <3>3
    <2> HIDE DEF code
    <2>3. none \in Seq(Tokens) /\ Hides(none, {Hash}) /\ \A y \in Seq(Tokens) : none \o y = y
      BY BlankScans
    <2>4. none \o code = code
      BY <2>2, <2>3
    <2>5. TornSays(a, k, upto, none, v, line)
      <3>1. Precedes(a, k, v)
        BY <2>1, <1>5 DEF Precedes
      <3>2. v \o code = Without(Spelling(a, upto), Place(a, k))
        BY <2>2 DEF x
      <3>3. IsCode(none \o code, line) /\ ClosesString(a, k) => Plain(Comment(none \o code, line))
        BY <2>2, <2>4, <1>2, <1>8
      <3>4. IsCode(none \o code, line) /\ upto \in 1..Pieces(a)
        BY <2>4, <1>2, <1>6
      <3> HIDE DEF none, upto, from
      <3> QED
        BY <3>1, <3>2, <3>3, <3>4, <2>1, <2>2, <2>3, <1>1, <1>3, TornLine
    <2>6. PICK y \in Seq(Tokens) :
              /\ StripComment(line) = none \o y
              /\ \/ a.kind = "array" /\ upto <= k /\ v \o y = Spelling(a, upto)
                 \/ /\ Harmed(a, k, v \o y) /\ (a.kind = "array" => k < upto)
                    /\ a.kind = "array" /\ k = Len(a.value) + 1 => UnbalancedBrackets(v \o y) = 1
      BY <2>5 DEF TornSays
    <2>7. w = v \o y /\ w \in Seq(Tokens)
      BY <2>3, <2>6, <1>3, ConcatParts
    <2> HIDE DEF none, w
    <2>8. k = Len(a.value) + 1 /\ k < upto => Depth(d, after) = 0
      <3>1. k = Len(a.value) + 1 /\ k < upto => upto = Pieces(a)
        BY <1>6, SMTT(40)
      <3> QED
        BY <3>1, <1>2 DEF Depth, Complete, a
    <2>9. TornValue(d, after, w)
      <3>1. \/ upto <= k /\ w = Spelling(a, upto)
            \/ /\ Harmed(a, k, w) /\ k < upto
               /\ k = Len(a.value) + 1 => UnbalancedBrackets(w) = 1 + Depth(d, after)
        BY <2>6, <2>7, <2>8, <1>5
      <3> QED
        BY <3>1, <2>7, <1>2, <1>4, <1>5, <1>6 DEF TornValue, a, k
    <2> QED
      BY <2>9 DEF w, after, line
  <1>10. CASE Harmed(a, k, v) /\ k < from
    <2> DEFINE u == StripComment(line)
    <2>1. k <= Len(a.value) /\ k # Len(a.value) + 1
      <3>1. from \in 1..Len(a.value) + 2 /\ from # Len(a.value) + 2
        BY <1>3, <1>6
      <3> HIDE DEF from
      <3> QED
        BY <3>1, <1>6, <1>10, SMTT(40)
    <2>2. u \in Seq(Tokens)
      BY <1>1, StripTyped
    <2>3. k = Len(a.value) => Scan(u)[Len(u)] = NoString /\ EscapeFree(u)
      <3> SUFFICES ASSUME k = Len(a.value) PROVE Scan(u)[Len(u)] = NoString /\ EscapeFree(u)
        OBVIOUS
      <3>1. code \in Seq(Tokens) /\ Plain(code)
        <4>1. from \in 1..Pieces(a) /\ k < from /\ upto \in from + 1..Pieces(a)
          BY <1>2, <1>3, <1>10
        <4> HIDE DEF from, upto
        <4> QED
          BY <4>1, <1>1, <1>5, BehindThePlace
      <3> HIDE DEF code
      <3>2. ClosesString(a, k)
        BY <2>1 DEF ClosesString
      <3> DEFINE c == Comment(code, line)
      <3>3. c \in Seq(Tokens) /\ line = code \o c /\ Plain(c)
        BY <3>1, <3>2, <1>8
      <3> HIDE DEF c
      <3>4. Plain(line)
        BY <3>1, <3>3, PlainBoth
      <3> QED
        BY <3>4, <1>1, PlainLine
    <2> HIDE DEF u
    <2>4. v \o u \in Seq(Tokens) /\ Harmed(a, k, v \o u)
      <3>1. k >= Len(a.value) => k = Len(a.value)
        BY <2>1, <1>6
      <3>2. k = Len(a.value) => \A i \in 1..Len(u) : u[i] # Escape
        BY <2>3 DEF EscapeFree
      <3> QED
        BY <3>1, <3>2, <2>2, <2>3, <1>1, <1>3, <1>5, <1>10, HarmStays
    <2>5. k < upto
      BY <1>2, <1>3, <1>6, <1>10
    <2>6. w = v \o u
      BY DEF u
    <2> HIDE DEF w
    <2>7. TornValue(d, after, w)
      BY <2>1, <2>4, <2>5, <2>6, <1>2, <1>4, <1>6 DEF TornValue, a, k
    <2> QED
      BY <2>7 DEF w, after, line
  <1> QED
    BY <1>3, <1>5, <1>9, <1>10

\* Every line that is joined to it leaves it what it is.
LEMMA TornGoesOn ==
    ASSUME NEW d, Written(d), Damaged(d), d.text \in Seq(Seq(Tokens)), NEW n \in 1..Len(d.text),
           NEW v, TornValue(d, After(d, n - 1), v), StartsWith(v, Open),
           LET a == d.means[d.torn]
           IN a.kind = "array" /\ d.lacks = Len(a.value) =>
                 \A i \in d.torn + 1..Len(d.means) : ~HasEscapes(d.means[i])
    PROVE  TornValue(d, After(d, n), v \o StripComment(d.text[n]))
  <1> DEFINE before == After(d, n - 1)
             after == After(d, n)
             code == StripComment(d.text[n])
  <1>1. code \in Seq(Tokens)
    <2>1. d.text[n] \in Seq(Tokens)
      OBVIOUS
    <2> QED
      BY <2>1, StripTyped
  <1>2. \/ SaysNothing(before, after, code)
        \/ SaysHeader(d, before, after, code)
        \/ /\ after.of # d.torn
           /\ SaysFirst(d, before, after, code) \/ SaysMore(d, before, after, code)
        \/ /\ after.of = d.torn /\ after.of # 0
           /\ \/ FirstLine(d, before, after, d.text[n])
              \/ FurtherLine(d, before, after, d.text[n])
    BY LinesSay
  <1>3. ~(after.of = d.torn /\ FirstLine(d, before, after, d.text[n]))
    <2>1. before.of \in Int
      <3>1. n - 1 \in 0..Len(d.text)
        OBVIOUS
      <3> QED
        BY <3>1, OutlineTyped
    <2>2. before.of >= d.torn
      BY DEF TornValue
    <2> HIDE DEF before, after
    <2>3. FirstLine(d, before, after, d.text[n]) => after.of = before.of + 1
      BY DEF FirstLine
    <2> QED
      BY <2>1, <2>2, <2>3
  <1> HIDE DEF code
  <1>4. CASE \/ SaysNothing(before, after, code)
             \/ SaysHeader(d, before, after, code)
             \/ /\ after.of # d.torn
                /\ SaysFirst(d, before, after, code) \/ SaysMore(d, before, after, code)
    BY <1>1, <1>4, TornSwallows DEF code
  <1>5. CASE after.of = d.torn /\ FurtherLine(d, before, after, d.text[n])
    BY <1>5, TornContinues
  <1> QED
    BY <1>2, <1>3, <1>4, <1>5
=============================================================================
