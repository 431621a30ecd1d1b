------------------------------- MODULE MCConfig ------------------------------
(* Instances of Config: files rendered from what an author means.           *)
EXTENDS Author

\* Render a value; the closing delimiter number `damage' is left out, that of the
\* whole array counting last.
Str(t, whole) == <<Quote>> \o Escaped(t) \o (IF whole THEN <<Quote>> ELSE <<>>)
Items(ts, damage) ==
    [i \in DOMAIN ts |-> Str(ts[i], i # damage) \o (IF i < Len(ts) THEN <<Comma>> ELSE <<>>)]
Closing(ts, damage) == IF damage = Len(ts) + 1 THEN <<>> ELSE <<Close>>

\* An assignment: its place, its value (an array of texts, a text, a number), its
\* layout.
Spelled == [n \in {-1, 0, 1, 3} |->
    CASE n = -1 -> "-1" [] n = 0 -> "0" [] n = 1 -> "true" [] n = 3 -> "3"]
A(path, value) ==
    [path |-> path, value |-> value, kind |-> "array", word |-> "none", layout |-> "line"]
T(path, value) == [A(path, value) EXCEPT !.kind = "text"]
N(path, number) == [A(path, number) EXCEPT !.kind = "number", !.word = Spelled[number]]

Remark(a, damage) ==
    CASE a.layout = "line" -> <<>>
      [] a.layout = "comment" -> IF damage = 0 THEN <<Hash, Quote, Open>> ELSE <<Hash, "w", Open>>
      [] a.layout = "split" -> IF damage = 0 THEN <<Hash, Close, Quote>> ELSE <<Hash, "w", Open>>
RenderAssignment(a, damage) ==
    LET start == <<Last(a.path), Equals>>
        items == Items(a.value, damage)
        end == Remark(a, damage)
    IN CASE a.kind = "number" -> <<Append(start, a.word)>>
         [] a.kind = "text" -> <<start \o Str(a.value, damage = 0) \o end>>
         [] a.kind = "array" /\ a.layout = "split" ->
                <<Append(start, Open) \o end>> \o [i \in DOMAIN items |-> items[i] \o end]
                    \o <<Closing(a.value, damage) \o end>>
         [] a.kind = "array" /\ a.layout # "split" ->
                <<Append(start, Open) \o FlattenSeq(items) \o Closing(a.value, damage) \o end, end>>

\* A header before every assignment that is in a section; they may come again.
Header(a) == IF Len(a.path) = 1 THEN <<>> ELSE <<<<Open>> \o Front(a.path) \o <<Close>>>>
Render(as, torn, damage) ==
    FlattenSeq([i \in DOMAIN as |->
        Header(as[i]) \o RenderAssignment(as[i], IF i = torn THEN damage ELSE 0)])

Good == [framework |-> TRUE, scons |-> TRUE, sconstruct |-> "wired", named |-> <<4, 5>>,
         nearby |-> {}, existing |-> {}, near |-> {}, declared |-> <<>>]

\* How far a file is after each of its lines.
Outline(as) ==
    LET at(i, upto) == [of |-> i, upto |-> upto, section |-> Front(as[i].path)]
        header(i) == [of |-> i - 1, upto |-> IF i = 1 THEN 0 ELSE Pieces(as[i - 1]),
                      section |-> Front(as[i].path)]
        whole(i) == at(i, Pieces(as[i]))
    IN FlattenSeq([i \in DOMAIN as |->
        (IF Len(as[i].path) = 1 THEN <<>> ELSE <<header(i)>>)
            \o CASE as[i].kind # "array" -> <<whole(i)>>
                 [] as[i].kind = "array" /\ as[i].layout = "split" ->
                        [k \in 1..Pieces(as[i]) |-> at(i, k)]
                 [] as[i].kind = "array" /\ as[i].layout # "split" -> <<whole(i), whole(i)>>])
Broken(as, torn, damage, place) ==
    LET before == Render(SubSeq(as, 1, torn - 1), 0, 0) \o Header(as[torn])
    IN [text |-> Render(as, torn, damage), means |-> as, outline |-> Outline(as),
        torn |-> torn, lacks |-> damage, damaged |-> Len(before) + 1, place |-> place]
Doc(as, place) ==
    [text |-> Render(as, 0, 0), means |-> as, outline |-> Outline(as),
     torn |-> 0, lacks |-> 0, damaged |-> 0, place |-> place]

-----------------------------------------------------------------------------
W(w) == <<w>>
In(s, key) == <<"gdextest", s, key>>
Sources == In("tests", "sources")
Layouts == {"line", "comment", "split"}
Texts == {<<"a">>, <<>>, <<"a", Hash, "b">>, <<Open>>, <<Close>>, <<Quote>>, <<"a", Escape>>,
          <<Comma, "b">>, <<Escape, Quote>>, <<Equals>>, <<Escape, "n">>, <<"umlaut">>}
Arrays == {<<>>} \cup {<<t>> : t \in Texts} \cup {<<t, u>> : t \in Texts, u \in {<<Quote>>, <<"a", Hash, "b">>}}
Strange == {[A(Sources, ts) EXCEPT !.layout = l] : ts \in Arrays, l \in Layouts}
    \cup {[T(In("host", "plugin_class"), t) EXCEPT !.layout = l] : t \in Texts, l \in Layouts \ {"split"}}
Later == {A(In("build", "args"), <<W("k=v")>>),
          [A(In("build", "args"), <<<<Close>>, <<Open, Hash>>>>) EXCEPT !.layout = "comment"],
          A(In("build", "args"), <<<<Quote>>, <<"b", Escape>>>>)}

\* A missing delimiter in the first assignment, or in one after others that do no harm, are
\* refused, or stand where a section belongs.
Before == {T(In("host", "mode"), W("a")), A(In("build", "args"), <<<<"a", Comma>>, <<Quote>>>>),
           T(<<"gdextest", "tests">>, W("a"))}
Syntax == {Doc(<<a, b>>, "good") : a \in Strange, b \in Later}
BrokenFiles ==
    UNION {
        UNION {{Broken(<<a, b>>, 1, d, "good") : b \in Later} : d \in Closings(a)}
        \cup {Broken(<<b, a>>, 2, d, "good") : b \in Before, d \in Closings(a)} : a \in Strange}
    \cup {Broken(<<A(In("tests", "exclude"), <<W("a")>>), A(Sources, <<t>>)>>, 1, 1, "good") :
            t \in {<<"s", Quote>>, W("s")}}

\* One setting in all its places, twice in one of them.
Lines == <<T(W("plugin_class"), W("a")), T(<<"gdextest", "plugin_class">>, W("b")),
           T(In("host", "plugin_class"), W("c")), T(In("host", "plugin_class"), W("d")),
           T(<<"gdextest", "plugin_class">>, W("e")), T(<<"host", "plugin_class">>, W("f")),
           A(<<"gdextest", "test_sources">>, <<W("s")>>)>>
Layered ==
    {Doc(FlattenSeq([i \in DOMAIN Lines |-> IF i \in S THEN <<Lines[i]>> ELSE <<>>]), "good")
        : S \in SUBSET DOMAIN Lines}

\* Values where a section belongs, before and after it, with the name of a setting in
\* them and without; a number that is none.
Tests == <<"gdextest", "tests">>
Scalars == {T(Tests, W("a")), T(Tests, W("sources")), A(<<"gdextest", "host">>, <<W("a")>>),
            A(<<"gdextest", "host">>, <<W("mode")>>), N(<<"gdextest", "test">>, 1),
            N(<<"gdextest", "build">>, 3)}
Wrong == {Doc(as, "good") : as \in {
    <<T(<<"gdextest", "host">>, W("a")), T(In("host", "mode"), W("a"))>>,
    <<T(W("gdextest"), W("a"))>>,
    <<T(W("gdextest"), W("a")), T(In("host", "mode"), W("a"))>>,
    <<T(In("test", "timeout_ms"), W("a"))>>, <<A(In("test", "flaky_retries"), <<>>)>>,
    <<T(In("test", "timeout_ms"), W("a")), T(Tests, W("sources"))>>}
        \cup {<<a>> : a \in Scalars} \cup {<<A(Sources, <<W("s")>>), a>> : a \in Scalars}}

Tools == {[Good EXCEPT !.framework = f, !.scons = s, !.sconstruct = w] :
            f, s \in BOOLEAN, w \in {"absent", "plain", "mentions", "wired"}}
Deviations ==
    {T(In("host", "mode"), W("runtime")), T(In("host", "mode"), W("w")),
     T(In("host", "entry_symbol"), <<"a", Hash>>), T(In("host", "plugin_class"), <<>>),
     A(In("build", "args"), <<W("w")>>), A(Sources, <<>>), A(Sources, <<W("s"), W("w")>>),
     A(Sources, <<W("s"), W("headers")>>), A(Sources, <<W("s"), W("t")>>), A(Sources, <<W("s")>>),
     T(In("test", "report"), W("w")), T(In("test", "color"), W("w")),
     T(In("test", "color"), W("never")), T(<<"gdextest", "minimum_required_godot_version">>, W("w"))}
    \cup {N(In(s[1], s[2]), n) : n \in DOMAIN Spelled,
            s \in {<<"fixture", "scan_timeout_ms">>, <<"test", "timeout_ms">>,
                   <<"test", "isolate_timeout_sec">>, <<"test", "flaky_retries">>}}
Deviating == {Doc(<<a>>, "tools") : a \in Deviations}
Excluding == {Doc(<<A(Sources, <<W("s"), W("t")>>), A(In("tests", "exclude"), x)>>, "good") :
                x \in {<<W("dir")>>, <<W("f1")>>, <<W("w")>>}}

Known == {<<3, 4, 5>>, <<4, 4>>, <<4, 4, 1>>, <<4, 5>>, <<4, 5, 1>>, <<4, 9>>, <<4, 10>>, <<5, 0>>}
Minima == {"4.5", "4.5.0", "4.5.1", "4.4", "4.10", "5.0"}
Compared == {Doc(<<T(<<"gdextest", "minimum_required_godot_version">>, W(v))>>, "godots") : v \in Minima}
Godots == {[Good EXCEPT !.named = actual] : actual \in Known}
    \cup {[Good EXCEPT !.named = NoGodot, !.nearby = S] : S \in SUBSET Known}

\* What is near or declares anything is there.
Extensions ==
    {x \in [near : SUBSET {W("m"), W("m2")}, declared : {<<>>, <<W("l")>>, <<W("l2"), W("l")>>},
            existing : SUBSET {W("m"), W("m2"), W("l")}] :
        x.near \subseteq x.existing /\ (x.declared # <<>> => W("m") \in x.existing)}
TheEnvironments == [
    good |-> {Good}, tools |-> Tools, godots |-> Godots,
    extensions |-> {[Good EXCEPT !.near = x.near, !.declared = x.declared, !.existing = x.existing] :
                        x \in Extensions}]
Extended == {Doc(as, "extensions") :
             as \in {<<T(In("consumer_extension", "library"), W("l"))>>,
                     <<T(<<"gdextest", "extension_manifest">>, W("m"))>>,
                     <<T(In("consumer_extension", "manifest"), W("m")),
                       T(In("consumer_extension", "library"), W("l"))>>}}

AllDocuments == Syntax \cup BrokenFiles \cup Layered \cup Wrong \cup Deviating \cup Excluding \cup Compared \cup Extended

AllWords == {"a", "b", "c", "d", "e", "f", "s", "t", "w", "k=v", "l", "m", "dir", "f1", "headers",
             "n", "umlaut", "mojibake", "control", "runtime", "never", "gdextest"} \cup Sections
    \cup {Last(place) : place \in UNION {Range(Places[f]) : f \in DOMAIN Places}}
    \cup Minima \cup Range(Spelled)
TheMojibake == [w \in AllWords |-> IF w = "umlaut" THEN "mojibake" ELSE w]
\* Of the words of the texts, those that begin with the letter of an escape.
TheEscapes == [w \in AllWords |->
    CASE w \in {"a", "b", "f", "f1", "n", "never", "runtime", "t"} -> W("control")
      [] OTHER -> <<Escape, TheMojibake[w]>>]
TheDigits == [n \in 0..10 |-> IF n < 10 THEN <<n>> ELSE <<1, n - 10>>]
TheMentioned == [t \in {W("sources")} |-> {"sources"}]
TheNumbers == [t \in {W(Spelled[n]) : n \in DOMAIN Spelled} |-> CHOOSE n \in DOMAIN Spelled : W(Spelled[n]) = t]
TheVersions == [t \in {W(v) : v \in Minima} |->
    CASE t = W("4.5") -> <<4, 5>> [] t = W("4.5.0") -> <<4, 5, 0>> [] t = W("4.5.1") -> <<4, 5, 1>>
      [] t = W("4.4") -> <<4, 4>> [] t = W("4.10") -> <<4, 10>> [] t = W("5.0") -> <<5, 0>>]
TheIdentifiers == {W("gdextest_library_init"), W("GdextestPlugin"), W("a")}
TheFiles == [t \in {W("tests/**/*.cpp"), W("s"), W("t"), W("headers"), W("a")} |->
    CASE t = W("s") -> {W("f0"), W("h"), W("dir")} [] t = W("t") -> {W("f1"), W("f2"), W("f3")}
      [] t = W("headers") -> {W("h")} [] OTHER -> {W("f0")}]
TheParents == [t \in {W("f0"), W("f1"), W("f2"), W("f3"), W("h"), W("dir")} |->
    IF t = W("f2") THEN {W("dir")} ELSE {}]
TheCppFiles == {W("f0"), W("f1"), W("f2"), W("f3")}
TheKeyValues == {W("k=v")}
=============================================================================
