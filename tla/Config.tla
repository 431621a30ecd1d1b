-------------------------------- MODULE Config -------------------------------
(***************************************************************************)
(* From .gdextest.toml to a verdict (tools/gdextest_config.py): the table  *)
(* that Toml reads becomes a Config, which the doctor, the build's own     *)
(* checks and the version check of `test' then judge, each by itself, in   *)
(* the environment they find.                                              *)
(*                                                                         *)
(* Of the settings, those that some check looks at.  A text is a sequence  *)
(* of tokens; a bare value, true and false included, is its text.  A glob  *)
(* in exclude is a path like another, as for the code.                     *)
(***************************************************************************)
EXTENDS Toml

CONSTANTS
    Numbers,      \* text -> the integer it spells
    Versions,     \* text of the form N.N or N.N.N -> its parts
    Digits,       \* number -> its decimal digits
    Mentioned,    \* text -> the keys of Asked that occur in it
    Identifiers,  \* texts that are identifiers
    KeyValues,    \* texts that are key=value
    Files,        \* pattern -> what project_root.glob finds
    Parents,      \* what is found -> the directories it lies in
    CppFiles,     \* of what is found, regular files with a suffix of SOURCE_SUFFIXES
    Environments  \* where a file is judged: name -> what may be found there

IsVersion(v) == v \in Seq(Nat) /\ Len(v) <= 3
ASSUME VersionsAssumption ==
    \A text \in DOMAIN Versions : /\ IsVersion(Versions[text]) /\ Len(Versions[text]) >= 2
                                  /\ Range(Versions[text]) \subseteq DOMAIN Digits
ASSUME DocumentsAssumption == \A d \in Documents : d.text \in Seq(Seq(Tokens))
ASSUME DigitsAssumption == \A n \in DOMAIN Digits : Digits[n] \in Seq(0..9)
\* The binaries around are finitely many, and the versions in their names have two or
\* three parts.
ASSUME EnvironmentsAssumption ==
    \A d \in Documents : \A e \in Environments[d.place] :
        /\ IsVersion(e.named) /\ IsFiniteSet(e.nearby)
        /\ \A v \in e.nearby : /\ IsVersion(v) /\ Len(v) \in {2, 3}
                                /\ Range(v) \subseteq DOMAIN Digits

VARIABLES
    config,   \* the settings, or how loading them ends without any
    facts,    \* the environment
    verdict   \* what the checks say

vars == <<reader, config, facts, verdict>>

-----------------------------------------------------------------------------
(* load_config                                                              *)

Unset == <<>>
Text(word) == <<word>>

\* Where a setting may stand, the structured place before the flat one.
Places == [
    minimum |-> <<<<"minimum_required_godot_version">>>>,
    sources |-> <<<<"tests", "sources">>, <<"test_sources">>>>,
    exclude |-> <<<<"tests", "exclude">>>>,
    entry_symbol |-> <<<<"host", "entry_symbol">>, <<"entry_symbol">>>>,
    plugin_class |-> <<<<"host", "plugin_class">>, <<"plugin_class">>>>,
    host_mode |-> <<<<"host", "mode">>>>,
    build_args |-> <<<<"build", "args">>>>,
    scan_timeout_ms |-> <<<<"fixture", "scan_timeout_ms">>, <<"scan_timeout_ms">>>>,
    timeout_ms |-> <<<<"test", "timeout_ms">>, <<"timeout_ms">>>>,
    isolate_timeout_sec |-> <<<<"test", "isolate_timeout_sec">>, <<"isolate_timeout_sec">>>>,
    flaky_retries |-> <<<<"test", "flaky_retries">>, <<"flaky_retries">>>>,
    report |-> <<<<"test", "report">>, <<"report">>>>,
    color |-> <<<<"test", "color">>, <<"color">>>>,
    extension_library |-> <<<<"consumer_extension", "library">>, <<"extension_library">>>>,
    extension_manifest |-> <<<<"consumer_extension", "manifest">>, <<"extension_manifest">>>>]

Lists == {"sources", "exclude", "build_args"}
Integral == {"scan_timeout_ms", "timeout_ms", "isolate_timeout_sec", "flaky_retries"}
\* The sections, and the keys load_config asks each of them for.
Asked == [
    tests |-> {"sources", "exclude"},
    host |-> {"entry_symbol", "plugin_class", "mode", "bootstrap"},
    fixture |-> {"directory", "project_name", "manifest_name", "library_key",
                 "native_extensions", "assets", "scan_timeout_ms"},
    output |-> {"directory", "name"},
    build |-> {"args"},
    test |-> {"timeout_ms", "isolate_timeout_sec", "flaky_retries", "report", "color", "raw_log"},
    consumer_extension |-> {"library", "manifest"}]
Sections == DOMAIN Asked

Defaults == [
    minimum |-> Text("4.5"), sources |-> <<Text("tests/**/*.cpp")>>, exclude |-> <<>>,
    entry_symbol |-> Text("gdextest_library_init"), plugin_class |-> Text("GdextestPlugin"),
    host_mode |-> Text("editor"), build_args |-> <<>>, scan_timeout_ms |-> 20000,
    timeout_ms |-> 30000, isolate_timeout_sec |-> 60, flaky_retries |-> 3,
    report |-> Text("cli"), color |-> Text("auto"),
    extension_library |-> Unset, extension_manifest |-> Unset]

\* raw.get("gdextest", raw): the table of that name hides what stands outside.
Root == IF \E p \in sections \cup DOMAIN table : StartsWith(p, "gdextest")
        THEN Text("gdextest") ELSE <<>>

\* int() of a word that is no number is a ValueError, of an array a TypeError; list()
\* of a text is the list of its letters.
BadNumber == -1000000
BadType == -1000001
ASSUME NumbersAssumption == \A text \in DOMAIN Numbers : Numbers[text] \notin {BadNumber, BadType}
Convert(field, value) ==
    CASE field \in Integral ->
            IF value.kind = "array" THEN BadType
            ELSE IF value.text \in DOMAIN Numbers THEN Numbers[value.text] ELSE BadNumber
      [] field \in Lists ->
            IF value.kind = "array" THEN [i \in DOMAIN value.items |-> value.items[i].text]
            ELSE [i \in DOMAIN value.text |-> <<value.text[i]>>]
      [] OTHER -> IF value.kind = "array" THEN <<Open>> ELSE value.text

First(field, root) ==
    LET given == {k \in DOMAIN Places[field] : root \o Places[field][k] \in DOMAIN table}
    IN IF given = {} THEN Defaults[field]
       ELSE Convert(field, table[root \o Places[field][Min(given)]])

\* One file of a consumer extension names the other: the only manifest near the
\* library, the first library the manifest declares that exists.
DiscoverExtensionManifest(e) ==
    IF Cardinality(e.near) = 1 THEN CHOOSE manifest \in e.near : TRUE ELSE Unset
DiscoverExtensionLibrary(e) ==
    LET there == SelectSeq(e.declared, LAMBDA path : path \in e.existing)
    IN IF there = <<>> THEN Unset ELSE Head(there)
WithDerivedPair(c, e) ==
    [c EXCEPT
        !.extension_manifest = IF @ = Unset /\ c.extension_library # Unset
                               THEN DiscoverExtensionManifest(e) ELSE @,
        !.extension_library = IF @ = Unset /\ c.extension_manifest # Unset
                              THEN DiscoverExtensionLibrary(e) ELSE @]

\* `key in section' where the section is a value: it asks for a part of a text or an
\* item of a list, and raises on true and false.  What is found raises when it is read.
Booleans == {Text("true"), Text("false")}
Raises(value, key) ==
    CASE value.kind = "array" ->
            \E i \in DOMAIN value.items :
                value.items[i].kind # "array" /\ value.items[i].text = Text(key)
      [] value.kind # "array" ->
            \/ value.kind = "bare" /\ value.text \in Booleans
            \/ value.text \in DOMAIN Mentioned /\ key \in Mentioned[value.text]

\* A text in the place of all the settings has no get(); one in the place of a section
\* that none of its keys is found in stands for a section that is empty.  Only a
\* ValueError is reported; where something else is raised too, whichever comes first.
LoadConfig ==
    /\ outcome.status = "read" /\ config.status = "none"
    /\ facts' \in Environments[document.place]
    /\ LET settings == [field \in DOMAIN Places |-> First(field, Root)]
           crash ==
            \/ Text("gdextest") \in DOMAIN table
            \/ \E s \in Sections : /\ Append(Root, s) \in DOMAIN table
                                   /\ \E key \in Asked[s] : Raises(table[Append(Root, s)], key)
            \/ \E f \in Integral : settings[f] = BadType
           error == \E f \in Integral : settings[f] = BadNumber
       IN \/ crash /\ config' = [status |-> "crash"]
          \/ error /\ Text("gdextest") \notin DOMAIN table /\ config' = [status |-> "error"]
          \/ /\ ~crash /\ ~error
             /\ config' = [status |-> "loaded", is |-> WithDerivedPair(settings, facts')]
    /\ UNCHANGED <<reader, verdict>>

-----------------------------------------------------------------------------
(* The checks, of a Config c in an environment e.                           *)

\* Tuple comparison: a proper prefix is smaller.
Below(a, b) ==
    \E k \in DOMAIN b :
        /\ \A i \in 1..(k - 1) : i \in DOMAIN a /\ a[i] = b[i]
        /\ k \in DOMAIN a => a[k] < b[k]
VersionAtLeastInMinor(actual, minimum) ==
    actual # <<>> /\ (minimum = <<>> \/ ~Below(SubSeq(actual, 1, 2), SubSeq(minimum, 1, 2)))
VersionAtLeast(actual, minimum) == actual # <<>> /\ ~Below(actual, minimum)

Minimum(c) == IF c.minimum \in DOMAIN Versions THEN Versions[c.minimum] ELSE <<>>

\* exclude is compared literally with a path and its parents.
IsExcluded(c, path) == \E x \in Range(c.exclude) : path = x \/ x \in Parents[path]
MatchesOf(c, pattern) ==
    IF pattern \notin DOMAIN Files THEN {}
    ELSE {path \in Files[pattern] \cap CppFiles : ~IsExcluded(c, path)}
SourcePatternMatches(c) == [pattern \in Range(c.sources) |-> MatchesOf(c, pattern)]
ZeroPatterns(c) == {pattern \in Range(c.sources) : MatchesOf(c, pattern) = {}}
DiscoverSources(c) == UNION Range(SourcePatternMatches(c))

\* The settings that are refused.
Unless(valid, setting) == IF valid THEN {} ELSE {setting}
Validate(c, e) ==
    UNION {
        Unless(e.framework, "framework"),
        Unless(c.minimum \in DOMAIN Versions, "minimum"),
        Unless(c.host_mode \in {Text("editor"), Text("runtime")}, "host_mode"),
        Unless(Range(c.sources) # {}, "sources"),
        Unless(c.entry_symbol \in Identifiers, "entry_symbol"),
        Unless(c.plugin_class \in Identifiers, "plugin_class"),
        Unless(Range(c.build_args) \subseteq KeyValues, "build_args"),
        Unless(c.timeout_ms > 0, "timeout_ms"),
        Unless(c.isolate_timeout_sec > 0, "isolate_timeout_sec"),
        Unless(c.flaky_retries >= 0, "flaky_retries"),
        Unless(c.report \in {Text("cli"), Text("quiet"), Text("pretty")}, "report"),
        Unless(c.color \in {Text("auto"), Text("always"), Text("never")}, "color"),
        Unless(c.scan_timeout_ms > 0, "scan_timeout_ms"),
        Unless((c.extension_library = Unset) = (c.extension_manifest = Unset), "pair")}

\* _discover_godot, of the versions of the binaries around: those whose names have the
\* minimum's major.minor somewhere in them first, then the last name, which is one
\* comparison of texts.  What follows the version in a name sorts before a dot.
Dot == -1
MajorMinor(v) == Digits[v[1]] \o <<Dot>> \o Digits[v[2]]
Name(v) == MajorMinor(v) \o IF Len(v) = 2 THEN <<>> ELSE <<Dot>> \o Digits[v[3]]
OccursIn(part, text) ==
    \E i \in 0..(Len(text) - Len(part)) : SubSeq(text, i + 1, i + Len(part)) = part
Mentions(v, minimum) == Len(minimum) >= 2 /\ OccursIn(MajorMinor(minimum), Name(v))
LastName(pool) == CHOOSE v \in pool : \A other \in pool : ~Below(Name(v), Name(other))
NoGodot == <<>>
DiscoverAnyGodot(c, e) == IF e.nearby = {} THEN NoGodot ELSE LastName(e.nearby)
DiscoverGodot(c, e) ==
    LET matching == {v \in e.nearby : Mentions(v, Minimum(c))}
        pool == IF matching # {} THEN matching ELSE e.nearby
    IN IF pool = {} THEN NoGodot ELSE LastName(pool)

\* The version of the binary that is named, or else of one that is found.
Godot(c, e) == IF e.named # NoGodot THEN e.named ELSE DiscoverGodot(c, e)

BuildStartsLeniently(c, e) == DiscoverSources(c) # {} /\ Validate(c, e) = {}
\* resolve_sources and validate as _run_build calls them.
BuildStarts(c, e) ==
    /\ ZeroPatterns(c) = {} /\ DiscoverSources(c) # {}
    /\ Validate(c, e) = {}

Present(e, path) == path = Unset \/ path \in e.existing

RunDoctorWithoutPatterns(c, e, allow_injection) ==
    IF /\ Validate(c, e) = {} /\ DiscoverSources(c) # {}
       /\ VersionAtLeast(Godot(c, e), Minimum(c))
       /\ e.scons /\ e.framework /\ e.sconstruct # "absent"
       /\ Present(e, c.extension_library) /\ Present(e, c.extension_manifest)
    THEN 0 ELSE 2
RunDoctor(c, e, allow_injection) ==
    LET configuration == Validate(c, e) = {} /\ ZeroPatterns(c) = {}
        wiring == CASE e.sconstruct = "plain" -> allow_injection
                    [] e.sconstruct = "absent" -> FALSE
                    [] OTHER -> TRUE
        extension == c.extension_library # Unset \/ c.extension_manifest # Unset =>
                        {c.extension_library, c.extension_manifest} \subseteq e.existing
    IN IF /\ configuration /\ VersionAtLeast(Godot(c, e), Minimum(c))
          /\ e.scons /\ e.framework /\ wiring /\ extension
       THEN 0 ELSE 2

\* What generate_fixture raises on, of what it gets from the configuration.
GeneratorAccepts(c, e) ==
    /\ c.host_mode \in {Text("editor"), Text("runtime")}
    /\ c.plugin_class \in Identifiers
    /\ c.scan_timeout_ms > 0
    /\ Present(e, c.extension_library) /\ Present(e, c.extension_manifest)

Judge ==
    /\ config.status = "loaded" /\ ~verdict.given
    /\ LET c == config.is IN
       verdict' = [given |-> TRUE,
                   doctor |-> RunDoctor(c, facts, FALSE),
                   test_doctor |-> RunDoctor(c, facts, TRUE),
                   build |-> BuildStarts(c, facts),
                   version |-> VersionAtLeast(Godot(c, facts), Minimum(c)),
                   sources |-> IF BuildStarts(c, facts) THEN DiscoverSources(c) ELSE {}]
    /\ UNCHANGED <<reader, config, facts>>

-----------------------------------------------------------------------------
NotJudged == [given |-> FALSE, doctor |-> 2, test_doctor |-> 2, build |-> FALSE,
              version |-> FALSE, sources |-> {}]
Done ==
    /\ outcome.status \in {"error", "crash"} \/ config.status \in {"error", "crash"} \/ verdict.given
    /\ UNCHANGED vars

Init == ReadInit /\ config = [status |-> "none"] /\ facts = {} /\ verdict = NotJudged
Next == (Read /\ UNCHANGED <<config, facts, verdict>>) \/ LoadConfig \/ Judge \/ Done
Spec == Init /\ [][Next]_vars

-----------------------------------------------------------------------------
(* What is wanted.  document.means is the list of assignments the author    *)
(* wrote, as values.  In a damaged file one of them, number document.torn,  *)
(* misses its closing delimiter number document.lacks (a string its quote;  *)
(* an array's are the quotes of its strings and then the bracket), and      *)
(* document.damaged is the line it begins in; these are 0 in an intact one. *)

TypeOK ==
    /\ document \in Documents /\ index \in 0..Len(lines)
    /\ pending # Nothing => pending.line \in 1..index
    /\ outcome.status \in {"reading", "read", "error", "crash"}
    /\ outcome.line \in 0..index
    /\ config.status \in {"none", "loaded", "error", "crash"}
    /\ config.status # "none" => outcome.status = "read" /\ facts \in Environments[document.place]
    /\ config.status = "loaded" => DOMAIN config.is = DOMAIN Places
    /\ verdict.given => config.status = "loaded"

\* The author's last assignment in the first place of a setting that has one;
\* outside a gdextest table only if there is no such table.
MeantRoot ==
    IF \E i \in DOMAIN document.means : StartsWith(document.means[i].path, "gdextest")
    THEN Text("gdextest") ELSE <<>>
Assignments(path) == {i \in DOMAIN document.means : document.means[i].path = MeantRoot \o path}
Meant(field) ==
    LET given == {k \in DOMAIN Places[field] : Assignments(Places[field][k]) # {}}
    IN IF given = {} THEN Defaults[field]
       ELSE document.means[Max(Assignments(Places[field][Min(given)]))].value

\* What unicode_escape leaves as it is.
AsRead(text) == [i \in DOMAIN text |-> AsLatin1(text[i])]
IsAscii(text) == AsRead(text) = text
Survives(field) ==
    CASE field \in Integral -> TRUE
      [] field \in Lists -> \A i \in DOMAIN Meant(field) : IsAscii(Meant(field)[i])
      [] OTHER -> IsAscii(Meant(field))

HasComma(value) == \E i \in DOMAIN value : Contains(value[i], Comma)
\* An earlier assignment stands where this one needs a section.
Shadowed(i) == \E j \in 1..i - 1 : IsStrictPrefix(document.means[j].path, document.means[i].path)
\* Values where sections belong, an array where a number does.
Clashes ==
    \E i \in DOMAIN document.means :
        \/ document.means[i].path \in {<<"gdextest">>} \cup {Append(MeantRoot, s) : s \in Sections}
        \/ Shadowed(i)
        \/ /\ document.means[i].kind = "array"
           /\ \E field \in Integral : \E k \in DOMAIN Places[field] : i \in Assignments(Places[field][k])
Refused(i) == document.means[i].kind = "array" /\ HasComma(document.means[i].value)
Refusable == \E i \in DOMAIN document.means : Refused(i)

\* An intact file is read as its author meant, quotes, hashes, brackets, escapes,
\* comments and broken lines included, and each setting comes from the most specific
\* place that has one, as long as each value stands where one of its kind belongs and
\* the text is ASCII; the only thing refused is a comma inside an array's string, and
\* nothing crashes but what stands in a wrong place (load_toml, _parse_value,
\* load_config).  Of text that is not ASCII, and of values in the place of a section,
\* nothing is claimed: the code changes the one and may pass over the other.
ReadsAsMeant ==
    document.damaged = 0 =>
        /\ outcome.status = "error" => Refusable
        /\ "crash" \in {outcome.status, config.status} => Clashes
        /\ config.status = "loaded" /\ ~Clashes =>
               \A field \in DOMAIN Places \ {"extension_library", "extension_manifest"} :
                   Survives(field) => config.is[field] = Meant(field)

\* docs/configuration.md: "A missing closing quote or bracket is a parse error with
\* file:line context", also when later lines bring quotes, hashes and brackets of
\* their own, and the line is the one where the damaged value begins, unless one
\* before it is at fault.  The exception is the quote of an array's last string: if a
\* later string holds an escape, that may end the swallowed text in the wrong place
\* (_array_incomplete, load_toml).  A quote in a comment beside a string that is not
\* closed closes it; such a file misses nothing (Author).
Strings(a) == CASE a.kind = "array" -> Range(a.value) [] a.kind = "text" -> {a.value} [] OTHER -> {}
HasEscapes(a) == \E text \in Strings(a) : {Quote, Escape} \cap Range(text) # {}
EscapesLater ==
    LET a == document.means[document.torn] IN
    /\ a.kind = "array" /\ document.lacks = Len(a.value)
    /\ \E i \in document.torn + 1..Len(document.means) : HasEscapes(document.means[i])
FaultBefore ==
    \/ \E i \in 1..document.torn - 1 : Refused(i)
    \/ \E i \in 1..document.torn : Shadowed(i)
MissingDelimiterIsAnError ==
    document.damaged # 0 /\ ~EscapesLater =>
        /\ outcome.status # "read"
        /\ ~FaultBefore => /\ outcome.status # "crash"
                           /\ outcome.status = "error" => outcome.line = document.damaged

\* tests/config_tests.py: "A missing closing quote must fail the parse, not silently drop
\* sources."  The code does not keep this where EscapesLater holds: the value ends at a
\* quote of a later one, is stored with what it has swallowed, and the rest of the file is
\* read as if nothing were missing (_array_incomplete, _parse_value).
NothingIsSwallowed == document.damaged # 0 => outcome.status # "read"

\* docs/configuration.md: "a binary at or above [the minimum] runs the tests".  The
\* comparison is that of the numbers, a missing patch counting as 0: nothing below the
\* minimum passes, and all that is at or above it does (version_at_least).  Of a binary
\* that names no patch beside a minimum that does (4.5 for 4.5.0) the second is not
\* claimed: the code refuses it.
Part(version, i) == IF i \in DOMAIN version THEN version[i] ELSE 0
AtOrAbove(actual, minimum) ==
    \/ \A i \in 1..3 : Part(actual, i) = Part(minimum, i)
    \/ \E i \in 1..3 :
        /\ Part(actual, i) > Part(minimum, i)
        /\ \A j \in 1..(i - 1) : Part(actual, j) = Part(minimum, j)
VersionsCompare ==
    verdict.given /\ facts.named # NoGodot =>
        LET actual == facts.named
            minimum == Minimum(config.is)
        IN /\ verdict.version => AtOrAbove(actual, minimum)
           /\ AtOrAbove(actual, minimum) /\ ~IsStrictPrefix(actual, minimum) => verdict.version

\* "Binaries matching the configured major.minor (e.g. 4.5) are preferred"
\* (_discover_godot): a search passes only if something near will do; and it passes if
\* there is a binary of the very major.minor that is asked for, whatever else is near
\* and sorts after it, as long as no other name has the same characters in it (3.4.5
\* and 4.50 have those of 4.5).
NearbyGodotIsFound ==
    verdict.given /\ facts.named = NoGodot =>
        LET minimum == Minimum(config.is)
            of_it == {v \in facts.nearby : SubSeq(v, 1, 2) = minimum}
        IN /\ verdict.version => \E v \in facts.nearby : AtOrAbove(v, minimum)
           /\ of_it # {} /\ (\A v \in facts.nearby : Mentions(v, minimum) => v \in of_it) =>
                  verdict.version

\* What the doctor lets through, neither the build nor the version check of `test'
\* nor the generator it leads to refuses: the doctor is the only place where a
\* configuration fails (_run_doctor, _run_build, cmd_test, generate_fixture).  And
\* the bare doctor is stricter than that of `test'.
DoctorGatesTheBuild ==
    verdict.given =>
        /\ verdict.test_doctor = 0 =>
            /\ verdict.build /\ verdict.version
            /\ GeneratorAccepts(config.is, facts)
            /\ facts.scons /\ facts.framework /\ facts.sconstruct # "absent"
        /\ verdict.doctor = 0 => verdict.test_doctor = 0

\* A build that starts compiles, of every pattern the author wrote, at least one
\* source and all that exclude does not name: no typo leaves code under test out
\* (resolve_sources), nor a missing delimiter, except where EscapesLater lets it pass.
\* Two files may lose sources without a word, and are left out: one with a value in the
\* place of a section (Clashes), which the default pattern may stand in for, and one
\* whose patterns are not ASCII.
ClearSources ==
    \/ document.damaged = 0 /\ ~Clashes /\ Survives("sources") /\ Survives("exclude")
    \/ document.damaged # 0 /\ ~EscapesLater
NoSourceIsLost ==
    ClearSources /\ verdict.given /\ verdict.build =>
        \A i \in DOMAIN Meant("sources") :
            LET named == {path \in CppFiles : /\ Meant("sources")[i] \in DOMAIN Files
                                              /\ path \in Files[Meant("sources")[i]]}
                kept == {path \in named : ({path} \cup Parents[path]) \cap Range(Meant("exclude")) = {}}
            IN kept # {} /\ kept \subseteq verdict.sources
=============================================================================
