------------------------------ MODULE Registry ------------------------------
(***************************************************************************)
(* Which tests a run selects: the globs, the positive and negative         *)
(* patterns, the tags and the shard of TestRegistry::select                *)
(* (src/framework/registry.cpp).  A name is a sequence of characters here, *)
(* because the globs look into it.                                         *)
(***************************************************************************)
EXTENDS Integers, Sequences

\* The first position from p on that is not a star.
AfterStars(pat, p) ==
    CHOOSE q \in p .. Len(pat) + 1 :
        /\ \A r \in p .. q - 1 : pat[r] = "*"
        /\ q <= Len(pat) => pat[q] # "*"

GlobMatchStarNeedsOne(pat, str) ==
    LET fits[p \in 1 .. Len(pat) + 1] ==
            IF p > Len(pat) THEN {Len(str) + 1}
            ELSE IF pat[p] = "*"
                 THEN LET q == AfterStars(pat, p)
                          rest == fits[q]
                      IN {s \in 1 .. Len(str) + 1 :
                             q > Len(pat) \/ \E r \in s + 1 .. Len(str) + 1 : r \in rest}
                 ELSE LET rest == fits[p + 1] IN
                      {s \in 1 .. Len(str) : pat[p] \in {"?", str[s]} /\ s + 1 \in rest}
    IN 1 \in fits[1]
\* fits[p]: where the rest of the string may begin for the pattern from p on to
\* match it.
GlobMatch(pat, str) ==
    LET fits[p \in 1 .. Len(pat) + 1] ==
            IF p > Len(pat) THEN {Len(str) + 1}
            ELSE IF pat[p] = "*"
                 THEN LET q == AfterStars(pat, p)
                          rest == fits[q]
                      IN {s \in 1 .. Len(str) + 1 :
                             q > Len(pat) \/ \E r \in s .. Len(str) + 1 : r \in rest}
                 ELSE LET rest == fits[p + 1] IN
                      {s \in 1 .. Len(str) : pat[p] \in {"?", str[s]} /\ s + 1 \in rest}
    IN 1 \in fits[1]

\* "suite.name", and the suite and the name alone.
Names(tc) == {tc.suite \o <<".">> \o tc.name, tc.suite, tc.name}

Hits(tc, pattern) == \E name \in Names(tc) : GlobMatch(pattern.glob, name)

Positive(patterns) == {i \in DOMAIN patterns : ~patterns[i].negative}
Negative(patterns) == {i \in DOMAIN patterns : patterns[i].negative}

NameMatches(tc, patterns) ==
    /\ Positive(patterns) # {} => \E i \in Positive(patterns) : Hits(tc, patterns[i])
    /\ \A i \in Negative(patterns) : ~Hits(tc, patterns[i])

TagsOk(tc, filter) ==
    /\ filter.include_tags = {} \/ tc.tags \cap filter.include_tags # {}
    /\ tc.tags \cap filter.exclude_tags = {}

\* hash is the combined hash of suite and name, an unsigned number.
InShard(hash, index, count) == count > 1 => hash % count = index
=============================================================================
