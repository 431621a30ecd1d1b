------------------------------ MODULE MCShards ------------------------------
(***************************************************************************)
(* Small instances of the sharded selection for TLC.                       *)
(***************************************************************************)
EXTENDS Shards

\* Names that are prefixes and suffixes of one another.
MCCases ==
    <<[suite |-> <<"a">>, name |-> <<"b">>, tags |-> {"unit"}],
      [suite |-> <<"a", "b">>, name |-> <<"a">>, tags |-> {"slow"}],
      [suite |-> <<"a">>, name |-> <<"a", "b">>, tags |-> {"unit", "slow"}]>>

Globs == {<<"*">>, <<"a", "*">>, <<"*", "*", "b">>, <<"?", ".", "*">>,
          <<"a", "*", "b">>, <<"a", "b">>, <<"*", "?", "*", "a">>}
Patterns == [negative : BOOLEAN, glob : Globs]
PatternLists == {<<>>} \cup {<<p>> : p \in Patterns}
                \cup {<<p, q>> : p \in Patterns, q \in Patterns}

Filter(patterns, include, exclude, shuffle) ==
    [patterns |-> patterns, include_tags |-> include, exclude_tags |-> exclude,
     shuffle |-> shuffle]
MCFilters ==
    {Filter(ps, {}, {}, FALSE) : ps \in PatternLists}
    \cup {Filter(<<>>, in, ex, sh) : in \in {{}, {"slow"}}, ex \in {{}, {"unit"}},
                                     sh \in BOOLEAN}

\* Every distribution of the tests over two shards, on large hashes.
MCHashes == [1 .. Len(MCCases) -> {1000000006, 1000000007}]
=============================================================================
