----------------------------- MODULE MCRegistry -----------------------------
(* Registry over two characters: nested prefixes, a prefix without its slashes *)
(* and the empty one, which PUT lets in, and every absolute path of up to four *)
(* characters. One service may be disabled.                                    *)
EXTENDS Registry

Chars == {"/", "a"}

Short(n) == UNION {[1..k -> Chars] : k \in 0..n}

AbsolutePaths == {s \in Short(4) : HasSlash(s)}

Stored == {NormalizePrefix(s) : s \in Short(2)} \cup {<<>>, <<"/", "a">>}

Enabled(x) == [prefix |-> x, enabled |-> TRUE]

Rows == {Enabled(x) : x \in Stored} \cup {[prefix |-> <<"/">>, enabled |-> FALSE]}

ShortLists == UNION {[1..k -> Rows] : k \in 0..2}

(* Three enabled services, one prefix inside the other.                        *)
Nested ==
  <<Enabled(<<"/", "a", "/", "a", "/">>), Enabled(<<"/">>), Enabled(<<"/", "a", "/">>)>>

SomeLists == ShortLists \cup {Nested}

=============================================================================
