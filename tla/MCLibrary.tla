------------------------------ MODULE MCLibrary ------------------------------
(* Small instances of Library. *)
EXTENDS Library, TLC

MCRatio(x, y) == LET alike == {{"a", "a2"}, {"X", "X2"}}
                 IN IF {x, y} \in alike THEN 80
                    ELSE IF {x, y} \in {{"a", "c"}, {"a2", "c"}} THEN 75 ELSE 0
MCDuplicables == {"d"}

Chain(s, defs) == [sents |-> {s[i] : i \in DOMAIN s},
                   edges |-> {<<"root", s[1], "below">>}
                             \cup {<<s[i], s[i + 1], "sibling">> : i \in 1 .. Len(s) - 1},
                   defs  |-> defs]
MCTexts == [t1 |-> Chain(<<"a", "b">>, {<<"X", "a">>}),
            t2 |-> Chain(<<"a2", "b">>, {<<"X2", "a2">>}),
            t3 |-> Chain(<<"b", "d">>, {<<"X", "d">>}),
            t4 |-> Chain(<<"b", "a2", "c">>, {}),
            t5 |-> Chain(<<"a", "b">>, {<<"X", "b">>})]

Ask(text, path, force, res) ==
    [text |-> text, path |-> path, force |-> force, res |-> res, tres |-> {}]
MCRequests == {Ask("t1", <<"f", "file">>, FALSE, {}), Ask("t1", <<>>, TRUE, {}),
               Ask("t2", <<"f", "file">>, FALSE, {}), Ask("t3", <<>>, FALSE, {}),
               Ask("t4", <<"file">>, FALSE, {<<"a", Nothing>>})}
MCSyncs == {[text |-> "t2", path |-> <<"f", "file">>]}
MCLegacy == {"t1"}
MCSymmetry == Permutations(Devices)
=============================================================================
