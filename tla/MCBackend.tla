----------------------------- MODULE MCBackend -----------------------------
(* A small instance of the backend.                                        *)
EXTENDS Backend

\* Two memories about one thing, one trusted and one near the threshold.
MCRows0 == [m \in 1..2 |-> [state |-> "active", score |-> <<12, 3>>[m],
                            topic |-> "a", wide |-> FALSE, rate |-> FALSE]]

\* A file of code that loses its declaration and a line.
MCText  == [p \in {"a.go"} |-> <<[lines |-> 3, code |-> TRUE, marks |-> {1}],
                                 [lines |-> 2, code |-> TRUE, marks |-> {}]>>]
MCOneText == [p \in {"a.go"} |-> <<[lines |-> 3, code |-> TRUE, marks |-> {1}]>>]
MCOrder == <<"a.go">>

\* How the chunker cuts, for every file of up to nine lines.
ASSUME \A n \in 0..9 : \A m \in SUBSET (0..(n - 1)), code \in BOOLEAN :
           Covers([lines |-> n, code |-> code, marks |-> m])

MCMinTrust  == [t \in Tier |-> IF t = "L0" THEN 1 ELSE 2]
MCTierLimit == [t \in Tier |-> IF t = "L0" THEN 1 ELSE 2]
MCTTL       == [t \in Tier |-> IF t = "L0" THEN 1 ELSE 2]
MCBackoff   == <<1>>

\* The tags a front matter may have, and what the scope file may say of them.
MCModifier == [sign: {"+", "-"}, tag: {"a", "b"}]
MCTagLists == {<<>>} \cup {<<m>> : m \in MCModifier} \cup {<<m, n>> : m, n \in MCModifier}
MCScopes ==
    {[version |-> 0, roles |-> <<>>, void |-> {}],
     [version |-> 1, roles |-> <<>>, void |-> {"coder"}]} \cup
    [version: {1},
     roles: {<<>>, [w \in {"writer"} |-> {"b"}]} \cup
            [{"coder"} -> {{}, {"a"}, {"a", "b"}}],
     void: {{}}]
MCLocal == {<<[name |-> "x", tags |-> ts]>> : ts \in MCTagLists}
MCExternal ==
    {<<>>} \cup
    {<<[name |-> n, tags |-> ts], [name |-> "x", tags |-> <<>>]>> :
        n \in {"x", "y"}, ts \in {<<>>, <<[sign |-> "-", tag |-> "a"]>>}}

\* One server of the catalog, which may run in two ways and is for coders, and one not.
MCMenu        == [n \in {"web"} |-> <<"http", "stdio">>]
MCServerRoles == [n \in {"web"} |-> {"coder"}]
=============================================================================
