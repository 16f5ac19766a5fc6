------------------------------- MODULE MCCodec -------------------------------
(* Codec with the Parts of up to three fields and two levels, for TLC. *)
EXTENDS BrowserView

Lf(t, n)     == [type |-> t, name |-> n]
Rec(n, fs)   == [type |-> "Record", name |-> n, fields |-> fs]
MCStrings    == {<<>>, <<72, 105>>}
MCEntered    == {-1, 200, 60000}
MCByteValues == {0, 200}

Singles == {Lf(t, n) : t \in {"String", "Boolean", "Uint8", "Int8", "Uint16", "Int16"},
                         n \in {<<>>, <<97>>}} \cup {Lf("Float", <<97>>)}
Fields  == {Lf("String", <<98>>), Lf("Int8", <<>>), Rec(<<99>>, <<>>)}
Flat    == {Rec(<<100>>, <<f, g>>) : f, g \in Fields}
Deep    == {Rec(<<>>, <<Lf("Uint8", <<97>>), r, Lf("String", <<>>)>>) : r \in Flat}
MCParts == <<Singles \cup Fields, Flat, Deep>>
=============================================================================
