----------------------------- MODULE MCP4Tables -----------------------------
EXTENDS P4Tables, TLC

MCRoutes == { <<>>, <<0>>, <<0, 1>>, <<0, 1, 1>>, <<1, 0>>, <<1, 0, 1>>, <<1, 0, 0>> }
MCAddresses == [1 .. 3 -> Bit]

\* Four-bit keys of which an entry keeps the lowest three, three digits of a
\* hash.  A and B part at the last digit and from C at the second; D and E have
\* the same hash; F has a bit above the lowest three and the hash of C.
A == <<0, 0, 0, 0>>
B == <<0, 0, 0, 1>>
C == <<0, 0, 1, 0>>
D == <<0, 0, 1, 1>>
E == <<0, 1, 0, 0>>
F == <<1, 0, 1, 0>>
MCKeys == {A, B, C, D, E, F}
MCHash == (A :> <<0, 0, 0>>) @@ (B :> <<0, 0, 1>>) @@ (C :> <<0, 1, 0>>)
            @@ (D :> <<0, 1, 1>>) @@ (E :> <<0, 1, 1>>) @@ (F :> <<0, 1, 0>>)
MCRehash == [h \in [1 .. 3 -> {0, 1}] |-> [i \in 1 .. 3 |-> 1 - h[i]]]
==============================================================================
