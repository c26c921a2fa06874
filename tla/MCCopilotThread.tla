--------------------------- MODULE MCCopilotThread ---------------------------
(* Instances of CopilotThread for TLC. *)
EXTENDS CopilotThread, TLC

CONSTANTS dress, scarf, look, flag, r1, r2, r3, r4

Call1(p, q) == [what |-> p, qty |-> q]

\* A search, a card beside a flagged question, and a card for two.
AnyBatch ==
    {<<Call1(look, 1)>>, <<Call1(flag, 1), Call1(dress, 1)>>,
     <<Call1(dress, 2), Call1(scarf, 0)>>}

\* One card, with or without another tool beside it.
OneCard == {<<Call1(dress, 1)>>, <<Call1(look, 1), Call1(dress, 1)>>}

\* A search, or a card for two calls.
SearchOrCard == {<<Call1(look, 1)>>, <<Call1(dress, 2), Call1(dress, 1)>>}

\* A card for two calls that exceed the cap of its row, and a card for one call
\* beside another tool.
Cards == {<<Call1(dress, 2), Call1(dress, 2)>>, <<Call1(look, 1), Call1(dress, 1)>>}

Shop == {dress, scarf}
OneProduct == {dress}
FourRequests  == {r1, r2, r3, r4}
ThreeRequests == {r1, r2, r3}

Symmetry == Permutations(Requests) \cup Permutations(Tabs)
=============================================================================
