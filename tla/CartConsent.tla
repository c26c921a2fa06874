----------------------------- MODULE CartConsent -----------------------------
(****************************************************************************)
(* What the copilot promises about the cart, without threads, requests or   *)
(* tabs: an item is put on a card, the shopper agrees to what a card shows, *)
(* the server adds what was agreed, and the cart gets what was added.       *)
(****************************************************************************)
CONSTANT Items

VARIABLES offered, agreed, ran, cart

vars == <<offered, agreed, ran, cart>>

TypeOK ==
    /\ offered \subseteq Items
    /\ agreed  \subseteq offered
    /\ ran     \subseteq agreed
    /\ cart    \subseteq ran

Init == offered = {} /\ agreed = {} /\ ran = {} /\ cart = {}

\* The shopper says yes to a card, that is to some of what was offered.
Agree ==
    /\ agreed \subseteq agreed'
    /\ agreed' \subseteq offered
    /\ UNCHANGED <<offered, ran, cart>>

\* The server adds items that were agreed.
Add ==
    /\ ran \subseteq ran'
    /\ ran' \subseteq agreed
    /\ UNCHANGED <<offered, agreed, cart>>

\* A response brings adds that ran and possibly another card.
Receive ==
    /\ cart \subseteq cart' /\ cart' \subseteq ran
    /\ offered \subseteq offered' /\ offered' \subseteq Items
    /\ UNCHANGED <<agreed, ran>>

Next == Agree \/ Add \/ Receive

Spec == Init /\ [][Next]_vars
=============================================================================
