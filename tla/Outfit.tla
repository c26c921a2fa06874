-------------------------------- MODULE Outfit --------------------------------
(****************************************************************************)
(* build_outfit: a top, a bottom and shoes whose prices together keep       *)
(* within the shopper's budget.  The model may ask for several outfits at   *)
(* the same time; the turn shows the one recorded last.                     *)
(****************************************************************************)
EXTENDS Integers, Sequences, FiniteSets, FiniteSetsExt

CONSTANTS
    Builds,     \* bound: calls of the tool in a turn
    Budgets,    \* bound: what the model passes
    Prices,     \* bound: of products, 0 for one without a price
    NoPick

ASSUME OutfitAssumption == Budgets \subseteq Int /\ Prices \subseteq Nat /\ NoPick \notin Nat

Slots == <<"top", "bottom", "shoes">>

VARIABLES
    build,    \* [pc: the slots done, budget, total, chosen]
    outfit    \* ctx.outfit

outfitVars == <<build, outfit>>

NoOutfit == [total |-> 0, budget |-> 0, slots |-> [s \in 1..3 |-> NoPick]]

InitOutfit ==
    /\ build = [b \in Builds |-> [pc |-> 0, budget |-> 0, total |-> 0,
                                  chosen |-> [s \in 1..3 |-> NoPick]]]
    /\ outfit = NoOutfit

\* What a slot may cost at most; the search reads a cap of 0 or less as none.
Cap(b) ==
    LET third == b.budget \div 3
    IN  Min({2 * Max({1, third}), b.budget - b.total})

Hits(b) == {p \in Prices : Cap(b) > 0 => p <= Cap(b)}

Fits(b, p) == b.total + p <= b.budget

\* Mutant: one piece is an outfit.
WithinBudgetOnly(b) == b.total <= b.budget

Within(b) == b.total <= b.budget /\ Cardinality({s \in 1..3 : b.chosen[s] # NoPick}) >= 2

CallBuild(c) ==
    /\ build[c].pc = 0
    /\ \E v \in Budgets : build' = [build EXCEPT ![c].pc = 1, ![c].budget = v]
    /\ UNCHANGED outfit

\* The first of at most four hits that still fits is taken: one that does, or
\* none when none of the hits does.
FillSlot(c) ==
    LET b == build[c] IN
    /\ b.pc \in 1..Len(Slots)
    /\ \/ \E p \in Hits(b) :
             /\ Fits(b, p)
             /\ build' = [build EXCEPT ![c] = [b EXCEPT !.pc = @ + 1, !.total = @ + p,
                                                        !.chosen[b.pc] = p]]
       \/ build' = [build EXCEPT ![c].pc = @ + 1]
    /\ UNCHANGED outfit

FinishOutfit(c) ==
    LET b == build[c] IN
    /\ b.pc = Len(Slots) + 1
    /\ build' = [build EXCEPT ![c].pc = Len(Slots) + 2]
    /\ outfit' = IF Within(b)
                 THEN [total |-> b.total, budget |-> b.budget, slots |-> b.chosen]
                 ELSE outfit

NextOutfit == \E c \in Builds : CallBuild(c) \/ FillSlot(c) \/ FinishOutfit(c)

SpecOutfit == InitOutfit /\ [][NextOutfit]_outfitVars
-----------------------------------------------------------------------------
(* Properties.                                                               *)

\* Type invariant.
OutfitTypeOK ==
    LET Chosen == [1..3 -> Prices \cup {NoPick}] IN
    /\ build \in [Builds -> [pc : 0..5, budget : Int, total : Nat, chosen : Chosen]]
    /\ outfit \in [total : Nat, budget : Int, slots : Chosen]

PriceOf(p) == IF p = NoPick THEN 0 ELSE p

\* The outfit a turn shows costs what its pieces cost together, keeps within the
\* budget it was asked for, and has at least two pieces: also for a budget that is
\* too small for any cap, and when several outfits are built at the same time.
OutfitWithinBudget ==
    outfit # NoOutfit =>
        /\ outfit.total = PriceOf(outfit.slots[1]) + PriceOf(outfit.slots[2])
                          + PriceOf(outfit.slots[3])
        /\ outfit.total <= outfit.budget
        /\ Cardinality({s \in 1..3 : outfit.slots[s] # NoPick}) >= 2
=============================================================================
