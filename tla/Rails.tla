-------------------------------- MODULE Rails --------------------------------
(****************************************************************************)
(* The rails of recommended products: lists computed offline and upserted   *)
(* by product, read by a request in several statements, each of which sees  *)
(* the catalog as it is by then, and filled up with popular products.       *)
(****************************************************************************)
EXTENDS Lists, FiniteSetsExt

CONSTANTS
    Asins,       \* products, numbers in the order of their popularity
    TitleOf,     \* a number for each title
    Category,    \* the products of its category, of each product
    Department,  \* and those of its department
    Candidates,  \* bound: rankings by co-occurrence, of each product
    MAX_RECS,    \* MAX_RECS_PER_ITEM
    Enough,      \* below it a list is filled up offline
    RailLimit,
    MaxViewed,   \* the newest products viewed that count: 5
    MaxChanges   \* bound: products that come or go

ASSUME RailsAssumption ==
    /\ Asins \subseteq Nat /\ IsFiniteSet(Asins) /\ TitleOf \in [Asins -> Nat]
    /\ Category \in [Asins -> SUBSET Asins] /\ Department \in [Asins -> SUBSET Asins]
    /\ \A a \in Asins : Candidates[a] \subseteq Seq(Asins)
    /\ MAX_RECS \in Nat \ {0} /\ Enough \in Nat /\ RailLimit \in Nat \ {0}
    /\ MaxViewed \in Nat /\ MaxChanges \in Nat

VARIABLES
    live,      \* the products in the database
    recs,      \* item_recommendations
    rail,      \* the request: [pc, kind, of, cands, found, items]
    changes,   \* products that came or went
    steady     \* history: none has since the request began

railVars == <<live, recs, rail, changes, steady>>

NoRail == [pc |-> "none", kind |-> "item", of |-> <<>>, cands |-> <<>>,
           found |-> {}, items |-> <<>>]

InitRails ==
    /\ live \in {Asins, Asins \ {1}}
    /\ recs = [a \in Asins |-> <<>>]
    /\ rail = NoRail
    /\ changes = 0
    /\ steady = TRUE

-----------------------------------------------------------------------------
(* build_recs.                                                               *)

ByPopularity(products) == Ascending(products)

\* The most popular product of each title.
BestOfTitle(products) ==
    {b \in products : \A c \in products : TitleOf[c] = TitleOf[b] => b <= c}

\* What may fill a list up: those of the category that are the best of their title
\* in the shop, then the best of each title of the department.
Fallbacks(a) ==
    ByPopularity(Category[a] \cap BestOfTitle(Asins)) \o ByPopularity(BestOfTitle(Department[a]))

\* Extends a list by those of another with a new title, up to a length.
FreshTitles(a, list, more, n) ==
    LET titles == {TitleOf[b] : b \in {a} \cup ToSet(list)}
        fresh  == {i \in DOMAIN more :
                      /\ TitleOf[more[i]] \notin titles
                      /\ \A j \in 1..i - 1 : TitleOf[more[j]] # TitleOf[more[i]]}
    IN  First(n, list \o At(more, fresh))

\* The best candidates; a short list is filled up.
BestCandidates(a, ranked) ==
    LET best == FreshTitles(a, <<>>, ranked, MAX_RECS)
    IN  IF Len(best) >= Enough THEN best
        ELSE FreshTitles(a, best, Fallbacks(a), Enough)

\* The rows of products that are gone stay.
BuildRecs(a, ranked) ==
    /\ rail.pc = "none"
    /\ recs[a] = <<>>
    /\ recs' = [recs EXCEPT ![a] = BestCandidates(a, At(ranked, {i \in DOMAIN ranked : ranked[i] # a}))]
    /\ UNCHANGED <<live, rail, changes, steady>>

\* seed and cleanup_catalog.
CatalogMoves(a) ==
    /\ changes < MaxChanges
    /\ changes' = changes + 1
    /\ live' = IF a \in live THEN live \ {a} ELSE live \cup {a}
    /\ steady' = (rail.pc = "none")
    /\ UNCHANGED <<recs, rail>>

-----------------------------------------------------------------------------
(* recs_item and recs_session, a statement at a time.                        *)

RailStep(to) ==
    /\ rail' = to
    /\ UNCHANGED <<live, recs, changes, steady>>

ItemRail(a) ==
    /\ rail.pc = "none"
    /\ rail' = [NoRail EXCEPT !.pc = "targets", !.of = <<a>>,
                              !.cands = First(RailLimit, recs[a])]
    /\ steady' = TRUE
    /\ UNCHANGED <<live, recs, changes>>

\* The newest five products viewed or added, newest first.
SessionRail(viewed) ==
    /\ rail.pc = "none"
    /\ rail' = [NoRail EXCEPT !.kind = "session", !.of = viewed,
                    !.pc = IF viewed = <<>> THEN "cold" ELSE "merges"]
    /\ steady' = TRUE
    /\ UNCHANGED <<live, recs, changes>>

ColdRail ==
    /\ rail.pc = "cold"
    /\ RailStep([rail EXCEPT !.pc = "done", !.items = First(RailLimit, ByPopularity(live))])

Together(viewed) == FlattenSeq([i \in DOMAIN viewed |-> recs[viewed[i]]])

\* Mutant: what the shopper has just seen is not left out.
MergedWithViewed(viewed) ==
    LET all   == Together(viewed)
        fresh == {i \in DOMAIN all : \A j \in 1..i - 1 : all[j] # all[i]}
    IN  First(3 * RailLimit, At(all, fresh))

\* The lists of what was viewed, without what was, each product once.
Merged(viewed) ==
    LET all   == Together(viewed)
        fresh == {i \in DOMAIN all : /\ all[i] \notin ToSet(viewed)
                                     /\ \A j \in 1..i - 1 : all[j] # all[i]}
    IN  First(3 * RailLimit, At(all, fresh))

MergeLists ==
    /\ rail.pc = "merges"
    /\ RailStep([rail EXCEPT !.pc = "targets", !.cands = Merged(rail.of)])

\* What is left of the candidates, in their order.
FetchTargets ==
    LET found == ToSet(rail.cands) \cap live
        items == First(RailLimit,
                       Only(rail.cands, found))
    IN  /\ rail.pc = "targets"
        /\ RailStep([rail EXCEPT !.found = found, !.items = items,
              !.pc = IF Len(items) >= RailLimit THEN "done"
                     ELSE IF rail.kind = "item" THEN "popular" ELSE "backfill"])

\* What shares the category or the department with a product.
Shelf(a) == Category[a] \cup Department[a]

\* As many of the shelf as the rail has room, and those it shows already.  The
\* shelf of a product that is gone is a guess: the men's.
FillItemRail ==
    LET shelf == First(RailLimit, ByPopularity((Shelf(rail.of[1]) \cap live) \ {rail.of[1]}))
        fresh == At(shelf, {i \in DOMAIN shelf : shelf[i] \notin ToSet(rail.items)})
    IN  /\ rail.pc = "popular"
        /\ RailStep([rail EXCEPT !.pc = "done", !.items = First(RailLimit, @ \o fresh)])

\* As many as the rail lacks, of the products that are no candidates.
Excluded == ToSet(rail.of) \cup ToSet(rail.cands)

ChooseBackfill ==
    /\ rail.pc = "backfill"
    /\ LET missing == RailLimit - Len(rail.items)
       IN  RailStep([rail EXCEPT !.pc = "fetch",
                      !.cands = @ \o First(missing, ByPopularity(live \ Excluded))])

\* In the order the database gives them; candidates that were gone may be back.
FetchBackfill ==
    LET back == (ToSet(rail.cands) \ rail.found) \cap live IN
    /\ rail.pc = "fetch"
    /\ \E rows \in Injection(1..Cardinality(back), back) :
          RailStep([rail EXCEPT !.pc = "done", !.items = First(RailLimit, @ \o rows)])

AnswerRail ==
    /\ rail.pc = "done"
    /\ RailStep(NoRail)

NextRails ==
    \/ \E a \in Asins : \/ \E ranked \in Candidates[a] : BuildRecs(a, ranked)
                        \/ CatalogMoves(a)
                        \/ ItemRail(a)
    \/ \E n \in 0..MaxViewed : \E viewed \in [1..n -> Asins] : SessionRail(viewed)
    \/ ColdRail \/ MergeLists \/ FetchTargets \/ FillItemRail
    \/ ChooseBackfill \/ FetchBackfill \/ AnswerRail

SpecRails == InitRails /\ [][NextRails]_railVars
-----------------------------------------------------------------------------
(* Properties.                                                               *)

\* Type invariant.
RailsTypeOK ==
    /\ live \subseteq Asins /\ recs \in [Asins -> Seq(Asins)]
    /\ rail.of \in Seq(Asins) /\ rail.cands \in Seq(Asins) /\ rail.items \in Seq(Asins)
    /\ changes \in 0..MaxChanges /\ steady \in BOOLEAN

\* What a rail may be filled with.
Supply ==
    IF rail.kind = "item" THEN (Shelf(rail.of[1]) \cap live) \ {rail.of[1]}
                          ELSE live \ ToSet(rail.of)

\* However the lists overlap, are short or name products that are gone, a rail
\* shows no product twice, none the shopper is at or just was, and is full if the
\* shop has enough; also of products that came or went while it was put together
\* it shows none twice.
RailIsSound ==
    rail.pc = "done" =>
        /\ \A i, j \in DOMAIN rail.items : i < j => rail.items[i] # rail.items[j]
        /\ ToSet(rail.items) \cap ToSet(rail.of) = {}
        /\ Len(rail.items) <= RailLimit
        /\ steady => /\ ToSet(rail.items) \subseteq live
                     /\ Len(rail.items) >= Min({RailLimit, Cardinality(Supply)})
=============================================================================
