---------------------------- MODULE SearchAnswers ----------------------------
(****************************************************************************)
(* What a search answers: the lexical and the dense ranking of the catalog, *)
(* fused, cleared of products with the same title, reranked and cut into    *)
(* pages for the shop, or into a handful of candidates for the copilot; and *)
(* the second try with a translated query when there is nothing to answer.  *)
(*                                                                          *)
(* The rankings themselves are data.  A product that was deleted since the  *)
(* index was built is ranked and cannot be shown.                           *)
(****************************************************************************)
EXTENDS Lists

CONSTANTS
    Products,    \* product ids, numbers
    Titles,      \* the title the index has for each product, 0 if none
    CrossOrder,  \* the products in the order of the cross-encoder
    RRF,         \* the constant k of the fusion
    Whole,       \* the common denominator of the scores
    Top,         \* how much of each ranking is fused
    Window,      \* how much of the shop's answer is reranked at least
    Handful,     \* how much of the fused list the copilot looks at
    Limits,      \* page sizes
    Asked        \* the searches: rankings, language, mode, filter

\* A ranking has no product twice.
ASSUME SearchAssumption ==
    /\ Products \subseteq Nat /\ Titles \in [Products -> Nat]
    /\ CrossOrder \in Seq(Products) /\ Distinct(CrossOrder) /\ ToSet(CrossOrder) = Products
    /\ RRF \in Nat /\ Whole \in Nat /\ Top \in Nat /\ Window \in Nat /\ Handful \in Nat
    /\ \A rank \in 1..Top : Whole % (RRF + rank) = 0
    /\ Limits \subseteq Nat \ {0}
    /\ \A a \in Asked :
          /\ \A list \in {a.lexical, a.dense} : list \in Seq(Products) /\ Distinct(list)
          /\ a.mode \in {"bm25", "dense", "hybrid"} /\ a.asker \in {"shop", "copilot"}

VARIABLES
    ask,     \* the search
    limit,   \* the page size
    offset,  \* where the next page starts
    shown,   \* the products of the pages so far
    gone     \* products deleted from the database

searchVars == <<ask, limit, offset, shown, gone>>

InitSearch ==
    /\ ask \in Asked
    /\ limit \in Limits
    /\ offset = 0
    /\ shown = <<>>
    /\ gone = {}

-----------------------------------------------------------------------------
(* Operators on rankings.                                                    *)

Rank(list, p) == CHOOSE i \in DOMAIN list : list[i] = p

\* 1 / (k + rank), in parts of the common denominator.
Share(list, p) == IF p \in ToSet(list) THEN Whole \div (RRF + Rank(list, p)) ELSE 0

\* Best first; equal ones by id.
ReciprocalRankFusion(words, vectors) ==
    LET all   == ToSet(words) \cup ToSet(vectors)
        score == [p \in all |-> Share(words, p) + Share(vectors, p)]
    IN  Ordered(all, {pair \in all \X all :
                         \/ score[pair[1]] > score[pair[2]]
                         \/ score[pair[1]] = score[pair[2]] /\ pair[1] < pair[2]})

\* Mutant: titles repeat.
DedupeNone(list) == list

\* The best of each title.
Dedupe(list) ==
    At(list, {i \in DOMAIN list :
                 Titles[list[i]] # 0 =>
                     \A j \in 1..i - 1 : Titles[list[j]] # Titles[list[i]]})

\* A cross-encoder that is off or fails leaves the order.
Reordered(list) ==
    IF ask.rerank = "works" THEN Only(CrossOrder, ToSet(list)) ELSE list

Left(list) == Only(list, Products \ gone)

\* The front of the list in the cross-encoder's order, without what is gone.
Rerank(list, n) ==
    IF Left(First(n, list)) = <<>> THEN list
    ELSE Reordered(Left(First(n, list))) \o SubSeq(list, Len(First(n, list)) + 1, Len(list))

-----------------------------------------------------------------------------
(* The rankings of a query.  A query in Indonesian may find nothing as it is *)
(* and something when its known words are translated.                        *)

\* The index still has what is gone; a filter asks the database.
Lexical(text) ==
    IF text = ask.found
    THEN Only(ask.lexical, IF ask.filter = {} THEN Products ELSE ask.filter \ gone)
    ELSE <<>>

DenseAvailable == ask.embedding # "off"

\* The database ranks; an embedding that fails ranks nothing.
Dense(text) ==
    IF ask.embedding = "works"
    THEN First(Top, Only(ask.dense, (IF ask.filter = {} THEN Products ELSE ask.filter) \ gone))
    ELSE <<>>

\* Mutant: a ranking is cut for the fusion though there is nothing to fuse.
FusedAlways(text) == ReciprocalRankFusion(First(Top, Lexical(text)), Dense(text))

Fused(text) ==
    IF Lexical(text) # <<>> /\ Dense(text) # <<>>
    THEN ReciprocalRankFusion(First(Top, Lexical(text)), Dense(text))
    ELSE Lexical(text) \o Dense(text)

\* _run_query of search_products, before the cross-encoder...
Deduped(text) ==
    Dedupe(CASE ask.mode = "bm25"   -> Lexical(text)
             [] ask.mode = "dense"  -> IF DenseAvailable THEN Dense(text) ELSE Lexical(text)
             [] ask.mode = "hybrid" -> Fused(text))

\* ...and with it, for the page at an offset.
Ranked(text, from) ==
    IF ask.rerank = "off" THEN Deduped(text)
    ELSE Rerank(Deduped(text), IF limit + from > Window THEN limit + from ELSE Window)

\* _search_catalog_once: the copilot's candidates, best first.
CatalogOnce(text) == First(limit, Reordered(Left(First(Handful, Fused(text)))))

\* The query, or its translation when this is what the query found.
TextFor(hits) ==
    IF hits = <<>> /\ ask.found = "translation" THEN "translation" ELSE "query"

-----------------------------------------------------------------------------
Found(from) == Ranked(TextFor(Ranked("query", from)), from)
Text        == TextFor(Ranked("query", 0))

\* The shopper turns the page, while there is another.
NextPage ==
    LET list == Found(offset)
    IN  /\ ask.asker = "shop"
        /\ offset = 0 \/ offset < Len(list)
        /\ shown' = shown \o Left(SubSeq(list, offset + 1, Len(First(offset + limit, list))))
        /\ offset' = offset + limit
        /\ UNCHANGED <<ask, limit, gone>>

SearchCatalog ==
    /\ ask.asker = "copilot"
    /\ offset = 0
    /\ shown' = CatalogOnce(TextFor(CatalogOnce("query")))
    /\ offset' = limit
    /\ UNCHANGED <<ask, limit, gone>>

\* The catalog is seeded anew, the index still the old one.
DeleteProduct ==
    /\ gone = {}
    /\ \E p \in Products : gone' = {p}
    /\ UNCHANGED <<ask, limit, offset, shown>>

NextSearch == NextPage \/ SearchCatalog \/ DeleteProduct

SpecSearch == InitSearch /\ [][NextSearch]_searchVars
-----------------------------------------------------------------------------
(* Properties.                                                               *)

\* Type invariant.
SearchTypeOK ==
    /\ ask \in Asked /\ limit \in Limits /\ offset \in Nat
    /\ shown \in Seq(Products) /\ gone \subseteq Products

\* The pages are pages of one list: nothing the database ranks is gone, and the
\* reranked front is the same for every page.
OneList ==
    /\ gone # {} => ask.mode = "bm25" /\ ask.rerank = "off" /\ ask.filter = {}
    /\ ask.rerank = "works" => offset <= Window

SameTitle(p, q) == p = q \/ (Titles[p] # 0 /\ Titles[p] = Titles[q])

\* However the two rankings overlap and however titles repeat in them, a shopper
\* who turns the pages sees no title twice; nor the copilot a product.
EachOnce ==
    OneList => \A i, j \in DOMAIN shown : i < j =>
        /\ shown[i] # shown[j]
        /\ ask.asker = "shop" => ~SameTitle(shown[i], shown[j])

\* What a search finds by words is shown by the last page, the product itself or
\* one of its title (one that is gone hides the others of its title): an
\* embedding that fails loses none of it, nor does the fusion of what it fuses,
\* nor the cross-encoder.
NothingSkipped ==
    LET words == Lexical(Text)
        seen  == IF ask.mode = "hybrid" /\ Dense(Text) # <<>>
                 THEN First(Top, words) ELSE words
    IN  /\ ask.asker = "shop" /\ ask.mode # "dense" /\ OneList
        /\ offset > 0 /\ offset >= Len(Found(offset))
        => \A p \in ToSet(seen) : \E q \in ToSet(shown) \cup gone : SameTitle(p, q)

\* The pages of a search are pages of one list: each finds its place, none twice.
PagesFit == EachOnce /\ NothingSkipped
=============================================================================
