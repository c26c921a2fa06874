------------------------------ MODULE MCService ------------------------------
(* The parts of the API and of its service process that share no state, in   *)
(* one instance for TLC: a behaviour is a behaviour of one part.             *)
EXTENDS RateLimiter, ThreadMemory, TimedCaches, SearchAnswers, ShownProducts,
        Outfit, Sizing, Rails, SimTraffic, SearchIndex, CatalogPage, TLC

VARIABLE part

Parts == {"copilot", "write", "memory", "caches", "search", "shown", "outfit", "size",
          "rails", "traffic", "index", "page"}

\* The initial states of a part that does not run are one.
Rest ==
    /\ part # "search" => ask = CHOOSE a \in Asked : TRUE
    /\ part # "search" => limit = CHOOSE n \in Limits : TRUE
    /\ part # "size"   => item = CHOOSE i \in Items : TRUE
    /\ part # "rails"  => live = Asins
    /\ part # "traffic" => stored = [t \in TableSet |-> {}]

\* A page whose list is there.
PageAtRest ==
    /\ url = CHOOSE u \in Urls : TRUE
    /\ pending = None
    /\ searchInput = url.q
    /\ debounce = None
    /\ requests = {}
    /\ list = [of |-> url, pages |-> 0]
    /\ loading = FALSE
    /\ error = FALSE
    /\ lastLogged = url.q
    /\ pages = [d \in Departments |-> [q \in Queries |-> 0]]
    /\ acts = 0

ServiceInit ==
    /\ part \in Parts
    /\ Rest
    /\ InitLimiter /\ InitMemory /\ InitCaches /\ InitSearch
    /\ InitShown /\ InitOutfit /\ InitSize 
    /\ InitRails /\ InitTraffic /\ InitIndex
    /\ IF part = "page" THEN InitPage ELSE PageAtRest

Others(p) ==
    /\ part = p
    /\ UNCHANGED part
    /\ p \notin {"copilot", "write"} => UNCHANGED limiterVars
    /\ p # "memory"  => UNCHANGED memoryVars
    /\ p # "caches"  => UNCHANGED cachesVars
    /\ p # "search"  => UNCHANGED searchVars
    /\ p # "shown"   => UNCHANGED shownVars
    /\ p # "outfit"  => UNCHANGED outfitVars
    /\ p # "size"    => UNCHANGED sizeVars
    /\ p # "rails"   => UNCHANGED railVars
    /\ p # "traffic" => UNCHANGED trafficVars
    /\ p # "index"   => UNCHANGED indexVars
    /\ p # "page"    => UNCHANGED pageVars

ServiceNext ==
    \/ Others("copilot") /\ NextCopilotLimiter
    \/ Others("write")   /\ NextWriteLimiter
    \/ Others("memory")  /\ NextMemory
    \/ Others("caches")  /\ NextCaches
    \/ Others("search")  /\ NextSearch
    \/ Others("shown")   /\ NextShown
    \/ Others("outfit")  /\ NextOutfit
    \/ Others("size")    /\ NextSize
    \/ Others("rails")   /\ NextRails
    \/ Others("traffic") /\ NextTraffic
    \/ Others("index")   /\ NextIndex
    \/ Others("page")    /\ NextPageState

serviceVars == <<part, limiterVars, memoryVars, cachesVars, searchVars,
                 shownVars, outfitVars, sizeVars, railVars, trafficVars,
                 indexVars, pageVars>>

ServiceSpec == ServiceInit /\ [][ServiceNext]_serviceVars

\* Type invariant of the service: of the part that runs.
ServiceTypeOK ==
    /\ part \in {"copilot", "write"} => LimiterTypeOK
    /\ part = "memory"  => MemoryTypeOK
    /\ part = "caches"  => CachesTypeOK
    /\ part = "search"  => SearchTypeOK
    /\ part = "shown"   => ShownTypeOK
    /\ part = "outfit"  => OutfitTypeOK
    /\ part = "size"    => SizeTypeOK
    /\ part = "rails"   => RailsTypeOK
    /\ part = "traffic" => TrafficTypeOK
    /\ part = "index"   => IndexTypeOK
    /\ part = "page"    => PageTypeOK
-----------------------------------------------------------------------------
\* Ticks and requests of each window.
FourSecondsMinute == "minute" :> 4 @@ "day" :> 7 @@ "write" :> 4
TwoAMinute        == "minute" :> 2 @@ "day" :> 3 @@ "write" :> 2

\* Four products: the first and the third have one title, the last has none.
FourProducts == 1..4
SameTitles   == <<1, 2, 1, 0>>
CrossEncoder == <<4, 2, 3, 1>>

Ranking(n) == {r \in [1..n -> FourProducts] : \A i, j \in 1..n : r[i] = r[j] => i = j}

\* Rankings of every overlap; a copilot's search is hybrid, a lexical one embeds
\* nothing, a query that finds nothing has no translation that does.
Searches ==
    {a \in [lexical : {<<>>, <<2, 1>>, <<3, 1, 2>>, <<2, 4, 3>>},
            dense : {<<>>} \cup Ranking(2) \cup {d \in Ranking(3) : d[3] \in {1, 3}},
            filter : {{}, {1, 2, 3}}, found : {"query", "translation", "never"},
            mode : {"bm25", "dense", "hybrid"}, embedding : {"works", "fails", "off"},
            rerank : {"off", "works", "fails"}, asker : {"shop", "copilot"}] :
        /\ a.embedding # "works" => a.dense = <<>>
        /\ a.mode = "bm25" => a.embedding = "off"
        /\ a.asker = "copilot" => a.mode = "hybrid"
        /\ a.lexical = <<>> <=> a.found = "never"}

Item(d, c, h, f) == [department |-> d, category |-> c, hint |-> h, fit |-> f]

\* Every kind of chart for either gender, both shifts, bare categories that agree
\* and that do not, and children's clothes.
Wardrobe ==
    {Item("men", "shirts", "", "small"), Item("men", "shirts", "", "large"),
     Item("women", "blouses", "", "none"), Item("men", "jeans", "", "none"),
     Item("", "jeans", "", "none"), Item("girls", "jeans", "bottoms", "none"),
     Item("", "casual", "", "none"), Item("women", "casual", "", "none"),
     Item("men", "boots", "", "none"), Item("women", "boots", "", "none"),
     Item("men", "belts", "", "none"), Item("men", "hats", "", "none"),
     Item("men", "accessories", "tops", "large"), Item("men", "necklaces", "", "none"),
     Item("other", "luggage", "", "none")}

\* The first and the third of four products, by popularity, have one title; the
\* last is of another department, and of the category of the first.
FourAsins  == 1..4
ThreeNames == <<1, 2, 1, 3>>
Categories == <<{1, 4}, {2}, {3}, {1, 4}>>
OfOneHouse == <<{1, 2, 3}, {1, 2, 3}, {1, 2, 3}, {4}>>
Rankings   == <<{<<3, 2>>, <<2, 4>>}, {<<>>, <<3, 1, 4>>}, {<<4>>}, {<<>>}>>

\* One that no budget allows, and one of another department.
Piece(id, home, slot, price) == [id |-> id, home |-> home, slot |-> slot, price |-> price]
FivePieces == {Piece(1, TRUE, 1, 40), Piece(2, TRUE, 2, 40), Piece(3, TRUE, 3, 20),
               Piece(4, TRUE, 1, 90), Piece(5, FALSE, 2, 15)}
=============================================================================
