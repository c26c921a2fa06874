---------------------------- MODULE CatalogPage ----------------------------
(****************************************************************************)
(* The catalog of the shop's first page: the URL says what is shown, the    *)
(* search box writes the URL a moment after the last keystroke, and each    *)
(* change of the URL loads a list and gives up the one under way.  The      *)
(* router takes its time: a navigation is pending until the URL changes,    *)
(* and a later one takes its place.                                         *)
(****************************************************************************)
EXTENDS Naturals

CONSTANTS
    Departments,
    Queries,   \* what can be in the search box
    NoQuery,   \* the empty one
    MaxPage,
    MaxActs,   \* bound: what the shopper and the catalog do
    None       \* no navigation, no timer

ASSUME PageAssumption ==
    /\ NoQuery \in Queries /\ MaxPage \in Nat /\ MaxActs \in Nat

\* One page too many: an old link, or a catalog that shrank.
Urls == [department : Departments, page : 1..MaxPage + 1, q : Queries]

ASSUME NoneAssumption == None \notin Urls

VARIABLES
    url,
    pending,    \* the navigation under way
    searchInput,
    debounce,   \* where the timer of the search box will go
    requests,   \* lists asked for: the URL, and whether it was given up
    list,       \* products and total: the URL they are for, and its pages
    loading,
    error,
    lastLogged, \* lastLoggedQueryRef
    pages,      \* the pages there are, in the database
    acts

pageVars == <<url, pending, searchInput, debounce, requests, list, loading,
              error, lastLogged, pages, acts>>

Asking(u) == [of |-> u, cancelled |-> FALSE]

InitPage ==
    /\ url \in Urls
    /\ pending = None
    /\ searchInput = url.q
    /\ debounce = None
    /\ requests = {Asking(url)}
    /\ list = [of |-> None, pages |-> 0]
    /\ loading = TRUE
    /\ error = FALSE
    /\ lastLogged = NoQuery
    /\ pages \in [Departments -> [Queries -> 0..MaxPage]]
    /\ acts = 0

-----------------------------------------------------------------------------
(* Effects.                                                                  *)

\* The timer's effect, with the department, the query and the text it sees.
Debounced(u, text) ==
    IF text = u.q THEN None ELSE [department |-> u.department, page |-> 1, q |-> text]

\* The effect that loads: what was under way is given up.
Load(u) ==
    /\ requests' = {[r EXCEPT !.cancelled = TRUE] : r \in requests} \cup {Asking(u)}
    /\ loading' = TRUE
    /\ error' = FALSE

\* The router sets the URL.  A new query is put into the search box, over what
\* was typed since.
Navigate ==
    LET text == IF pending.q # url.q THEN pending.q ELSE searchInput
    IN  /\ pending # None
        /\ url' = pending
        /\ pending' = None
        /\ searchInput' = text
        /\ debounce' = IF pending.q # url.q \/ pending.department # url.department
                       THEN Debounced(pending, text) ELSE debounce
        /\ IF pending # url THEN Load(pending) ELSE UNCHANGED <<requests, loading, error>>
        /\ UNCHANGED <<list, lastLogged, pages, acts>>

DebounceEnds ==
    /\ debounce # None
    /\ pending' = debounce
    /\ debounce' = None
    /\ UNCHANGED <<url, searchInput, requests, list, loading, error, lastLogged,
                   pages, acts>>

-----------------------------------------------------------------------------
(* Answers.                                                                  *)

Forget(r) == requests' = requests \ {r}

LastPage(u) == pages[u.department][u.q]

\* Mutant: the redirect misses the last page by one.
RedirectPast(u) ==
    IF LastPage(u) > 0 /\ u.page > LastPage(u)
    THEN [u EXCEPT !.page = LastPage(u) + 1] ELSE pending

Redirect(u) ==
    IF LastPage(u) > 0 /\ u.page > LastPage(u)
    THEN [u EXCEPT !.page = LastPage(u)] ELSE pending

Superfluous(r) ==
    /\ r.cancelled
    /\ Forget(r)
    /\ UNCHANGED <<list, loading, error, lastLogged, pending>>

\* Mutant: a list that was given up is shown as well.
ListArrivesAnyway(r) ==
    /\ Forget(r)
    /\ list' = [of |-> r.of, pages |-> LastPage(r.of)]
    /\ loading' = FALSE
    /\ lastLogged' = IF r.of.q # NoQuery THEN r.of.q ELSE lastLogged
    /\ pending' = Redirect(r.of)
    /\ UNCHANGED error

ListArrives(r) ==
    /\ ~r.cancelled
    /\ Forget(r)
    /\ list' = [of |-> r.of, pages |-> LastPage(r.of)]
    /\ loading' = FALSE
    /\ lastLogged' = IF r.of.q # NoQuery THEN r.of.q ELSE lastLogged
    /\ pending' = Redirect(r.of)
    /\ UNCHANGED error

ListFails(r) ==
    /\ ~r.cancelled
    /\ Forget(r)
    /\ error' = TRUE
    /\ loading' = FALSE
    /\ UNCHANGED <<list, lastLogged, pending>>

RequestEnds(r) ==
    /\ r \in requests
    /\ Superfluous(r) \/ ListArrives(r) \/ ListFails(r)
    /\ UNCHANGED <<url, searchInput, debounce, pages, acts>>

-----------------------------------------------------------------------------
(* The shopper.                                                              *)

Act == acts < MaxActs /\ acts' = acts + 1

Type(text) ==
    /\ Act
    /\ text # searchInput
    /\ searchInput' = text
    /\ debounce' = Debounced(url, text)
    /\ UNCHANGED <<url, pending, requests, list, loading, error, lastLogged, pages>>

clearQuery ==
    /\ Act
    /\ searchInput # NoQuery
    /\ searchInput' = NoQuery
    /\ debounce' = Debounced(url, NoQuery)
    /\ pending' = [url EXCEPT !.page = 1, !.q = NoQuery]
    /\ UNCHANGED <<url, requests, list, loading, error, lastLogged, pages>>

\* A department, the next or the previous page, or the browser's buttons.
selectDepartment(d) == pending' = [url EXCEPT !.department = d, !.page = 1]

goToPage(p) ==
    /\ ~loading /\ ~error
    /\ p \in {url.page - 1, url.page + 1} \cap 1..list.pages
    /\ pending' = [url EXCEPT !.page = p]

BackOrForward(u) == u # url /\ pending' = u

Go ==
    /\ Act
    /\ \/ \E d \in Departments : selectDepartment(d)
       \/ \E p \in 1..MaxPage : goToPage(p)
       \/ \E u \in Urls : BackOrForward(u)
    /\ UNCHANGED <<url, searchInput, debounce, requests, list, loading, error,
                   lastLogged, pages>>

\* Products come and go.
CatalogChanges ==
    /\ Act
    /\ \E d \in Departments, q \in Queries, n \in 0..MaxPage :
          pages' = [pages EXCEPT ![d][q] = n]
    /\ UNCHANGED <<url, pending, searchInput, debounce, requests, list, loading,
                   error, lastLogged>>

NextPageState ==
    \/ Navigate \/ DebounceEnds
    \/ \E r \in requests : RequestEnds(r)
    \/ \E text \in Queries : Type(text)
    \/ clearQuery
    \/ Go
    \/ CatalogChanges

SpecPage == InitPage /\ [][NextPageState]_pageVars
-----------------------------------------------------------------------------
(* Properties.                                                               *)

\* Type invariant.
PageTypeOK ==
    /\ url \in Urls /\ pending \in Urls \cup {None} /\ debounce \in Urls \cup {None}
    /\ searchInput \in Queries /\ lastLogged \in Queries
    /\ requests \subseteq [of : Urls, cancelled : BOOLEAN]
    /\ list \in [of : Urls \cup {None}, pages : 0..MaxPage]
    /\ loading \in BOOLEAN /\ error \in BOOLEAN
    /\ pages \in [Departments -> [Queries -> 0..MaxPage]]
    /\ acts \in 0..MaxActs

\* Whatever the order in which lists arrive, the products on the page are those
\* the URL says, and its query is the one that was last counted as a search.
ShownIsAsked ==
    ~loading /\ ~error =>
        /\ list.of = url
        /\ url.q # NoQuery => lastLogged = url.q

\* Once the shopper and the catalog rest, the page comes to rest as well: unless
\* the list failed it is there, at a page that exists, and no redirect, timer or
\* answer of an older URL goes on for ever or has the last word.
PageSettles ==
    <>[] /\ pending = None /\ debounce = None /\ ~loading
         /\ ~error => /\ list.of = url
                      /\ list.pages > 0 => url.page <= list.pages
=============================================================================
