------------------------------- MODULE MCWaits -------------------------------
(* The parts in which somebody waits, in one instance for TLC: a behaviour is *)
(* a behaviour of one part, under the fairness of that part.                  *)
EXTENDS AdminSessions, ServerWakeup, CatalogPage, SearchIndex, ThreadMemory, TLC

CONSTANTS desk, tab1

VARIABLE part

Parts == {"sessions", "wakeup", "page", "index", "memory"}

\* A page whose list is there.
PageAtRest ==
    /\ url = CHOOSE u \in Urls : TRUE
    /\ pending = None
    /\ searchInput = url.q
    /\ debounce = None
    /\ requests = {}
    /\ list = [of |-> url, pages |-> 0]
    /\ loading = FALSE
    /\ error = FALSE
    /\ lastLogged = url.q
    /\ pages = [d \in Departments |-> [q \in Queries |-> 0]]
    /\ acts = 0

WaitsInit ==
    /\ part \in Parts
    /\ Init /\ InitWakeup /\ InitIndex /\ InitMemory
    /\ part # "wakeup" => api = "none"
    /\ IF part = "page" THEN InitPage ELSE PageAtRest

Others(p) ==
    /\ part = p
    /\ UNCHANGED part
    /\ p # "sessions" => UNCHANGED vars
    /\ p # "wakeup"   => UNCHANGED wakeupVars
    /\ p # "page"     => UNCHANGED pageVars
    /\ p # "index"    => UNCHANGED indexVars
    /\ p # "memory"   => UNCHANGED memoryVars

WaitsNext ==
    \/ Others("sessions") /\ Next
    \/ Others("wakeup")   /\ NextWakeup
    \/ Others("page")     /\ NextPageState
    \/ Others("index")    /\ NextIndex
    \/ Others("memory")   /\ NextMemory

waitsVars == <<part, vars, wakeupVars, pageVars, indexVars, memoryVars>>

\* The server handles the requests it has, and serves who waits for a row that comes
\* free again and again; a tab handles the responses it gets.
FairSessions ==
    \A r \in Requests : /\ SF_waitsVars(Others("sessions") /\ ServerStep(r))
                        /\ WF_waitsVars(Others("sessions") /\ Receive(r))

\* A fetch ends, timers fire and the clock goes on.
FairWakeup ==
    /\ \A r \in Runs : /\ WF_waitsVars(Others("wakeup") /\ LoopStep(r))
                       /\ WF_waitsVars(Others("wakeup") /\ DeadlinePasses(r))
    /\ WF_waitsVars(Others("wakeup") /\ WakeTimer)
    /\ WF_waitsVars(Others("wakeup") /\ HideTimer)

\* Timers fire, the router arrives, a request is answered or fails.
FairPage ==
    /\ WF_waitsVars(Others("page") /\ Navigate)
    /\ WF_waitsVars(Others("page") /\ DebounceEnds)
    /\ \A u \in Urls : WF_waitsVars(Others("page") /\ RequestEnds(Asking(u)))

\* A thread that can go on does, and gets a lock that comes free again and again.
FairIndex ==
    \A w \in Workers : SF_waitsVars(Others("index") /\ Proceed(w))

\* A turn ends; the clean-up runs every day, and does not fail every time.
FairMemory ==
    /\ \A r \in Turns : WF_waitsVars(Others("memory") /\ Turn(r))
    /\ WF_waitsVars(Others("memory") /\ FindExpired)
    /\ \A th \in Threads : /\ SF_waitsVars(Others("memory") /\ DeleteCheckpoints(th))
                           /\ SF_waitsVars(Others("memory") /\ DeleteActivity(th))
    /\ SF_waitsVars(Others("memory") /\ Commit)

WaitsSpec ==
    /\ WaitsInit /\ [][WaitsNext]_waitsVars
    /\ FairSessions /\ FairWakeup /\ FairPage /\ FairIndex /\ FairMemory

\* One tab; what it stopped waiting for goes on beside it.
OneTab == tab1 :> desk
=============================================================================
