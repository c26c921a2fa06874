---------------------------- MODULE ServerWakeup ----------------------------
(****************************************************************************)
(* The overlay that waits for a server and a database that sleep when       *)
(* nobody uses them: a loop of health probes per call of wake(), of which   *)
(* only the newest acts, and three timers.  Durations are left out: a timer *)
(* fires and the deadline of a loop passes at any time after it was set.    *)
(****************************************************************************)
EXTENDS Naturals

CONSTANT MaxRuns  \* bound: calls of wake() and stop()

ASSUME WakeupAssumption == MaxRuns \in Nat

Runs == 1..MaxRuns

VARIABLES
    mounted,
    status,  \* what the overlay shows
    runId,   \* runIdRef: the newest run, or one nobody has
    loop,    \* the polling loop of each run
    timer,   \* the run that set each timer, 0: not set
    api,     \* what of the service is awake: "none", "api", "both"
    facets   \* the API has the facets in its cache

wakeupVars == <<mounted, status, runId, loop, timer, api, facets>>

NoLoop == [pc |-> "none", late |-> FALSE]
NoTimers == [wake |-> 0, hide |-> 0, poll |-> 0]

InitWakeup ==
    /\ mounted = FALSE
    /\ status = "idle"
    /\ runId = 0
    /\ loop = [r \in Runs |-> NoLoop]
    /\ timer = NoTimers
    /\ api \in {"none", "api", "both"}
    /\ facets = FALSE

isActive(r) == r = runId

\* cancelPending lets a loop that sleeps go on, to find it is no longer active.
Released == [r \in Runs |-> IF r = timer.poll THEN [loop[r] EXCEPT !.pc = "ended"]
                            ELSE loop[r]]

-----------------------------------------------------------------------------
wake ==
    /\ runId < MaxRuns
    /\ runId' = runId + 1
    /\ loop' = [Released EXCEPT ![runId + 1].pc = "probing"]
    /\ IF status = "error"
       THEN status' = "waking" /\ timer' = NoTimers
       ELSE status' = status   /\ timer' = [NoTimers EXCEPT !.wake = runId + 1]
    /\ UNCHANGED <<api, facets>>

stop ==
    /\ runId < MaxRuns
    /\ runId' = runId + 1
    /\ loop' = Released
    /\ timer' = NoTimers
    /\ UNCHANGED <<api, facets>>

\* In development React mounts, unmounts and mounts again at once, with the refs
\* and the state there are.
Mount   == ~mounted /\ status = "idle" /\ mounted' = TRUE /\ wake
Unmount == mounted /\ mounted' = FALSE /\ stop /\ UNCHANGED status
Retry   == mounted /\ status = "error" /\ wake /\ UNCHANGED mounted
Close   == mounted /\ status = "error" /\ stop /\ status' = "idle" /\ UNCHANGED mounted

-----------------------------------------------------------------------------
\* checkHealth: /health says no while the database sleeps; if it does not
\* answer at all, any answer of /categories will do, even one from the cache.
CheckHealth(answered) ==
    IF answered THEN api = "both" ELSE api = "both" \/ (api = "api" /\ facets)

GiveUp(r) ==
    /\ loop' = [loop EXCEPT ![r].pc = "ended"]
    /\ timer' = [timer EXCEPT !.wake = 0]
    /\ status' = "error"

\* Mutant: nothing hides the overlay again.
SaysReadyForGood(r) ==
    /\ loop' = [loop EXCEPT ![r].pc = "ended"]
    /\ status' = IF status = "waking" THEN "ready" ELSE status
    /\ timer' = [timer EXCEPT !.wake = 0]

SaysReady(r) ==
    /\ loop' = [loop EXCEPT ![r].pc = "ended"]
    /\ IF status = "waking"
       THEN status' = "ready" /\ timer' = [timer EXCEPT !.wake = 0, !.hide = r]
       ELSE status' = status  /\ timer' = [timer EXCEPT !.wake = 0]

\* sleep
SaysNotReady(r) ==
    /\ loop' = [loop EXCEPT ![r].pc = "sleeping"]
    /\ timer' = [timer EXCEPT !.poll = r]
    /\ UNCHANGED status

Superseded(r) ==
    /\ loop' = [loop EXCEPT ![r].pc = "ended"]
    /\ UNCHANGED <<timer, status>>

\* Mutant: an older run's probe acts as well.
ProbeEndsAnyway(r) ==
    /\ loop[r].pc = "probing"
    /\ \E ok \in {CheckHealth(TRUE), CheckHealth(FALSE), FALSE} :
          IF ok THEN SaysReady(r)
          ELSE IF loop[r].late THEN GiveUp(r)
          ELSE SaysNotReady(r)
    /\ UNCHANGED <<mounted, runId, api, facets>>

\* A fetch can fail whatever is awake.
ProbeEnds(r) ==
    /\ loop[r].pc = "probing"
    /\ \E ok \in {CheckHealth(TRUE), CheckHealth(FALSE), FALSE} :
          IF ~isActive(r) THEN Superseded(r)
          ELSE IF ok THEN SaysReady(r)
          ELSE IF loop[r].late THEN GiveUp(r)
          ELSE SaysNotReady(r)
    /\ UNCHANGED <<mounted, runId, api, facets>>

\* The loop goes on, unless it is superseded or the deadline is past.
PollTimer(r) ==
    LET late == isActive(r) /\ loop[r].late
        on   == isActive(r) /\ ~late
    IN  /\ timer.poll = r
        /\ loop' = [loop EXCEPT ![r].pc = IF on THEN "probing" ELSE "ended"]
        /\ timer' = [timer EXCEPT !.poll = 0, !.wake = IF late THEN 0 ELSE @]
        /\ status' = IF late THEN "error" ELSE status
        /\ UNCHANGED <<mounted, runId, api, facets>>

WakeTimer ==
    /\ timer.wake # 0
    /\ timer' = [timer EXCEPT !.wake = 0]
    /\ status' = IF isActive(timer.wake) THEN "waking" ELSE status
    /\ UNCHANGED <<mounted, runId, loop, api, facets>>

HideTimer ==
    /\ timer.hide # 0
    /\ timer' = [timer EXCEPT !.hide = 0]
    /\ status' = IF isActive(timer.hide) THEN "idle" ELSE status
    /\ UNCHANGED <<mounted, runId, loop, api, facets>>

DeadlinePasses(r) ==
    /\ loop[r].pc \in {"probing", "sleeping"} /\ ~loop[r].late
    /\ loop' = [loop EXCEPT ![r].late = TRUE]
    /\ UNCHANGED <<mounted, status, runId, timer, api, facets>>

\* The service and the database wake up and fall asleep on their own; a visitor
\* who looks at the shop fills the cache of the facets.
ServiceChanges ==
    /\ \/ api' \in {"none", "api", "both"} \ {api} /\ facets' = (facets /\ api' # "none")
       \/ api = "both" /\ facets' = TRUE /\ UNCHANGED api
    /\ UNCHANGED <<mounted, status, runId, loop, timer>>

LoopStep(r) == ProbeEnds(r) \/ PollTimer(r)

NextWakeup ==
    \/ Mount \/ Unmount \/ Retry \/ Close
    \/ \E r \in Runs : LoopStep(r) \/ DeadlinePasses(r)
    \/ WakeTimer \/ HideTimer
    \/ ServiceChanges

SpecWakeup == InitWakeup /\ [][NextWakeup]_wakeupVars
-----------------------------------------------------------------------------
(* Properties.                                                               *)

\* Type invariant.
WakeupTypeOK ==
    /\ mounted \in BOOLEAN
    /\ status \in {"idle", "waking", "ready", "error"}
    /\ runId \in 0..MaxRuns
    /\ loop \in [Runs -> [pc : {"none", "probing", "sleeping", "ended"},
                          late : BOOLEAN]]
    /\ timer \in [wake : 0..MaxRuns, hide : 0..MaxRuns, poll : 0..MaxRuns]
    /\ api \in {"none", "api", "both"} /\ facets \in BOOLEAN

Polls(r) == loop[r].pc = "probing" \/ (loop[r].pc = "sleeping" /\ timer.poll = r)

\* A visitor is never left before an overlay that nothing will take away: while
\* it says the server wakes up, the newest loop polls; that it is ready, the
\* timer that hides it is set; and the error, with its buttons, comes only when
\* no loop is left that could say otherwise.
OverlayIsLed ==
    mounted =>
        /\ status = "waking" => \E r \in Runs : isActive(r) /\ Polls(r)
        /\ status = "ready" => timer.hide # 0 /\ isActive(timer.hide)
        /\ status = "error" =>
              /\ timer = NoTimers
              /\ \A r \in Runs : isActive(r) => ~Polls(r)

\* The overlay goes away or turns into the error, if the deadline passes and a
\* fetch does not hang for ever.
OverlayEnds ==
    status \in {"waking", "ready"} ~> status \in {"idle", "error"} \/ ~mounted
=============================================================================
