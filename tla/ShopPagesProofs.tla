--------------------------- MODULE ShopPagesProofs ---------------------------
(****************************************************************************)
(* What is proved of two components of the shop's pages: the catalog shows  *)
(* what the URL asks for, and the overlay that waits for the server is      *)
(* never left without somebody to take it away.                             *)
(****************************************************************************)
EXTENDS CatalogPage, ServerWakeup, TLAPS

-----------------------------------------------------------------------------
(* The catalog page.                                                         *)

\* A request that was not given up is for the URL there is.
NewestAsked == \A r \in requests : ~r.cancelled => r.of = url

\* The inductive invariant of the page.
PageInv == NewestAsked /\ ShownIsAsked

\* The page opens with the request for its URL.
LEMMA InitPageInv == InitPage => PageInv
  BY DEF InitPage, PageInv, NewestAsked, ShownIsAsked, Asking

\* A load gives up what was asked before.
LEMMA LoadAsksAnew ==
    ASSUME NEW u, Load(u)
    PROVE  \A r \in requests' : ~r.cancelled => r.of = u
<1> SUFFICES ASSUME NEW r \in requests', ~r.cancelled PROVE r.of = u
    OBVIOUS
<1>1. CASE r = Asking(u)
      BY <1>1 DEF Asking
<1>2. ASSUME NEW q \in requests, r = [q EXCEPT !.cancelled = TRUE]
      PROVE  FALSE
  <2>1. CASE "cancelled" \in DOMAIN q
        BY <1>2, <2>1
  <2> QED  BY <1>2, <2>1
<1> QED  BY <1>1, <1>2 DEF Load

\* Every step keeps the invariant.
LEMMA NextPageInv == PageInv /\ [NextPageState]_pageVars => PageInv'
<1> SUFFICES ASSUME PageInv, [NextPageState]_pageVars
             PROVE  PageInv'
    OBVIOUS
<1> USE DEF PageInv, NewestAsked, ShownIsAsked
<1>1. CASE Navigate
  <2>1. CASE pending = url
        BY <1>1, <2>1 DEF Navigate
  <2>2. CASE pending # url
    <3>1. Load(pending) /\ url' = pending
          BY <1>1, <2>2 DEF Navigate
    <3>2. loading'
          BY <3>1 DEF Load
    <3> QED  BY <3>1, <3>2, LoadAsksAnew
  <2> QED  BY <2>1, <2>2
<1>2. ASSUME NEW r \in requests, RequestEnds(r)
      PROVE  PageInv'
  <2>1. CASE Superfluous(r)
        BY <1>2, <2>1 DEF RequestEnds, Superfluous, Forget
  <2>2. CASE ListArrives(r)
        BY <1>2, <2>2 DEF RequestEnds, ListArrives, Forget
  <2>3. CASE ListFails(r)
        BY <1>2, <2>3 DEF RequestEnds, ListFails, Forget
  <2> QED  BY <1>2, <2>1, <2>2, <2>3 DEF RequestEnds
<1>3. CASE DebounceEnds \/ clearQuery \/ Go \/ CatalogChanges
      BY <1>3 DEF DebounceEnds, clearQuery, Go, CatalogChanges
<1>4. ASSUME NEW text \in Queries, Type(text)
      PROVE  PageInv'
      BY <1>4 DEF Type
<1>5. CASE UNCHANGED pageVars
      BY <1>5 DEF pageVars
<1> QED  BY <1>1, <1>2, <1>3, <1>4, <1>5 DEF NextPageState

\* In whatever order lists arrive and navigations replace each other, products
\* that are shown as loaded are those of the URL.
THEOREM PageShowsItsURL == SpecPage => []ShownIsAsked
<1>1. PageInv => ShownIsAsked
      BY DEF PageInv
<1> QED  BY <1>1, InitPageInv, NextPageInv, PTL DEF SpecPage

-----------------------------------------------------------------------------
(* The overlay that waits for the server.                                    *)

\* Timers are those of the newest run, and the one that ends a loop's pause is
\* set only while the loop sleeps; runs to come have no loop yet.
TimersOfNewest ==
    /\ timer.wake \in {0, runId} /\ timer.hide \in {0, runId} /\ timer.poll \in {0, runId}
    /\ timer.poll # 0 => loop[timer.poll].pc = "sleeping"
    /\ \A r \in Runs : r > runId => loop[r].pc = "none"

\* Who will change what a mounted overlay shows.
Led ==
    mounted =>
        /\ runId # 0
        /\ status = "waking" => Polls(runId)
        /\ status = "ready" => timer.hide = runId
        /\ status = "error" => timer = NoTimers
        /\ timer.wake # 0 => Polls(runId) /\ status = "idle"
        /\ timer.hide # 0 => status = "ready"
        /\ Polls(runId) => status \in {"idle", "waking"}

\* Nobody changes one that is not mounted.
Quiet == ~mounted => timer = NoTimers /\ (runId # 0 => ~Polls(runId))

\* The inductive invariant of the overlay.
OverlayInv == WakeupTypeOK /\ TimersOfNewest /\ Led /\ Quiet

\* The overlay is not mounted when the page opens.
LEMMA InitOverlayInv == InitWakeup => OverlayInv
<1> SUFFICES ASSUME InitWakeup PROVE OverlayInv
    OBVIOUS
<1>1. timer.wake = 0 /\ timer.hide = 0 /\ timer.poll = 0
      /\ timer \in [wake : 0..MaxRuns, hide : 0..MaxRuns, poll : 0..MaxRuns]
      BY WakeupAssumption DEF InitWakeup, NoTimers
<1>2. /\ loop \in [Runs -> [pc : {"none", "probing", "sleeping", "ended"}, late : BOOLEAN]]
      /\ \A r \in Runs : loop[r].pc = "none"
      BY DEF InitWakeup, NoLoop
<1>3. runId = 0 /\ runId \in 0..MaxRuns /\ ~mounted
      BY WakeupAssumption DEF InitWakeup
<1>4. WakeupTypeOK
      BY <1>1, <1>2, <1>3 DEF WakeupTypeOK, InitWakeup
<1>5. TimersOfNewest /\ Led /\ Quiet
      BY <1>1, <1>2, <1>3 DEF TimersOfNewest, Led, Quiet, InitWakeup
<1> QED  BY <1>4, <1>5 DEF OverlayInv

\* A loop that is let go does not sleep; no loop changes in any other way.
LEMMA ReleasedLoops ==
    ASSUME OverlayInv
    PROVE  /\ Released \in [Runs -> [pc : {"none", "probing", "sleeping", "ended"},
                                      late : BOOLEAN]]
           /\ \A r \in Runs : r > runId => Released[r].pc = "none"
<1> USE DEF OverlayInv, WakeupTypeOK, TimersOfNewest, Released
<1>1. ASSUME NEW r \in Runs
      PROVE  Released[r] \in [pc : {"none", "probing", "sleeping", "ended"}, late : BOOLEAN]
      OBVIOUS
<1>2. Released \in [Runs -> [pc : {"none", "probing", "sleeping", "ended"}, late : BOOLEAN]]
      BY <1>1
<1>3. ASSUME NEW r \in Runs, r > runId
      PROVE  Released[r].pc = "none"
      BY <1>3 DEF Runs
<1> QED  BY <1>2, <1>3

\* A call of stop() leaves nothing that could act.
LEMMA StopQuiets ==
    ASSUME OverlayInv, stop, status' \in {"idle", "waking", "ready", "error"},
           mounted' \in BOOLEAN, mounted' => status' = "idle"
    PROVE  OverlayInv'
<1> USE DEF OverlayInv, WakeupTypeOK, stop
<1>1. /\ loop' \in [Runs -> [pc : {"none", "probing", "sleeping", "ended"}, late : BOOLEAN]]
      /\ \A r \in Runs : r > runId => loop'[r].pc = "none"
      BY ReleasedLoops
<1>2. runId' = runId + 1 /\ runId' \in 0..MaxRuns /\ runId' \in Runs
      BY WakeupAssumption DEF Runs
<1>3. timer' = NoTimers /\ timer'.wake = 0 /\ timer'.hide = 0 /\ timer'.poll = 0
      BY DEF NoTimers
<1>4. WakeupTypeOK'
      BY <1>1, <1>2, <1>3, WakeupAssumption DEF NoTimers
<1>5. TimersOfNewest'
      BY <1>1, <1>2, <1>3 DEF TimersOfNewest, Runs
<1>6. ~Polls(runId)'
      BY <1>1, <1>2, <1>3 DEF Polls
<1>7. Led' /\ Quiet'
      BY <1>2, <1>3, <1>6 DEF Led, Quiet
<1> QED  BY <1>4, <1>5, <1>7

\* A call of wake() leaves the loop it starts, and nothing else that could act.
LEMMA WakeLeads ==
    ASSUME OverlayInv, wake, mounted', status \in {"idle", "error"}
    PROVE  OverlayInv'
<1> USE DEF OverlayInv, WakeupTypeOK, wake
<1> DEFINE Loops == [pc : {"none", "probing", "sleeping", "ended"}, late : BOOLEAN]
<1>1. Released \in [Runs -> Loops] /\ \A r \in Runs : r > runId => Released[r].pc = "none"
      BY ReleasedLoops
<1>2. runId' = runId + 1 /\ runId' \in 0..MaxRuns /\ runId' \in Runs
      BY WakeupAssumption DEF Runs
<1>3. /\ loop' \in [Runs -> Loops]
      /\ \A r \in Runs : r > runId' => loop'[r].pc = "none"
      /\ loop'[runId'].pc = "probing"
  <2>1. loop' = [Released EXCEPT ![runId + 1].pc = "probing"] /\ runId + 1 \in Runs
        BY <1>2
  <2> QED  BY <1>1, <1>2, <2>1 DEF Runs
<1>4. Polls(runId)'
      BY <1>3 DEF Polls
<1>5. CASE status = "error"
  <2>1. status' = "waking" /\ timer' = NoTimers
        BY <1>5
  <2>2. timer'.wake = 0 /\ timer'.hide = 0 /\ timer'.poll = 0
        /\ timer' \in [wake : 0..MaxRuns, hide : 0..MaxRuns, poll : 0..MaxRuns]
        BY <2>1, WakeupAssumption DEF NoTimers
  <2>3. WakeupTypeOK'
        BY <1>2, <1>3, <2>1, <2>2
  <2> QED  BY <1>2, <1>3, <1>4, <2>1, <2>2, <2>3 DEF TimersOfNewest, Led, Quiet
<1>6. CASE status = "idle"
  <2>1. status' = "idle" /\ timer' = [NoTimers EXCEPT !.wake = runId + 1]
        BY <1>6
  <2>2. timer'.wake = runId' /\ timer'.hide = 0 /\ timer'.poll = 0
        /\ timer' \in [wake : 0..MaxRuns, hide : 0..MaxRuns, poll : 0..MaxRuns]
        BY <1>2, <2>1, WakeupAssumption DEF NoTimers
  <2>3. WakeupTypeOK'
        BY <1>2, <1>3, <2>1, <2>2
  <2> QED  BY <1>2, <1>3, <1>4, <2>1, <2>2, <2>3 DEF TimersOfNewest, Led, Quiet
<1> QED  BY <1>5, <1>6

\* The end of a probe that an older run began changes nothing that matters; that of
\* the newest run's hands on to a timer, or leaves the error.
LEMMA ProbeLeads ==
    ASSUME OverlayInv, NEW r \in Runs, ProbeEnds(r)
    PROVE  OverlayInv'
<1> USE DEF OverlayInv, WakeupTypeOK
<1> DEFINE Ends == [loop EXCEPT ![r].pc = "ended"]
<1>1. UNCHANGED <<mounted, runId, api, facets>> /\ loop[r].pc = "probing"
      BY DEF ProbeEnds
<1>2. r \in Nat /\ r # 0 /\ runId \in Nat /\ timer.poll # r
      BY <1>1, WakeupAssumption DEF Runs, TimersOfNewest
<1>3. ASSUME ~isActive(r), Superseded(r)
      PROVE  OverlayInv'
  <2>1. UNCHANGED <<timer, status>> /\ loop' = Ends /\ r # runId
        BY <1>3 DEF Superseded, isActive
  <2>2. WakeupTypeOK'
        BY <1>1, <2>1
  <2>3. TimersOfNewest'
        BY <1>1, <1>2, <2>1 DEF TimersOfNewest
  <2>4. Polls(runId)' <=> Polls(runId)
        BY <1>1, <2>1 DEF Polls
  <2>5. Led' /\ Quiet'
        BY <1>1, <2>1, <2>4 DEF Led, Quiet
  <2> QED  BY <2>2, <2>3, <2>5
<1>4. ASSUME isActive(r)
      PROVE  /\ mounted /\ status \in {"idle", "waking"} /\ r = runId
             /\ timer.hide = 0 /\ timer.poll = 0
  <2>1. r = runId /\ Polls(runId)
        BY <1>1, <1>4 DEF isActive, Polls
  <2> QED  BY <1>2, <2>1 DEF Led, Quiet, TimersOfNewest
<1>5. ASSUME isActive(r), SaysReady(r)
      PROVE  OverlayInv'
  <2> USE <1>4, <1>5
  <2>1. loop' = Ends /\ ~Polls(runId)'
        BY <1>1 DEF SaysReady, Polls
  <2>2. CASE status = "waking"
    <3>1. status' = "ready" /\ timer' = [timer EXCEPT !.wake = 0, !.hide = r]
          BY <2>2 DEF SaysReady
    <3>2. timer'.wake = 0 /\ timer'.hide = r /\ timer'.poll = 0
          BY <3>1
    <3>3. WakeupTypeOK'
          BY <1>1, <1>2, <2>1, <3>1
    <3> QED  BY <1>1, <1>2, <2>1, <3>1, <3>2, <3>3 DEF TimersOfNewest, Led, Quiet
  <2>3. CASE status = "idle"
    <3>1. status' = "idle" /\ timer' = [timer EXCEPT !.wake = 0]
          BY <2>3 DEF SaysReady
    <3>2. timer'.wake = 0 /\ timer'.hide = 0 /\ timer'.poll = 0
          BY <3>1
    <3>3. WakeupTypeOK'
          BY <1>1, <1>2, <2>1, <3>1
    <3> QED  BY <1>1, <1>2, <2>1, <3>1, <3>2, <3>3 DEF TimersOfNewest, Led, Quiet
  <2> QED  BY <2>2, <2>3
<1>6. ASSUME isActive(r), GiveUp(r)
      PROVE  OverlayInv'
  <2> USE <1>4, <1>6
  <2>1. loop' = Ends /\ ~Polls(runId)'
        BY <1>1 DEF GiveUp, Polls
  <2>2. status' = "error" /\ timer' = [timer EXCEPT !.wake = 0]
        BY DEF GiveUp
  <2>3. timer'.wake = 0 /\ timer'.hide = 0 /\ timer'.poll = 0 /\ timer' = NoTimers
        BY <2>2 DEF NoTimers
  <2>4. WakeupTypeOK'
        BY <1>1, <1>2, <2>1, <2>2
  <2> QED  BY <1>1, <1>2, <2>1, <2>2, <2>3, <2>4 DEF TimersOfNewest, Led, Quiet
<1>7. ASSUME isActive(r), SaysNotReady(r)
      PROVE  OverlayInv'
  <2> USE <1>4, <1>7
  <2>1. loop' = [loop EXCEPT ![r].pc = "sleeping"] /\ status' = status
        /\ timer' = [timer EXCEPT !.poll = r]
        BY DEF SaysNotReady
  <2>2. timer'.wake = timer.wake /\ timer'.hide = 0 /\ timer'.poll = r
        BY <2>1
  <2>3. Polls(runId)' /\ Polls(runId)
        BY <1>1, <2>1, <2>2 DEF Polls
  <2>4. WakeupTypeOK'
        BY <1>1, <1>2, <2>1
  <2> QED  BY <1>1, <1>2, <2>1, <2>2, <2>3, <2>4 DEF TimersOfNewest, Led, Quiet
<1> QED  BY <1>3, <1>5, <1>6, <1>7 DEF ProbeEnds

\* When its pause ends the newest loop probes again, or leaves the error.
LEMMA PollLeads ==
    ASSUME OverlayInv, NEW r \in Runs, PollTimer(r)
    PROVE  OverlayInv'
<1> USE DEF OverlayInv, WakeupTypeOK
<1> DEFINE Timers == [wake : 0..MaxRuns, hide : 0..MaxRuns, poll : 0..MaxRuns]
<1>1. UNCHANGED <<mounted, runId, api, facets>> /\ timer.poll = r /\ r \in Nat /\ r # 0
      BY WakeupAssumption DEF PollTimer, Runs
<1>2. r = runId /\ loop[r].pc = "sleeping" /\ Polls(runId) /\ isActive(r)
      BY <1>1 DEF TimersOfNewest, Polls, isActive
<1>3. mounted /\ status \in {"idle", "waking"} /\ timer.hide = 0
      BY <1>1, <1>2 DEF Led, Quiet, TimersOfNewest
<1>4. /\ [timer EXCEPT !.poll = 0, !.wake = 0] \in Timers
      /\ [timer EXCEPT !.poll = 0, !.wake = timer.wake] \in Timers
  <2>1. 0 \in 0..MaxRuns
        BY WakeupAssumption
  <2>2. \A T : 0 \in T /\ timer \in [wake : T, hide : T, poll : T] =>
              /\ [timer EXCEPT !.poll = 0, !.wake = 0] \in [wake : T, hide : T, poll : T]
              /\ [timer EXCEPT !.poll = 0, !.wake = timer.wake] \in [wake : T, hide : T, poll : T]
        OBVIOUS
  <2> QED  BY <2>1, <2>2
<1>5. CASE loop[r].late
  <2>1. loop' = [loop EXCEPT ![r].pc = "ended"] /\ status' = "error"
        /\ timer' = [timer EXCEPT !.poll = 0, !.wake = 0]
        BY <1>2, <1>5 DEF PollTimer
  <2>2. timer'.wake = 0 /\ timer'.hide = 0 /\ timer'.poll = 0 /\ timer' = NoTimers
        BY <1>3, <2>1 DEF NoTimers
  <2>3. ~Polls(runId)'
        BY <1>1, <1>2, <2>1 DEF Polls
  <2>4. timer' \in [wake : 0..MaxRuns, hide : 0..MaxRuns, poll : 0..MaxRuns]
        BY <2>1, <1>4
  <2>5. WakeupTypeOK'
        BY <1>1, <1>3, <2>1, <2>4
  <2> QED  BY <1>1, <1>2, <1>3, <2>1, <2>2, <2>3, <2>5 DEF TimersOfNewest, Led, Quiet
<1>6. CASE ~loop[r].late
  <2>1. loop' = [loop EXCEPT ![r].pc = "probing"] /\ status' = status
        /\ timer' = [timer EXCEPT !.poll = 0, !.wake = timer.wake]
        BY <1>2, <1>6 DEF PollTimer
  <2>2. timer'.wake = timer.wake /\ timer'.hide = 0 /\ timer'.poll = 0
        BY <1>3, <2>1
  <2>3. Polls(runId)'
        BY <1>1, <1>2, <2>1 DEF Polls
  <2>4. timer' \in [wake : 0..MaxRuns, hide : 0..MaxRuns, poll : 0..MaxRuns]
        BY <2>1, <1>4
  <2>5. WakeupTypeOK'
        BY <1>1, <1>3, <2>1, <2>4
  <2> QED  BY <1>1, <1>2, <1>3, <2>1, <2>2, <2>3, <2>5 DEF TimersOfNewest, Led, Quiet
<1> QED  BY <1>5, <1>6

\* Every step keeps the invariant.
LEMMA NextOverlayInv == OverlayInv /\ [NextWakeup]_wakeupVars => OverlayInv'
<1> SUFFICES ASSUME OverlayInv, [NextWakeup]_wakeupVars
             PROVE  OverlayInv'
    OBVIOUS
<1> USE DEF OverlayInv, WakeupTypeOK
<1>1. CASE Mount \/ Retry
  <2>1. wake /\ mounted' /\ status \in {"idle", "error"}
        BY <1>1 DEF Mount, Retry
  <2> QED  BY <2>1, WakeLeads
<1>2. CASE Unmount \/ Close
  <2>1. /\ stop /\ status' \in {"idle", "waking", "ready", "error"}
        /\ mounted' \in BOOLEAN /\ (mounted' => status' = "idle")
        BY <1>2 DEF Unmount, Close
  <2> QED  BY <2>1, StopQuiets
<1>3. ASSUME NEW r \in Runs, LoopStep(r)
      PROVE  OverlayInv'
      BY <1>3, ProbeLeads, PollLeads DEF LoopStep
<1>4. ASSUME NEW r \in Runs, DeadlinePasses(r)
      PROVE  OverlayInv'
  <2>1. loop' = [loop EXCEPT ![r].late = TRUE]
        /\ UNCHANGED <<mounted, status, runId, timer, api, facets>>
        BY <1>4 DEF DeadlinePasses
  <2>2. WakeupTypeOK'
        BY <2>1
  <2>3. \A q \in Runs : loop'[q].pc = loop[q].pc
        BY <2>1
  <2>4. runId # 0 => runId \in Runs
        BY WakeupAssumption DEF Runs
  <2>5. timer.poll # 0 => timer.poll \in Runs
        BY WakeupAssumption DEF Runs
  <2>6. runId # 0 => (Polls(runId)' <=> Polls(runId))
        BY <2>1, <2>3, <2>4 DEF Polls
  <2>7. TimersOfNewest'
        BY <2>1, <2>3, <2>5 DEF TimersOfNewest
  <2>8. Led' /\ Quiet'
        BY <2>1, <2>6 DEF Led, Quiet
  <2> QED  BY <2>2, <2>7, <2>8
<1>5. CASE WakeTimer
  <2>1. timer.wake = runId /\ timer.wake # 0 /\ status' = "waking" /\ Polls(runId) /\ mounted
    <3>1. timer.wake # 0 /\ timer.wake = runId
          BY <1>5 DEF WakeTimer, TimersOfNewest
    <3>2. timer # NoTimers
          BY <3>1 DEF NoTimers
    <3> QED  BY <1>5, <3>1, <3>2 DEF WakeTimer, isActive, Led, Quiet
  <2>2. timer' = [timer EXCEPT !.wake = 0] /\ UNCHANGED <<mounted, runId, loop, api, facets>>
        BY <1>5 DEF WakeTimer
  <2>3. timer'.wake = 0 /\ timer'.hide = timer.hide /\ timer'.poll = timer.poll
        BY <2>2
  <2>4. timer.hide = 0
        BY <2>1 DEF Led
  <2>5. Polls(runId)'
        BY <2>1, <2>2, <2>3 DEF Polls
  <2>6. WakeupTypeOK'
        BY <2>1, <2>2, WakeupAssumption
  <2> QED  BY <2>1, <2>2, <2>3, <2>4, <2>5, <2>6 DEF TimersOfNewest, Led, Quiet
<1>6. CASE HideTimer
  <2>1. /\ timer.hide = runId /\ runId # 0 /\ status' = "idle" /\ ~Polls(runId) /\ mounted
        /\ timer.wake = 0
    <3>1. timer.hide # 0 /\ timer.hide = runId
          BY <1>6 DEF HideTimer, TimersOfNewest
    <3>2. timer # NoTimers
          BY <3>1 DEF NoTimers
    <3> QED  BY <1>6, <3>1, <3>2 DEF HideTimer, isActive, Led, Quiet
  <2>2. timer' = [timer EXCEPT !.hide = 0] /\ UNCHANGED <<mounted, runId, loop, api, facets>>
        BY <1>6 DEF HideTimer
  <2>3. timer'.wake = 0 /\ timer'.hide = 0 /\ timer'.poll = timer.poll
        BY <2>1, <2>2
  <2>4. ~Polls(runId)'
        BY <2>1, <2>2, <2>3 DEF Polls
  <2>5. WakeupTypeOK'
        BY <2>1, <2>2, WakeupAssumption
  <2> QED  BY <2>1, <2>2, <2>3, <2>4, <2>5 DEF TimersOfNewest, Led, Quiet
<1>7. CASE ServiceChanges
  <2>1. UNCHANGED <<mounted, status, runId, loop, timer>>
        /\ api' \in {"none", "api", "both"} /\ facets' \in BOOLEAN
        BY <1>7 DEF ServiceChanges
  <2> QED  BY <2>1 DEF TimersOfNewest, Led, Quiet, Polls
<1>8. CASE UNCHANGED wakeupVars
      BY <1>8 DEF wakeupVars, TimersOfNewest, Led, Quiet, Polls
<1> QED  BY <1>1, <1>2, <1>3, <1>4, <1>5, <1>6, <1>7, <1>8 DEF NextWakeup

\* Whatever wakes, sleeps, hangs or is closed in the meantime, an overlay that covers
\* the shop has somebody who takes it away, and one that shows the error has nobody
\* who would say otherwise.
THEOREM OverlayHasALeader == SpecWakeup => []OverlayIsLed
<1>1. OverlayInv => OverlayIsLed
  <2> SUFFICES ASSUME OverlayInv, mounted PROVE OverlayIsLed
      BY DEF OverlayIsLed
  <2>1. runId \in Runs
        BY WakeupAssumption DEF OverlayInv, WakeupTypeOK, Led, Runs
  <2>2. status = "error" => \A r \in Runs : isActive(r) => ~Polls(r)
        BY DEF OverlayInv, Led, isActive
  <2> QED  BY <2>1, <2>2 DEF OverlayInv, Led, OverlayIsLed, isActive
<1> QED  BY <1>1, InitOverlayInv, NextOverlayInv, PTL DEF SpecWakeup
=============================================================================
