----------------------------- MODULE RateLimiter -----------------------------
(****************************************************************************)
(* The in-memory sliding windows in front of the copilot and the write      *)
(* endpoints.  A write endpoint runs in a thread pool: its check reads the  *)
(* clock first and takes the limiter's lock later, so stamps are appended   *)
(* out of order.  A copilot endpoint checks on the event loop, in one go.   *)
(*                                                                          *)
(* A list of stamps is a function: the stamp of each request that is still  *)
(* in it, by the number the request got when the window took it.            *)
(****************************************************************************)
EXTENDS Naturals, Sequences, FiniteSets, FiniteSetsExt, Functions

CONSTANTS
    Clients,     \* client addresses, the keys of every window
    Writers,     \* bound: write checks under way at the same time
    Second,      \* ticks of the clock in a second
    Span,        \* the ticks in each of the windows "minute", "day" and "write"
    Limit,       \* the requests each window admits
    MaxTracked,  \* keys a window tracks before it sweeps the expired ones
    Slack,       \* the longest a check waits between the clock and the lock
    MaxClock     \* bound: ticks of the clock

Windows == {"minute", "day", "write"}

ASSUME LimiterAssumption ==
    /\ Clients # {}
    /\ Span \in [Windows -> Nat \ {0}]
    /\ Limit \in [Windows -> Nat]
    /\ Second \in Nat \ {0}
    /\ MaxTracked \in Nat /\ Slack \in Nat /\ MaxClock \in Nat

VARIABLES
    clock,
    bucket,   \* the list each window has for each client; the empty one: no key
    check,    \* the write checks under way
    granted,  \* history: the stamps admitted, per window and client, in order
    refusal   \* history: a client's last refusal by each window

limiterVars == <<clock, bucket, check, granted, refusal>>

Idle == [busy |-> FALSE, client |-> CHOOSE c \in Clients : TRUE, now |-> 0]
NoStamps == [n \in {} |-> 0]
NoRefusal == [at |-> 0, until |-> 0, after |-> 0, reason |-> FALSE]

InitLimiter ==
    /\ clock = 0
    /\ bucket = [w \in Windows |-> [c \in Clients |-> NoStamps]]
    /\ check = [k \in Writers |-> Idle]
    /\ granted = [w \in Windows |-> [c \in Clients |-> <<>>]]
    /\ refusal = [w \in Windows |-> [c \in Clients |-> NoRefusal]]

-----------------------------------------------------------------------------
(* SlidingWindowLimiter: what a check of a window does under its lock.      *)

Live(w, stamps, now) ==
    Restrict(stamps, {n \in DOMAIN stamps : stamps[n] + Span[w] > now})

\* _sweep_expired_locked, once too many keys are tracked, and the pruning of
\* the client's own stamps.
Pruned(w, keys, c, now) ==
    LET full == Cardinality({d \in Clients : DOMAIN keys[d] # {}}) >= MaxTracked
    IN  [d \in Clients |->
            IF full \/ d = c THEN Live(w, keys[d], now) ELSE keys[d]]

\* Mutant: the request that reaches the limit passes.
AdmitsOneMore(w, stamps) == Cardinality(DOMAIN stamps) <= Limit[w]

Admits(w, stamps) == Cardinality(DOMAIN stamps) < Limit[w]

\* The next number of a client's requests, after all that were granted or are
\* in the list.
Number(w, c) == Max({Len(granted[w][c])} \cup DOMAIN bucket[w][c]) + 1

\* timestamps.append(now)
Appended(w, c, stamps, now) ==
    [n \in DOMAIN stamps \cup {Number(w, c)} |->
        IF n = Number(w, c) THEN now ELSE stamps[n]]

\* In whole seconds, rounded up, from the stamp at the front.
RetryAfter(w, stamps, now) ==
    IF DOMAIN stamps = {} THEN Span[w]
    ELSE LET left == stamps[Min(DOMAIN stamps)] + Span[w] - now
         IN  (left \div Second + 1) * Second

\* History: how many of a window's grants were made within d ticks of now.
Recent(w, c, now, d) ==
    LET g == granted[w][c]
    IN  Cardinality({i \in DOMAIN g : g[i] + d > now /\ g[i] < now + d})

Refused(w, c, now, keys) ==
    [refusal EXCEPT ![w][c] =
        [at |-> now, until |-> now + RetryAfter(w, keys[c], now),
         after |-> Len(granted[w][c]),
         reason |-> Recent(w, c, now, Span[w]) >= Limit[w]]]

-----------------------------------------------------------------------------
(* The write limiter: checkout, events and feedback.                        *)

\* now = time.time(), before the lock.
ReadClock(k, c) ==
    /\ ~check[k].busy
    /\ check' = [check EXCEPT ![k] = [busy |-> TRUE, client |-> c, now |-> clock]]
    /\ UNCHANGED <<clock, bucket, granted, refusal>>

Decide(k) ==
    LET c    == check[k].client
        now  == check[k].now
        keys == Pruned("write", bucket["write"], c, now)
    IN  /\ check[k].busy
        /\ check' = [check EXCEPT ![k] = Idle]
        /\ IF Admits("write", keys[c])
           THEN /\ bucket' = [bucket EXCEPT !["write"] =
                                 [keys EXCEPT ![c] = Appended("write", c, @, now)]]
                /\ granted' = [granted EXCEPT !["write"][c] = Append(@, now)]
                /\ UNCHANGED refusal
           ELSE /\ bucket' = [bucket EXCEPT !["write"] = keys]
                /\ refusal' = Refused("write", c, now, keys)
                /\ UNCHANGED granted
        /\ UNCHANGED clock

-----------------------------------------------------------------------------
(* The copilot's limiter: the minute first, then the day.                   *)

RefusedByMinute(c) ==
    LET keys == Pruned("minute", bucket["minute"], c, clock)
    IN  /\ ~Admits("minute", keys[c])
        /\ bucket' = [bucket EXCEPT !["minute"] = keys]
        /\ refusal' = Refused("minute", c, clock, keys)
        /\ UNCHANGED granted

\* Mutant: the minute keeps what the day refuses.
RefundNothing(stamps) == stamps

\* The stamp the minute just took is given back.
Refund(stamps) ==
    LET last == Max(DOMAIN stamps)
    IN  IF DOMAIN stamps # {} /\ stamps[last] = clock
        THEN Restrict(stamps, DOMAIN stamps \ {last}) ELSE stamps

RefusedByDay(c) ==
    LET minute == Pruned("minute", bucket["minute"], c, clock)
        day    == Pruned("day", bucket["day"], c, clock)
    IN  /\ Admits("minute", minute[c])
        /\ ~Admits("day", day[c])
        /\ bucket' = [bucket EXCEPT
              !["minute"] = [minute EXCEPT ![c] = Refund(Appended("minute", c, @, clock))],
              !["day"] = day]
        /\ refusal' = Refused("day", c, clock, day)
        /\ UNCHANGED granted

Admitted(c) ==
    LET minute == Pruned("minute", bucket["minute"], c, clock)
        day    == Pruned("day", bucket["day"], c, clock)
    IN  /\ Admits("minute", minute[c])
        /\ Admits("day", day[c])
        /\ bucket' = [bucket EXCEPT
              !["minute"] = [minute EXCEPT ![c] = Appended("minute", c, @, clock)],
              !["day"]    = [day EXCEPT ![c] = Appended("day", c, @, clock)]]
        /\ granted' = [granted EXCEPT !["minute"][c] = Append(@, clock),
                                      !["day"][c]    = Append(@, clock)]
        /\ UNCHANGED refusal

CheckCopilot(c) ==
    /\ RefusedByMinute(c) \/ RefusedByDay(c) \/ Admitted(c)
    /\ UNCHANGED <<clock, check>>

\* No check waits for the lock longer than Slack.
Tick ==
    /\ clock < MaxClock
    /\ \A k \in Writers : check[k].busy => clock < check[k].now + Slack
    /\ clock' = clock + 1
    /\ UNCHANGED <<bucket, check, granted, refusal>>

\* The two limiters have nothing in common but the clock.
NextCopilotLimiter == Tick \/ \E c \in Clients : CheckCopilot(c)

NextWriteLimiter ==
    \/ Tick
    \/ \E k \in Writers : Decide(k) \/ \E c \in Clients : ReadClock(k, c)

NextLimiter == NextCopilotLimiter \/ NextWriteLimiter

SpecLimiter == InitLimiter /\ [][NextLimiter]_limiterVars
-----------------------------------------------------------------------------
(* Properties.                                                               *)

\* Type invariant.
LimiterTypeOK ==
    /\ clock \in 0..MaxClock
    /\ check \in [Writers -> [busy : BOOLEAN, client : Clients, now : 0..MaxClock]]
    /\ granted \in [Windows -> [Clients -> Seq(0..MaxClock)]]
    /\ \A w \in Windows, c \in Clients :
          /\ DOMAIN bucket[w][c] \subseteq Nat
          /\ \A n \in DOMAIN bucket[w][c] : bucket[w][c][n] \in 0..MaxClock
          /\ Cardinality(DOMAIN bucket[w][c]) <= Limit[w]

\* However late a check gets the lock and whatever another client's sweep
\* prunes, no client gets more than the limit into a window; where checks wait
\* for the lock the window is shorter by the longest wait.
WindowHolds ==
    \A w \in Windows, c \in Clients :
        LET g == granted[w][c]
            d == Span[w] - (IF w = "write" THEN Slack ELSE 0)
        IN  \A i \in DOMAIN g :
                Cardinality({j \in DOMAIN g : g[i] <= g[j] /\ g[j] < g[i] + d})
                    <= Limit[w]

\* A client is refused only for requests that were answered, for what the day's
\* window refuses is given back to the minute's; and if it waits as long as
\* Retry-After says and nothing else of it is admitted meanwhile, it gets through.
RefusalHasCause ==
    \A w \in Windows, c \in Clients :
        LET last == refusal[w][c] IN
        last # NoRefusal =>
            /\ last.reason
            /\ Limit[w] > 0 /\ clock >= last.until /\ Len(granted[w][c]) = last.after
                  => Admits(w, Live(w, bucket[w][c], clock))
=============================================================================
