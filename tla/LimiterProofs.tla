---------------------------- MODULE LimiterProofs ----------------------------
(****************************************************************************)
(* What is proved of the rate limiter, for any clients, limits, windows and *)
(* numbers of checks that wait for the lock: no window admits more than its *)
(* limit, and no client is refused but for requests that were answered.     *)
(*                                                                          *)
(* The windows and the clients do not touch each other, so a step is looked *)
(* at for one client in one window: it drops stamps that have expired,      *)
(* grants a request or refuses one.                                         *)
(****************************************************************************)
EXTENDS RateLimiter, FiniteSetTheorems, SequenceTheorems, TLAPS

-----------------------------------------------------------------------------
(* Sets of numbers.                                                          *)

\* A set of numbers up to a length is finite.
LEMMA NumbersFinite ==
    ASSUME NEW n \in Nat, NEW S, S \subseteq 1..n
    PROVE  IsFiniteSet(S) /\ Cardinality(S) \in Nat
<1>1. IsFiniteSet(1..n)
  BY FS_Interval
<1>2. IsFiniteSet(S)
  BY <1>1, FS_Subset
<1> QED
  BY <1>2, FS_CardinalityType

\* It has a least element, if it has one.
LEMMA LeastNumber ==
    ASSUME NEW n \in Nat, NEW S, S \subseteq 1..n, S # {}
    PROVE  Min(S) \in S
<1> DEFINE Below(x) == {y \in S : y < x}
           T == {Below(x) : x \in S}
<1>1. T \subseteq FiniteSubsetsOf(S) /\ T # {}
  <2>1. \A x \in S : IsFiniteSet(Below(x))
    BY NumbersFinite
  <2> QED
    BY <2>1 DEF FiniteSubsetsOf
<1>2. PICK u \in T : \A v \in T : <<v, u>> \notin StrictSubsetOrdering(S)
  BY <1>1, FS_StrictSubsetOrderingWellFounded, WFMin
<1>3. PICK x \in S : u = Below(x)
  OBVIOUS
<1>4. \A y \in S : ~(y < x)
  <2>1. SUFFICES ASSUME NEW y \in S, y < x PROVE FALSE
    OBVIOUS
  <2>2. /\ \A z \in Below(y) : z \in Below(x)
        /\ y \in Below(x) /\ y \notin Below(y)
    <3>1. \A z \in S : z \in Int
      OBVIOUS
    <3> QED
      BY <2>1, <3>1
  <2>3. <<Below(y), Below(x)>> \in StrictSubsetOrdering(S)
    BY <2>2 DEF StrictSubsetOrdering
  <2> QED
    BY <1>2, <1>3, <2>3
<1>5. x \in S /\ \A y \in S : y >= x
  BY <1>3, <1>4
<1> QED
  BY <1>5 DEF Min

-----------------------------------------------------------------------------
(* One client in one window: its list b and what it was granted, g.          *)

\* A list at time t: it holds what was granted and has not expired, and perhaps
\* some of what has, and never more than the limit.
Keeps(w, b, g, t) ==
    /\ DOMAIN b \subseteq 1..Len(g)
    /\ \A n \in DOMAIN b : b[n] = g[n]
    /\ \A n \in 1..Len(g) :
          g[n] \in 0..t /\ (n \notin DOMAIN b => g[n] + Span[w] <= t)
    /\ Cardinality(DOMAIN b) <= Limit[w]

\* The longest a check of a window waits.
Wait(w) == IF w = "write" THEN Slack ELSE 0

\* The grants of an interval that begins at x and is shorter than the window by the
\* longest wait.
Within(w, g, x) ==
    {j \in DOMAIN g : x <= g[j] /\ g[j] < x + (Span[w] - Wait(w))}

\* They are never more than the limit.
Bounded(w, g) == \A i \in DOMAIN g : Cardinality(Within(w, g, g[i])) <= Limit[w]

\* Expired stamps may be dropped.
LEMMA DroppingKeeps ==
    ASSUME NEW w \in Windows, NEW g \in Seq(Nat), NEW t \in Nat, NEW b, Keeps(w, b, g, t),
           NEW now \in 0..t
    PROVE  /\ Keeps(w, Live(w, b, now), g, t)
           /\ DOMAIN Live(w, b, now) = {n \in DOMAIN b : b[n] + Span[w] > now}
<1> DEFINE S == {n \in DOMAIN b : b[n] + Span[w] > now}
           L == Live(w, b, now)
<1>1. DOMAIN L = S /\ \A n \in S : L[n] = b[n]
  BY DEF Live, Restrict
<1>2. Span[w] \in Nat /\ Limit[w] \in Nat
  BY LimiterAssumption
<1>3. /\ IsFiniteSet(DOMAIN b) /\ IsFiniteSet(S)
      /\ Cardinality(DOMAIN b) \in Nat /\ Cardinality(S) \in Nat
  BY NumbersFinite DEF Keeps
<1>4. Cardinality(S) <= Cardinality(DOMAIN b)
  BY <1>3, FS_Subset
<1>5. \A n \in 1..Len(g) : n \notin S => g[n] + Span[w] <= t
  BY <1>2 DEF Keeps
<1> HIDE DEF S, L
<1>6. Keeps(w, L, g, t)
  <2>1. S \subseteq DOMAIN b
    BY DEF S
  <2> QED
    BY <1>1, <1>2, <1>3, <1>4, <1>5, <2>1 DEF Keeps
<1> QED
  BY <1>1, <1>6 DEF S, L

\* Time passes.
LEMMA TimeKeeps ==
    ASSUME NEW w \in Windows, NEW g \in Seq(Nat), NEW t \in Nat, NEW b, Keeps(w, b, g, t)
    PROVE  Keeps(w, b, g, t + 1)
<1>1. Span[w] \in Nat
  BY LimiterAssumption
<1> QED
  BY <1>1 DEF Keeps

\* The list with a request that is granted.
With(b, n, now) == [m \in DOMAIN b \cup {n} |-> IF m = n THEN now ELSE b[m]]

\* A request that is admitted joins the list.
LEMMA GrantKeeps ==
    ASSUME NEW w \in Windows, NEW g \in Seq(Nat), NEW t \in Nat, NEW b, Keeps(w, b, g, t),
           NEW now \in 0..t, Admits(w, b)
    PROVE  Keeps(w, With(b, Len(g) + 1, now), Append(g, now), t)
<1> DEFINE k == Len(g) + 1
           d == With(b, k, now)
           h == Append(g, now)
<1>1. /\ Len(g) \in Nat /\ Len(h) = k /\ h[k] = now
      /\ \A n \in 1..Len(g) : h[n] = g[n]
  OBVIOUS
<1>2. /\ DOMAIN d = DOMAIN b \cup {k} /\ d[k] = now
      /\ \A n \in DOMAIN b : n # k => d[n] = b[n]
  BY DEF With
<1>3. k \notin DOMAIN b /\ IsFiniteSet(DOMAIN b) /\ Cardinality(DOMAIN b) \in Nat
  BY NumbersFinite DEF Keeps
<1>4. Cardinality(DOMAIN b \cup {k}) = Cardinality(DOMAIN b) + 1
  BY <1>3, FS_AddElement
<1>5. Limit[w] \in Nat /\ Cardinality(DOMAIN b) < Limit[w]
  BY LimiterAssumption DEF Admits
<1>6. k \in Nat /\ 1..k = 1..Len(g) \cup {k}
  BY <1>1
<1> HIDE DEF k, d, h
<1>7. DOMAIN d \subseteq 1..Len(h)
  BY <1>1, <1>2, <1>6 DEF Keeps
<1>8. \A n \in DOMAIN d : d[n] = h[n]
  BY <1>1, <1>2, <1>3 DEF Keeps
<1>9. \A n \in 1..Len(h) : h[n] \in 0..t /\ (n \notin DOMAIN d => h[n] + Span[w] <= t)
  BY <1>1, <1>2, <1>6 DEF Keeps
<1>10. Cardinality(DOMAIN d) <= Limit[w]
  BY <1>2, <1>3, <1>4, <1>5
<1>11. Keeps(w, d, h, t)
  BY <1>7, <1>8, <1>9, <1>10 DEF Keeps
<1> QED
  BY <1>11 DEF k, d, h

\* And leaves every interval within the limit: all of an interval it belongs to is
\* in the list, for none of it can have expired while the check waited.
LEMMA GrantBounded ==
    ASSUME NEW w \in Windows, NEW g \in Seq(Nat), NEW t \in Nat, NEW b, Keeps(w, b, g, t),
           NEW now \in 0..t, t <= now + Wait(w), Admits(w, b), Bounded(w, g)
    PROVE  Bounded(w, Append(g, now))
<1> DEFINE k == Len(g) + 1
           h == Append(g, now)
<1>1. /\ Len(g) \in Nat /\ Len(h) = k /\ h[k] = now
      /\ DOMAIN h = 1..k /\ DOMAIN g = 1..Len(g)
      /\ \A n \in 1..Len(g) : h[n] = g[n] /\ g[n] \in Nat
  OBVIOUS
<1>2. 1..k = 1..Len(g) \cup {k} /\ k \notin 1..Len(g)
  BY <1>1
<1>3. Span[w] \in Nat /\ Wait(w) \in Nat /\ Limit[w] \in Nat
  BY LimiterAssumption DEF Wait
<1> HIDE DEF k, h
<1>4. SUFFICES ASSUME NEW i \in DOMAIN h
               PROVE  Cardinality(Within(w, h, h[i])) <= Limit[w]
  BY <1>3 DEF Bounded, h
<1>5. h[i] \in Nat
  BY <1>1, <1>2
<1>6. Within(w, h, h[i]) \subseteq Within(w, g, h[i]) \cup {k}
  BY <1>1, <1>2 DEF Within
<1>7. CASE k \notin Within(w, h, h[i])
  <2>1. Within(w, h, h[i]) = Within(w, g, h[i])
    BY <1>1, <1>2, <1>7 DEF Within
  <2>2. CASE i # k
    BY <1>1, <1>2, <2>1, <2>2, <1>3 DEF Bounded
  <2>3. CASE i = k
    <3>1. Span[w] - Wait(w) <= 0
      BY <1>1, <1>2, <1>3, <1>5, <1>7, <2>3 DEF Within
    <3>2. Within(w, g, h[i]) = {}
      BY <1>1, <1>3, <1>5, <3>1 DEF Within
    <3>3. Cardinality(Within(w, h, h[i])) = 0
      BY <2>1, <3>2, FS_EmptySet
    <3> QED
      BY <1>3, <3>3
  <2> QED
    BY <2>2, <2>3
<1>8. CASE k \in Within(w, h, h[i])
  <2>1. \A j \in Within(w, g, h[i]) : j \in DOMAIN b
    <3>1. SUFFICES ASSUME NEW j \in Within(w, g, h[i]) PROVE j \in DOMAIN b
      OBVIOUS
    <3>2. /\ h[i] <= now /\ now < h[i] + (Span[w] - Wait(w))
          /\ j \in DOMAIN g /\ h[i] <= g[j] /\ g[j] \in Nat
      BY <1>1, <1>8 DEF Within
    <3>3. g[j] + Span[w] > t
      BY <1>3, <1>5, <3>2
    <3> QED
      BY <1>1, <1>3, <3>2, <3>3 DEF Keeps
  <2>2. IsFiniteSet(DOMAIN b) /\ Cardinality(DOMAIN b) \in Nat /\ k \notin DOMAIN b
    BY <1>1, <1>2, NumbersFinite DEF Keeps
  <2>3. /\ IsFiniteSet(DOMAIN b \cup {k})
        /\ Cardinality(DOMAIN b \cup {k}) = Cardinality(DOMAIN b) + 1
    BY <2>2, FS_AddElement
  <2>4. Within(w, h, h[i]) \subseteq DOMAIN b \cup {k}
    BY <1>6, <2>1
  <2>5. /\ Cardinality(Within(w, h, h[i])) <= Cardinality(DOMAIN b \cup {k})
        /\ Cardinality(Within(w, h, h[i])) \in Nat
    BY <2>3, <2>4, FS_Subset, FS_CardinalityType
  <2> QED
    BY <1>3, <2>2, <2>3, <2>5 DEF Admits
<1> QED
  BY <1>7, <1>8

\* What a refusal says of the list b and the grants g: it has its reason, and while
\* nothing else is granted a place is free once the time it names has come.
Explained(w, f, b, g) ==
    f # NoRefusal =>
        /\ f.reason
        /\ f.after <= Len(g)
        /\ Limit[w] > 0 /\ Len(g) = f.after =>
              \E n \in Nat : /\ n \in DOMAIN b => b[n] + Span[w] <= f.until
                             /\ Cardinality(DOMAIN b \ {n}) < Limit[w]

\* Whole seconds, rounded up, are longer than what they are rounded from.
LEMMA RoundedUp ==
    ASSUME NEW x \in Nat
    PROVE  (x \div Second + 1) * Second \in Nat /\ (x \div Second + 1) * Second > x
  BY LimiterAssumption

\* Retry-After is a time, by which the stamp at the front has expired.
LEMMA FrontExpires ==
    ASSUME NEW w \in Windows, NEW g \in Seq(Nat), NEW t \in Nat, NEW b, Keeps(w, b, g, t),
           NEW now \in 0..t, \A n \in DOMAIN b : b[n] + Span[w] > now
    PROVE  /\ RetryAfter(w, b, now) \in Nat
           /\ DOMAIN b # {} =>
                 /\ Min(DOMAIN b) \in DOMAIN b
                 /\ b[Min(DOMAIN b)] + Span[w] <= now + RetryAfter(w, b, now)
<1>1. Span[w] \in Nat
  BY LimiterAssumption
<1>2. CASE DOMAIN b = {}
  BY <1>1, <1>2 DEF RetryAfter
<1>3. CASE DOMAIN b # {}
  <2> DEFINE n == Min(DOMAIN b)
             left == b[n] + Span[w] - now
  <2>1. n \in DOMAIN b
    BY <1>3, LeastNumber DEF Keeps
  <2>2. b[n] \in Nat
    BY <2>1 DEF Keeps
  <2>3. left \in Nat
    BY <1>1, <2>1, <2>2
  <2>4. RetryAfter(w, b, now) = (left \div Second + 1) * Second
    BY <1>3 DEF RetryAfter
  <2> HIDE DEF n
  <2>5. b[n] + Span[w] = now + left
    BY <1>1, <2>2
  <2> HIDE DEF left
  <2>6. b[n] + Span[w] <= now + RetryAfter(w, b, now)
    BY <2>3, <2>4, <2>5, RoundedUp
  <2> QED
    BY <2>1, <2>3, <2>4, <2>6, RoundedUp DEF n
<1> QED
  BY <1>2, <1>3

\* A full list is of requests that were answered, and not long ago.
LEMMA FullIsRecent ==
    ASSUME NEW w \in Windows, NEW g \in Seq(Nat), NEW t \in Nat, NEW b, Keeps(w, b, g, t),
           NEW now \in 0..t, t < now + Span[w],
           \A n \in DOMAIN b : b[n] + Span[w] > now,
           ~Admits(w, b)
    PROVE  Cardinality({i \in DOMAIN g : g[i] + Span[w] > now /\ g[i] < now + Span[w]})
               >= Limit[w]
<1> DEFINE R == {i \in DOMAIN g : g[i] + Span[w] > now /\ g[i] < now + Span[w]}
<1>1. Span[w] \in Nat /\ Limit[w] \in Nat /\ Len(g) \in Nat /\ DOMAIN g = 1..Len(g)
  BY LimiterAssumption
<1>2. DOMAIN b \subseteq R
  <2>1. \A n \in DOMAIN b : n \in DOMAIN g /\ b[n] = g[n] /\ g[n] \in 0..t
    BY <1>1 DEF Keeps
  <2> QED
    BY <1>1, <2>1
<1>3. IsFiniteSet(R) /\ Cardinality(R) \in Nat
  BY <1>1, NumbersFinite
<1> HIDE DEF R
<1>4. Cardinality(DOMAIN b) <= Cardinality(R) /\ Cardinality(DOMAIN b) \in Nat
  BY <1>2, <1>3, FS_Subset, FS_CardinalityType
<1>5. Cardinality(DOMAIN b) >= Limit[w]
  BY <1>1, <1>4 DEF Admits
<1>6. Cardinality(R) >= Limit[w]
  BY <1>1, <1>3, <1>4, <1>5
<1> QED
  BY <1>6 DEF R

\* So what a refusal says is true when it is given.
LEMMA RefusalExplained ==
    ASSUME NEW w \in Windows, NEW g \in Seq(Nat), NEW t \in Nat, NEW b, Keeps(w, b, g, t),
           NEW now \in 0..t, t < now + Span[w],
           \A n \in DOMAIN b : b[n] + Span[w] > now,
           ~Admits(w, b),
           NEW f, f.reason, f.after = Len(g), f.until = now + RetryAfter(w, b, now)
    PROVE  Explained(w, f, b, g)
<1>1. Limit[w] \in Nat /\ Len(g) \in Nat
  BY LimiterAssumption
<1>2. IsFiniteSet(DOMAIN b) /\ Cardinality(DOMAIN b) \in Nat
  BY <1>1, NumbersFinite DEF Keeps
<1>0. f.after <= Len(g)
  BY <1>1
<1>3. SUFFICES ASSUME Limit[w] > 0
               PROVE  \E n \in Nat : /\ n \in DOMAIN b => b[n] + Span[w] <= f.until
                                     /\ Cardinality(DOMAIN b \ {n}) < Limit[w]
  BY <1>0, Zenon DEF Explained
<1>4. DOMAIN b # {}
  BY <1>2, <1>3, FS_EmptySet DEF Admits
<1>5. PICK n \in DOMAIN b : b[n] + Span[w] <= f.until
  BY <1>4, FrontExpires
<1>6. /\ Cardinality(DOMAIN b \ {n}) = Cardinality(DOMAIN b) - 1
      /\ Cardinality(DOMAIN b) <= Limit[w]
  BY <1>2, <1>5, FS_RemoveElement DEF Keeps
<1>7. n \in Nat /\ Cardinality(DOMAIN b \ {n}) < Limit[w]
  BY <1>1, <1>2, <1>5, <1>6 DEF Keeps
<1> QED
  BY <1>5, <1>7

\* And remains true when expired stamps are dropped.
LEMMA DroppingExplained ==
    ASSUME NEW w \in Windows, NEW g \in Seq(Nat), NEW t \in Nat, NEW b, Keeps(w, b, g, t),
           NEW now \in 0..t, NEW f, Explained(w, f, b, g)
    PROVE  Explained(w, f, Live(w, b, now), g)
<1> DEFINE L == Live(w, b, now)
<1>1. SUFFICES ASSUME f # NoRefusal, Limit[w] > 0, Len(g) = f.after
               PROVE  \E n \in Nat : /\ n \in DOMAIN L => L[n] + Span[w] <= f.until
                                     /\ Cardinality(DOMAIN L \ {n}) < Limit[w]
  BY DEF Explained
<1>2. PICK n \in Nat : /\ n \in DOMAIN b => b[n] + Span[w] <= f.until
                       /\ Cardinality(DOMAIN b \ {n}) < Limit[w]
  BY <1>1 DEF Explained
<1>3. Keeps(w, L, g, t)
  BY DroppingKeeps, Zenon
<1>8. DOMAIN L \subseteq DOMAIN b
  BY DEF Live, Restrict
<1> HIDE DEF L
<1>4. n \in DOMAIN L => L[n] + Span[w] <= f.until
  BY <1>2, <1>3, <1>8 DEF Keeps
<1>5. IsFiniteSet(DOMAIN b \ {n}) /\ DOMAIN L \ {n} \subseteq DOMAIN b \ {n}
  BY <1>8, NumbersFinite DEF Keeps
<1>6. /\ Cardinality(DOMAIN L \ {n}) <= Cardinality(DOMAIN b \ {n})
      /\ Cardinality(DOMAIN L \ {n}) \in Nat /\ Cardinality(DOMAIN b \ {n}) \in Nat
  BY <1>5, FS_Subset, FS_CardinalityType
<1>7. Cardinality(DOMAIN L \ {n}) < Limit[w]
  BY <1>2, <1>6, LimiterAssumption
<1> QED
  BY <1>4, <1>7

-----------------------------------------------------------------------------
(* The steps, for one client in one window.                                  *)

Refusals == [at : Nat, until : Nat, after : Nat, reason : BOOLEAN]

\* There is a list, grants and a refusal for every client in every window.
Shapes ==
    /\ DOMAIN bucket = Windows
    /\ \A w \in Windows : DOMAIN bucket[w] = Clients
    /\ granted \in [Windows -> [Clients -> Seq(Nat)]]
    /\ refusal \in [Windows -> [Clients -> Refusals]]

\* A check that waits has read the clock, and not too long ago.
InTime(k) == check[k].busy => check[k].now <= clock /\ clock <= check[k].now + Slack

\* The inductive invariant.
LimiterInv ==
    /\ clock \in 0..MaxClock
    /\ check \in [Writers -> [busy : BOOLEAN, client : Clients, now : 0..MaxClock]]
    /\ Shapes
    /\ \A k \in Writers : InTime(k)
    /\ \A w \in Windows, c \in Clients :
          /\ Keeps(w, bucket[w][c], granted[w][c], clock)
          /\ Bounded(w, granted[w][c])

\* The list of a client when its check of a window has pruned it.
PrunedList(w, c, now) == Live(w, bucket[w][c], now)

\* A check, of this client or another, leaves the client alone or drops what has
\* expired.
Drops(w, c, now) ==
    /\ bucket'[w][c] \in {bucket[w][c], PrunedList(w, c, now)}
    /\ granted'[w][c] = granted[w][c]
    /\ refusal'[w][c] = refusal[w][c]

\* The client's request is granted.
Grants(w, c, now) ==
    /\ Admits(w, PrunedList(w, c, now))
    /\ bucket'[w][c] = With(PrunedList(w, c, now), Len(granted[w][c]) + 1, now)
    /\ granted'[w][c] = Append(granted[w][c], now)
    /\ refusal'[w][c] = refusal[w][c]

\* It is refused.
Refuses(w, c, now) ==
    /\ ~Admits(w, PrunedList(w, c, now))
    /\ bucket'[w][c] = PrunedList(w, c, now)
    /\ granted'[w][c] = granted[w][c]
    /\ refusal'[w][c] =
          [at |-> now, until |-> now + RetryAfter(w, PrunedList(w, c, now), now),
           after |-> Len(granted[w][c]),
           reason |-> Recent(w, c, now, Span[w]) >= Limit[w]]

\* What a check does to a client in a window.
Checks(w, c, now) ==
    /\ now \in 0..clock /\ clock <= now + Wait(w)
    /\ Drops(w, c, now) \/ Grants(w, c, now) \/ Refuses(w, c, now)

\* Requests are numbered as they are granted.
LEMMA NumberIs ==
    ASSUME LimiterInv, NEW w \in Windows, NEW c \in Clients
    PROVE  Number(w, c) = Len(granted[w][c]) + 1
<1> DEFINE n == Len(granted[w][c])
           S == {n} \cup DOMAIN bucket[w][c]
<1>1. n \in Nat /\ Keeps(w, bucket[w][c], granted[w][c], clock)
  BY DEF LimiterInv, Shapes
<1>2. \A m \in S : m \in Nat /\ n >= m
  BY <1>1 DEF Keeps
<1>3. Max(S) = n
  BY <1>2 DEF Max
<1> QED
  BY <1>3 DEF Number

\* A refusal by one window says nothing of another.
LEMMA RefusedIs ==
    ASSUME Shapes, NEW w \in Windows, NEW c \in Clients, NEW now, NEW keys,
           refusal' = Refused(w, c, now, keys)
    PROVE  /\ refusal'[w][c] =
                 [at |-> now, until |-> now + RetryAfter(w, keys[c], now),
                  after |-> Len(granted[w][c]),
                  reason |-> Recent(w, c, now, Span[w]) >= Limit[w]]
           /\ \A v \in Windows, d \in Clients :
                 v # w \/ d # c => refusal'[v][d] = refusal[v][d]
           /\ DOMAIN refusal' = Windows
           /\ \A v \in Windows : DOMAIN refusal'[v] = Clients
  BY DEF Shapes, Refused

\* What pruning leaves of a list.
LEMMA PrunedIs ==
    ASSUME NEW w, NEW c \in Clients, NEW now, NEW d \in Clients
    PROVE  LET keys == Pruned(w, bucket[w], c, now)
           IN  /\ DOMAIN keys = Clients
               /\ keys[c] = PrunedList(w, c, now)
               /\ keys[d] \in {bucket[w][d], PrunedList(w, d, now)}
  BY DEF Pruned, PrunedList

\* A write check.
LEMMA DecideChecks ==
    ASSUME LimiterInv, NEW k \in Writers, Decide(k)
    PROVE  \A w \in Windows, c \in Clients : \E now : Checks(w, c, now)
<1> DEFINE c == check[k].client
           now == check[k].now
           keys == Pruned("write", bucket["write"], c, now)
           list == PrunedList("write", c, now)
<1>1. c \in Clients /\ now \in 0..clock /\ clock <= now + Slack /\ "write" \in Windows
  BY DEF LimiterInv, Decide, InTime, Windows
<1>2. /\ DOMAIN keys = Clients /\ keys[c] = list
      /\ \A d \in Clients : keys[d] \in {bucket["write"][d], PrunedList("write", d, now)}
  BY <1>1, PrunedIs
<1>3. clock \in Nat /\ Shapes
  BY LimiterAssumption DEF LimiterInv
<1>4. CASE Admits("write", keys[c])
  <2>1. /\ bucket' = [bucket EXCEPT !["write"] =
                         [keys EXCEPT ![c] = Appended("write", c, @, now)]]
        /\ granted' = [granted EXCEPT !["write"][c] = Append(@, now)]
        /\ refusal' = refusal
    BY <1>4 DEF Decide
  <2>2. Appended("write", c, keys[c], now) = With(list, Len(granted["write"][c]) + 1, now)
    BY <1>1, <1>2, NumberIs DEF Appended, With
  <2> HIDE DEF keys, list
  <2>3. /\ bucket'["write"][c] = With(list, Len(granted["write"][c]) + 1, now)
        /\ \A d \in Clients \ {c} : bucket'["write"][d] = keys[d]
        /\ \A w \in Windows \ {"write"} : bucket'[w] = bucket[w]
    BY <1>1, <1>2, <1>3, <2>1, <2>2 DEF Shapes
  <2>4. /\ granted'["write"][c] = Append(granted["write"][c], now)
        /\ \A d \in Clients \ {c} : granted'["write"][d] = granted["write"][d]
        /\ \A w \in Windows \ {"write"} : granted'[w] = granted[w]
    BY <1>1, <1>3, <2>1 DEF Shapes
  <2>5. Checks("write", c, now)
    BY <1>1, <1>2, <1>4, <2>1, <2>3, <2>4 DEF Checks, Grants, Wait, list
  <2>6. \A d \in Clients \ {c} : Checks("write", d, now)
    BY <1>1, <1>2, <2>1, <2>3, <2>4 DEF Checks, Drops, Wait
  <2>7. \A w \in Windows \ {"write"}, d \in Clients : Checks(w, d, clock)
    BY <1>3, <2>1, <2>3, <2>4 DEF Checks, Drops, Wait
  <2> QED
    BY <2>5, <2>6, <2>7
<1>5. CASE ~Admits("write", keys[c])
  <2>1. /\ bucket' = [bucket EXCEPT !["write"] = keys]
        /\ granted' = granted
        /\ refusal' = Refused("write", c, now, keys)
    BY <1>5 DEF Decide
  <2> HIDE DEF keys, list
  <2>2. bucket'["write"] = keys /\ \A w \in Windows \ {"write"} : bucket'[w] = bucket[w]
    BY <1>1, <1>3, <2>1 DEF Shapes
  <2>3. Checks("write", c, now)
    BY <1>1, <1>2, <1>3, <1>5, <2>1, <2>2, RefusedIs DEF Checks, Refuses, Wait, list
  <2>4. \A w \in Windows, d \in Clients :
            w # "write" \/ d # c => refusal'[w][d] = refusal[w][d]
    BY <1>1, <1>3, <2>1, RefusedIs
  <2>5. \A d \in Clients \ {c} : Checks("write", d, now)
    BY <1>1, <1>2, <2>1, <2>2, <2>4 DEF Checks, Drops, Wait
  <2>6. \A w \in Windows \ {"write"}, d \in Clients : Checks(w, d, clock)
    BY <1>3, <2>1, <2>2, <2>4 DEF Checks, Drops, Wait
  <2> QED
    BY <2>3, <2>5, <2>6
<1> QED
  BY <1>4, <1>5

\* What pruning leaves of a list has not expired, and is as good a list.
LEMMA PrunedKeeps ==
    ASSUME LimiterInv, NEW w \in Windows, NEW c \in Clients, NEW now \in 0..clock
    PROVE  /\ granted[w][c] \in Seq(Nat)
           /\ Keeps(w, PrunedList(w, c, now), granted[w][c], clock)
           /\ \A n \in DOMAIN PrunedList(w, c, now) :
                 PrunedList(w, c, now)[n] + Span[w] > now
<1>1. /\ granted[w][c] \in Seq(Nat) /\ clock \in Nat
      /\ Keeps(w, bucket[w][c], granted[w][c], clock)
  BY LimiterAssumption DEF LimiterInv, Shapes
<1>2. Keeps(w, Live(w, bucket[w][c], now), granted[w][c], clock)
  BY <1>1, DroppingKeeps, Zenon
<1>3. \A n \in DOMAIN PrunedList(w, c, now) :
          PrunedList(w, c, now)[n] + Span[w] > now
  BY DEF PrunedList, Live, Restrict
<1> QED
  BY <1>1, <1>2, <1>3 DEF PrunedList

\* A stamp that was taken last and is given back leaves the list as it was.
LEMMA RefundIs ==
    ASSUME LimiterInv, NEW c \in Clients, NEW b, b = PrunedList("minute", c, clock)
    PROVE  LET r == Refund(Appended("minute", c, b, clock))
           IN  /\ DOMAIN r = DOMAIN b
               /\ \A n \in DOMAIN b : r[n] = b[n]
               /\ r = [n \in DOMAIN b |-> b[n]]
<1> DEFINE k == Len(granted["minute"][c]) + 1
           a == Appended("minute", c, b, clock)
<1>1. "minute" \in Windows /\ clock \in 0..clock
  BY LimiterAssumption DEF LimiterInv, Windows
<1>2. k \in Nat /\ DOMAIN b \subseteq 1..(k - 1)
  BY <1>1, PrunedKeeps DEF Keeps
<1>3. Number("minute", c) = k
  BY <1>1, NumberIs
<1>4. /\ DOMAIN a = DOMAIN b \cup {k} /\ a[k] = clock
      /\ \A n \in DOMAIN b : a[n] = b[n]
  BY <1>2, <1>3 DEF Appended
<1> HIDE DEF k, a
<1>5. Max(DOMAIN a) = k
  <2>1. k \in DOMAIN a /\ \A n \in DOMAIN a : n \in Nat /\ k >= n
    BY <1>2, <1>4
  <2> QED
    BY <2>1 DEF Max
<1>6. Refund(a) = Restrict(a, DOMAIN a \ {k})
  BY <1>4, <1>5 DEF Refund
<1>7. DOMAIN a \ {k} = DOMAIN b
  BY <1>2, <1>4
<1>8. Refund(a) = [n \in DOMAIN b |-> b[n]]
  BY <1>4, <1>6, <1>7 DEF Restrict
<1> QED
  BY <1>8 DEF a

\* A pruned list is a function, and so is the same list with a stamp given back.
LEMMA RefundNeutral ==
    ASSUME LimiterInv, NEW c \in Clients
    PROVE  Refund(Appended("minute", c, PrunedList("minute", c, clock), clock))
               = PrunedList("minute", c, clock)
<1> DEFINE b == PrunedList("minute", c, clock)
<1>1. b = [n \in DOMAIN b |-> b[n]]
  BY DEF PrunedList, Live, Restrict
<1> QED
  BY <1>1, RefundIs

\* A check of the copilot.
LEMMA CopilotChecks ==
    ASSUME LimiterInv, NEW c \in Clients, CheckCopilot(c)
    PROVE  \A w \in Windows, d \in Clients : \E now : Checks(w, d, now)
<1> DEFINE minute == Pruned("minute", bucket["minute"], c, clock)
           day    == Pruned("day", bucket["day"], c, clock)
<1>1. /\ "minute" \in Windows /\ "day" \in Windows /\ "minute" # "day"
      /\ Wait("minute") = 0 /\ Wait("day") = 0
  BY DEF Windows, Wait
<1>2. clock \in Nat /\ Shapes
  BY LimiterAssumption DEF LimiterInv
<1>3. /\ DOMAIN minute = Clients /\ minute[c] = PrunedList("minute", c, clock)
      /\ \A d \in Clients : minute[d] \in {bucket["minute"][d], PrunedList("minute", d, clock)}
  BY PrunedIs
<1>4. /\ DOMAIN day = Clients /\ day[c] = PrunedList("day", c, clock)
      /\ \A d \in Clients : day[d] \in {bucket["day"][d], PrunedList("day", d, clock)}
  BY PrunedIs
<1>5. \A w \in Windows, d \in Clients :
          Drops(w, d, clock) \/ Grants(w, d, clock) \/ Refuses(w, d, clock)
              => Checks(w, d, clock)
  <2>1. \A w \in Windows : clock <= clock + Wait(w) /\ clock \in 0..clock
    BY <1>2, LimiterAssumption DEF Wait
  <2> QED
    BY <2>1 DEF Checks
<1>6. CASE RefusedByMinute(c)
  <2>1. /\ ~Admits("minute", minute[c])
        /\ bucket' = [bucket EXCEPT !["minute"] = minute]
        /\ granted' = granted
        /\ refusal' = Refused("minute", c, clock, minute)
    BY <1>6 DEF RefusedByMinute
  <2> HIDE DEF minute
  <2>2. /\ bucket'["minute"] = minute
        /\ \A w \in Windows \ {"minute"} : bucket'[w] = bucket[w]
    BY <1>1, <1>2, <2>1 DEF Shapes
  <2>3. Checks("minute", c, clock)
    BY <1>1, <1>2, <1>3, <2>1, <2>2, RefusedIs DEF Checks, Refuses
  <2>4. \A w \in Windows, d \in Clients :
            w # "minute" \/ d # c => refusal'[w][d] = refusal[w][d]
    BY <1>1, <1>2, <2>1, RefusedIs
  <2>5. \A d \in Clients \ {c} : Checks("minute", d, clock)
    BY <1>1, <1>2, <1>3, <2>1, <2>2, <2>4 DEF Checks, Drops
  <2>6. \A w \in Windows \ {"minute"}, d \in Clients : Checks(w, d, clock)
    BY <1>2, <1>5, <2>1, <2>2, <2>4 DEF Checks, Drops
  <2> QED
    BY <2>3, <2>5, <2>6
<1>7. CASE RefusedByDay(c)
  <2>1. /\ ~Admits("day", day[c])
        /\ bucket' = [bucket EXCEPT
              !["minute"] = [minute EXCEPT ![c] = Refund(Appended("minute", c, @, clock))],
              !["day"] = day]
        /\ granted' = granted
        /\ refusal' = Refused("day", c, clock, day)
    BY <1>7 DEF RefusedByDay
  <2>2. Refund(Appended("minute", c, minute[c], clock)) = minute[c]
    BY <1>3, RefundNeutral
  <2> HIDE DEF minute, day
  <2>3. /\ bucket'["day"] = day
        /\ \A d \in Clients : bucket'["minute"][d] = minute[d]
        /\ \A w \in Windows \ {"minute", "day"} : bucket'[w] = bucket[w]
    BY <1>1, <1>2, <1>3, <2>1, <2>2 DEF Shapes
  <2>4. Checks("day", c, clock)
    BY <1>1, <1>2, <1>4, <2>1, <2>3, RefusedIs DEF Checks, Refuses
  <2>5. \A w \in Windows, d \in Clients :
            w # "day" \/ d # c => refusal'[w][d] = refusal[w][d]
    BY <1>1, <1>2, <2>1, RefusedIs
  <2>6. \A d \in Clients \ {c} : Drops("day", d, clock)
    BY <1>1, <1>4, <2>1, <2>3, <2>5 DEF Drops
  <2>7. \A d \in Clients : Drops("minute", d, clock)
    BY <1>1, <1>3, <2>1, <2>3, <2>5 DEF Drops
  <2>8. \A w \in Windows \ {"minute", "day"}, d \in Clients : Drops(w, d, clock)
    BY <2>1, <2>3, <2>5 DEF Drops
  <2> QED
    BY <1>1, <1>5, <2>4, <2>6, <2>7, <2>8
<1>8. CASE Admitted(c)
  <2>1. /\ Admits("minute", minute[c]) /\ Admits("day", day[c])
        /\ bucket' = [bucket EXCEPT
              !["minute"] = [minute EXCEPT ![c] = Appended("minute", c, @, clock)],
              !["day"]    = [day EXCEPT ![c] = Appended("day", c, @, clock)]]
        /\ granted' = [granted EXCEPT !["minute"][c] = Append(@, clock),
                                      !["day"][c]    = Append(@, clock)]
        /\ refusal' = refusal
    BY <1>8 DEF Admitted
  <2>2. /\ Appended("minute", c, minute[c], clock)
              = With(minute[c], Len(granted["minute"][c]) + 1, clock)
        /\ Appended("day", c, day[c], clock)
              = With(day[c], Len(granted["day"][c]) + 1, clock)
    BY <1>1, NumberIs DEF Appended, With
  <2> HIDE DEF minute, day
  <2>3. /\ bucket'["minute"][c] = With(minute[c], Len(granted["minute"][c]) + 1, clock)
        /\ bucket'["day"][c] = With(day[c], Len(granted["day"][c]) + 1, clock)
        /\ \A d \in Clients \ {c} : /\ bucket'["minute"][d] = minute[d]
                                    /\ bucket'["day"][d] = day[d]
        /\ \A w \in Windows \ {"minute", "day"} : bucket'[w] = bucket[w]
    BY <1>1, <1>2, <1>3, <1>4, <2>1, <2>2 DEF Shapes
  <2>4. /\ granted'["minute"][c] = Append(granted["minute"][c], clock)
        /\ granted'["day"][c] = Append(granted["day"][c], clock)
        /\ \A d \in Clients \ {c} : /\ granted'["minute"][d] = granted["minute"][d]
                                    /\ granted'["day"][d] = granted["day"][d]
        /\ \A w \in Windows \ {"minute", "day"} : granted'[w] = granted[w]
    BY <1>1, <1>2, <2>1 DEF Shapes
  <2>5. Grants("minute", c, clock)
    BY <1>3, <2>1, <2>3, <2>4 DEF Grants
  <2>6. Grants("day", c, clock)
    BY <1>4, <2>1, <2>3, <2>4 DEF Grants
  <2>7. \A d \in Clients \ {c} : Drops("minute", d, clock)
    BY <1>3, <2>1, <2>3, <2>4 DEF Drops
  <2>8. \A d \in Clients \ {c} : Drops("day", d, clock)
    BY <1>4, <2>1, <2>3, <2>4 DEF Drops
  <2>9. \A w \in Windows \ {"minute", "day"}, d \in Clients : Drops(w, d, clock)
    BY <2>1, <2>3, <2>4 DEF Drops
  <2> QED
    BY <1>1, <1>5, <2>5, <2>6, <2>7, <2>8, <2>9
<1> QED
  BY <1>6, <1>7, <1>8 DEF CheckCopilot

\* Retry-After is a number, so a refusal is a refusal.
LEMMA RefusedShape ==
    ASSUME LimiterInv, NEW w \in Windows, NEW c \in Clients, NEW now \in 0..clock,
           NEW keys, keys[c] = PrunedList(w, c, now),
           refusal' = Refused(w, c, now, keys)
    PROVE  refusal' \in [Windows -> [Clients -> Refusals]]
<1>1. granted[w][c] \in Seq(Nat) /\ clock \in Nat /\ Shapes
  BY LimiterAssumption DEF LimiterInv, Shapes
<1>2. RetryAfter(w, keys[c], now) \in Nat
  BY <1>1, PrunedKeeps, FrontExpires
<1>3. [at |-> now, until |-> now + RetryAfter(w, keys[c], now),
       after |-> Len(granted[w][c]),
       reason |-> Recent(w, c, now, Span[w]) >= Limit[w]] \in Refusals
  BY <1>1, <1>2 DEF Refusals
<1> QED
  BY <1>1, <1>3 DEF Refused, Shapes

\* A write check leaves every list, its grants and its refusal a place.
LEMMA DecideShapes ==
    ASSUME LimiterInv, NEW k \in Writers, Decide(k)
    PROVE  Shapes'
<1> DEFINE c == check[k].client
           now == check[k].now
           keys == Pruned("write", bucket["write"], c, now)
<1>1. /\ c \in Clients /\ now \in 0..clock /\ now \in Nat /\ "write" \in Windows
      /\ Shapes
  BY LimiterAssumption DEF LimiterInv, Decide, InTime, Windows
<1>2. DOMAIN keys = Clients /\ keys[c] = PrunedList("write", c, now)
  BY <1>1, PrunedIs
<1>3. CASE Admits("write", keys[c])
  <2>1. /\ bucket' = [bucket EXCEPT !["write"] =
                         [keys EXCEPT ![c] = Appended("write", c, @, now)]]
        /\ granted' = [granted EXCEPT !["write"][c] = Append(@, now)]
        /\ refusal' = refusal
    BY <1>3 DEF Decide
  <2> HIDE DEF keys
  <2> QED
    BY <1>1, <1>2, <2>1 DEF Shapes
<1>4. CASE ~Admits("write", keys[c])
  <2>1. /\ bucket' = [bucket EXCEPT !["write"] = keys]
        /\ granted' = granted
        /\ refusal' = Refused("write", c, now, keys)
    BY <1>4 DEF Decide
  <2> HIDE DEF keys
  <2>2. refusal' \in [Windows -> [Clients -> Refusals]]
    BY <1>1, <1>2, <2>1, RefusedShape
  <2> QED
    BY <1>1, <1>2, <2>1, <2>2 DEF Shapes
<1> QED
  BY <1>3, <1>4

\* So does a check of the copilot.
LEMMA CopilotShapes ==
    ASSUME LimiterInv, NEW c \in Clients, CheckCopilot(c)
    PROVE  Shapes'
<1> DEFINE minute == Pruned("minute", bucket["minute"], c, clock)
           day    == Pruned("day", bucket["day"], c, clock)
<1>1. /\ "minute" \in Windows /\ "day" \in Windows
      /\ clock \in Nat /\ clock \in 0..clock /\ Shapes
  BY LimiterAssumption DEF LimiterInv, Windows
<1>2. /\ DOMAIN minute = Clients /\ minute[c] = PrunedList("minute", c, clock)
      /\ DOMAIN day = Clients /\ day[c] = PrunedList("day", c, clock)
  BY PrunedIs
<1>3. CASE RefusedByMinute(c)
  <2>1. /\ bucket' = [bucket EXCEPT !["minute"] = minute]
        /\ granted' = granted
        /\ refusal' = Refused("minute", c, clock, minute)
    BY <1>3 DEF RefusedByMinute
  <2> HIDE DEF minute, day
  <2>2. refusal' \in [Windows -> [Clients -> Refusals]]
    BY <1>1, <1>2, <2>1, RefusedShape
  <2> QED
    BY <1>1, <1>2, <2>1, <2>2 DEF Shapes
<1>4. CASE RefusedByDay(c)
  <2>1. /\ bucket' = [bucket EXCEPT
              !["minute"] = [minute EXCEPT ![c] = Refund(Appended("minute", c, @, clock))],
              !["day"] = day]
        /\ granted' = granted
        /\ refusal' = Refused("day", c, clock, day)
    BY <1>4 DEF RefusedByDay
  <2> HIDE DEF minute, day
  <2>2. refusal' \in [Windows -> [Clients -> Refusals]]
    BY <1>1, <1>2, <2>1, RefusedShape
  <2> QED
    BY <1>1, <1>2, <2>1, <2>2 DEF Shapes
<1>5. CASE Admitted(c)
  <2>1. /\ bucket' = [bucket EXCEPT
              !["minute"] = [minute EXCEPT ![c] = Appended("minute", c, @, clock)],
              !["day"]    = [day EXCEPT ![c] = Appended("day", c, @, clock)]]
        /\ granted' = [granted EXCEPT !["minute"][c] = Append(@, clock),
                                      !["day"][c]    = Append(@, clock)]
        /\ refusal' = refusal
    BY <1>5 DEF Admitted
  <2> HIDE DEF minute, day
  <2>2. granted' \in [Windows -> [Clients -> Seq(Nat)]]
    <3> DEFINE once == [granted EXCEPT !["minute"][c] = Append(@, clock)]
    <3>1. once \in [Windows -> [Clients -> Seq(Nat)]]
      BY <1>1 DEF Shapes
    <3>2. granted' = [once EXCEPT !["day"][c] = Append(@, clock)]
      BY <2>1
    <3> HIDE DEF once
    <3> QED
      BY <1>1, <3>1, <3>2
  <2>3. DOMAIN bucket' = Windows /\ \A w \in Windows : DOMAIN bucket'[w] = Clients
    BY <1>1, <1>2, <2>1 DEF Shapes
  <2> QED
    BY <1>1, <2>1, <2>2, <2>3 DEF Shapes
<1> QED
  BY <1>3, <1>4, <1>5 DEF CheckCopilot

-----------------------------------------------------------------------------
(* The invariant.                                                            *)

\* What a check does to a list keeps it a list, and its intervals within the limit.
LEMMA ChecksKeep ==
    ASSUME LimiterInv, NEW w \in Windows, NEW c \in Clients, NEW now, Checks(w, c, now)
    PROVE  /\ Keeps(w, bucket'[w][c], granted'[w][c], clock)
           /\ Bounded(w, granted'[w][c])
<1>1. /\ now \in 0..clock /\ clock \in Nat /\ clock <= now + Wait(w)
      /\ granted[w][c] \in Seq(Nat)
      /\ Keeps(w, bucket[w][c], granted[w][c], clock)
      /\ Bounded(w, granted[w][c])
  BY LimiterAssumption DEF LimiterInv, Shapes, Checks
<1>2. Keeps(w, PrunedList(w, c, now), granted[w][c], clock)
  BY <1>1, PrunedKeeps
<1>3. CASE Drops(w, c, now) \/ Refuses(w, c, now)
  BY <1>1, <1>2, <1>3 DEF Drops, Refuses
<1>4. CASE Grants(w, c, now)
  <2> DEFINE b == PrunedList(w, c, now)
             g == granted[w][c]
  <2>1. /\ Admits(w, b)
        /\ bucket'[w][c] = With(b, Len(g) + 1, now)
        /\ granted'[w][c] = Append(g, now)
    BY <1>4 DEF Grants
  <2> HIDE DEF b, g
  <2>2. g \in Seq(Nat) /\ Keeps(w, b, g, clock) /\ Bounded(w, g)
    BY <1>1, <1>2 DEF b, g
  <2>3. Keeps(w, With(b, Len(g) + 1, now), Append(g, now), clock)
    BY <1>1, <2>1, <2>2, GrantKeeps
  <2>4. Bounded(w, Append(g, now))
    BY <1>1, <2>1, <2>2, GrantBounded
  <2> QED
    BY <2>1, <2>3, <2>4
<1> QED
  BY <1>3, <1>4 DEF Checks

\* Nobody has asked for anything at first.
LEMMA InitLimiterInv == InitLimiter => LimiterInv
<1> SUFFICES ASSUME InitLimiter PROVE LimiterInv
  OBVIOUS
<1>1. check \in [Writers -> [busy : BOOLEAN, client : Clients, now : 0..MaxClock]]
  BY LimiterAssumption DEF InitLimiter, Idle
<1>2. Shapes
  BY DEF InitLimiter, Shapes, Refusals, NoRefusal
<1>3. \A w \in Windows, c \in Clients : Keeps(w, NoStamps, <<>>, 0) /\ Bounded(w, <<>>)
  <2>1. DOMAIN NoStamps = {} /\ Cardinality({}) = 0
    BY FS_EmptySet DEF NoStamps
  <2>2. \A w \in Windows : Limit[w] \in Nat
    BY LimiterAssumption
  <2> QED
    BY <2>1, <2>2 DEF Keeps, Bounded
<1>4. \A k \in Writers : InTime(k)
  BY DEF InitLimiter, InTime, Idle
<1>5. clock = 0 /\ \A w \in Windows, c \in Clients :
          bucket[w][c] = NoStamps /\ granted[w][c] = <<>>
  BY DEF InitLimiter
<1> QED
  BY <1>1, <1>2, <1>3, <1>4, <1>5, LimiterAssumption DEF LimiterInv

\* A check of either limiter keeps the invariant.
LEMMA CheckKeepsInv ==
    ASSUME LimiterInv, Shapes', clock' = clock,
           check' \in [Writers -> [busy : BOOLEAN, client : Clients, now : 0..MaxClock]],
           \A k \in Writers : InTime(k)',
           \A w \in Windows, c \in Clients : \E now : Checks(w, c, now)
    PROVE  LimiterInv'
<1>1. \A w \in Windows, c \in Clients :
          /\ Keeps(w, bucket'[w][c], granted'[w][c], clock')
          /\ Bounded(w, granted'[w][c])
  BY ChecksKeep
<1>2. clock' \in 0..MaxClock
  BY DEF LimiterInv
<1> QED
  BY <1>1, <1>2 DEF LimiterInv

\* Every step does.
LEMMA NextLimiterInv == LimiterInv /\ [NextLimiter]_limiterVars => LimiterInv'
<1> SUFFICES ASSUME LimiterInv, [NextLimiter]_limiterVars PROVE LimiterInv'
  OBVIOUS
<1> DEFINE Check == [busy : BOOLEAN, client : Clients, now : 0..MaxClock]
<1>1. /\ clock \in 0..MaxClock /\ MaxClock \in Nat /\ Slack \in Nat
      /\ check \in [Writers -> Check]
      /\ \A k \in Writers : InTime(k)
  BY LimiterAssumption DEF LimiterInv
<1>2. ASSUME NEW c \in Clients, CheckCopilot(c) PROVE LimiterInv'
  <2>1. clock' = clock /\ check' = check
    BY <1>2 DEF CheckCopilot
  <2>2. \A k \in Writers : InTime(k)'
    BY <1>1, <2>1 DEF InTime
  <2> QED
    BY <1>1, <1>2, <2>1, <2>2, CopilotShapes, CopilotChecks, CheckKeepsInv
<1>3. ASSUME NEW k \in Writers, Decide(k) PROVE LimiterInv'
  <2>1. clock' = clock /\ check' = [check EXCEPT ![k] = Idle]
    BY <1>3 DEF Decide
  <2>2. Idle \in Check /\ ~Idle.busy
    BY LimiterAssumption DEF Idle
  <2>3. check' \in [Writers -> Check]
    BY <1>1, <2>1, <2>2
  <2>4. \A j \in Writers : InTime(j)'
    BY <1>1, <2>1, <2>2 DEF InTime
  <2> QED
    BY <1>3, <2>1, <2>3, <2>4, DecideShapes, DecideChecks, CheckKeepsInv
<1>4. ASSUME NEW k \in Writers, NEW c \in Clients, ReadClock(k, c) PROVE LimiterInv'
  <2>1. /\ check' = [check EXCEPT ![k] = [busy |-> TRUE, client |-> c, now |-> clock]]
        /\ UNCHANGED <<clock, bucket, granted, refusal>>
    BY <1>4 DEF ReadClock
  <2>2. check' \in [Writers -> Check] /\ \A j \in Writers : InTime(j)'
    BY <1>1, <2>1 DEF InTime
  <2> QED
    BY <2>1, <2>2 DEF LimiterInv, Shapes
<1>5. CASE Tick
  <2>1. /\ clock < MaxClock /\ clock' = clock + 1
        /\ UNCHANGED <<bucket, check, granted, refusal>>
        /\ \A k \in Writers : check[k].busy => clock < check[k].now + Slack
    BY <1>5 DEF Tick
  <2>2. clock' \in 0..MaxClock /\ \A k \in Writers : InTime(k)'
    BY <1>1, <2>1 DEF InTime
  <2>3. \A w \in Windows, c \in Clients :
            granted[w][c] \in Seq(Nat) /\ Keeps(w, bucket[w][c], granted[w][c], clock)
    BY DEF LimiterInv, Shapes
  <2>4. \A w \in Windows, c \in Clients : Keeps(w, bucket[w][c], granted[w][c], clock + 1)
    BY <1>1, <2>3, TimeKeeps
  <2> QED
    BY <2>1, <2>2, <2>4 DEF LimiterInv, Shapes
<1>6. CASE UNCHANGED limiterVars
  BY <1>6 DEF limiterVars, LimiterInv, Shapes, InTime
<1> QED
  BY <1>2, <1>3, <1>4, <1>5, <1>6 DEF NextLimiter, NextCopilotLimiter, NextWriteLimiter

-----------------------------------------------------------------------------
(* What the limiter promises.                                                *)

\* The variables keep their shapes, and no list grows past its limit, for any
\* clients, limits and numbers of checks.
THEOREM LimiterTypes == SpecLimiter => []LimiterTypeOK
<1>1. LimiterInv => LimiterTypeOK
  <2> SUFFICES ASSUME LimiterInv PROVE LimiterTypeOK
    OBVIOUS
  <2>1. /\ clock \in 0..MaxClock /\ MaxClock \in Nat
        /\ granted \in [Windows -> [Clients -> Seq(Nat)]]
    BY LimiterAssumption DEF LimiterInv, Shapes
  <2>2. \A w \in Windows, c \in Clients :
            Keeps(w, bucket[w][c], granted[w][c], clock)
    BY DEF LimiterInv
  <2>3. \A w \in Windows, c \in Clients :
            /\ granted[w][c] \in Seq(0..MaxClock)
            /\ DOMAIN bucket[w][c] \subseteq Nat
            /\ \A n \in DOMAIN bucket[w][c] : bucket[w][c][n] \in 0..MaxClock
            /\ Cardinality(DOMAIN bucket[w][c]) <= Limit[w]
    <3> TAKE w \in Windows, c \in Clients
    <3>1. granted[w][c] \in Seq(Nat) /\ Len(granted[w][c]) \in Nat
      BY <2>1
    <3>2. \A n \in 1..Len(granted[w][c]) : granted[w][c][n] \in 0..MaxClock
      BY <2>1, <2>2, <3>1 DEF Keeps
    <3>3. granted[w][c] \in [1..Len(granted[w][c]) -> 0..MaxClock]
      BY <3>1, <3>2
    <3>4. granted[w][c] \in Seq(0..MaxClock)
      <4>1. \E n \in Nat : granted[w][c] \in [1..n -> 0..MaxClock]
        BY <3>1, <3>3
      <4>2. Seq(0..MaxClock) = UNION {[1..n -> 0..MaxClock] : n \in Nat}
        BY SeqDef, Zenon
      <4> QED
        BY <4>1, <4>2, Zenon
    <3> QED
      BY <2>2, <3>1, <3>2, <3>4 DEF Keeps
  <2> QED
    BY <2>1, <2>3 DEF LimiterTypeOK, LimiterInv
<1>2. QED
  BY <1>1, InitLimiterInv, NextLimiterInv, PTL DEF SpecLimiter

\* No client gets more than the limit into a window, however late its checks get the
\* lock and whatever the sweeps of others drop; where checks wait for the lock the
\* window is shorter by the longest wait.
THEOREM WindowsHold == SpecLimiter => []WindowHolds
<1>1. LimiterInv => WindowHolds
  <2> SUFFICES ASSUME LimiterInv, NEW w \in Windows, NEW c \in Clients
               PROVE  LET g == granted[w][c]
                          d == Span[w] - (IF w = "write" THEN Slack ELSE 0)
                      IN  \A i \in DOMAIN g :
                              Cardinality({j \in DOMAIN g :
                                              g[i] <= g[j] /\ g[j] < g[i] + d})
                                  <= Limit[w]
    BY DEF WindowHolds
  <2>1. Bounded(w, granted[w][c])
    BY DEF LimiterInv
  <2> QED
    BY <2>1 DEF Bounded, Within, Wait
<1>2. QED
  BY <1>1, InitLimiterInv, NextLimiterInv, PTL DEF SpecLimiter

\* Every refusal says the truth.
RefusalInv ==
    \A w \in Windows, c \in Clients :
        Explained(w, refusal[w][c], bucket[w][c], granted[w][c])

\* A check leaves a refusal true, or gives one that is.
LEMMA ChecksExplain ==
    ASSUME LimiterInv, Slack < Span["write"], NEW w \in Windows, NEW c \in Clients,
           NEW now, Checks(w, c, now),
           Explained(w, refusal[w][c], bucket[w][c], granted[w][c])
    PROVE  Explained(w, refusal'[w][c], bucket'[w][c], granted'[w][c])
<1> DEFINE b == PrunedList(w, c, now)
           g == granted[w][c]
           f == refusal[w][c]
<1>1. /\ now \in 0..clock /\ clock \in Nat /\ clock <= now + Wait(w)
      /\ g \in Seq(Nat) /\ f \in Refusals
      /\ Keeps(w, bucket[w][c], g, clock)
  BY LimiterAssumption DEF LimiterInv, Shapes, Checks
<1>2. /\ Keeps(w, b, g, clock)
      /\ \A n \in DOMAIN b : b[n] + Span[w] > now
  BY <1>1, PrunedKeeps
<1>3. Explained(w, f, b, g)
  <2>1. Explained(w, f, Live(w, bucket[w][c], now), g)
    BY <1>1, DroppingExplained, Zenon
  <2> QED
    BY <2>1 DEF PrunedList
<1>4. CASE Drops(w, c, now)
  BY <1>3, <1>4 DEF Drops
<1>5. CASE Grants(w, c, now)
  <2>1. granted'[w][c] = Append(g, now) /\ refusal'[w][c] = f
    BY <1>5 DEF Grants
  <2> HIDE DEF g, f
  <2>2. Len(Append(g, now)) = Len(g) + 1 /\ Len(g) \in Nat
    BY <1>1
  <2>3. f.after \in Nat
    BY <1>1 DEF Refusals
  <2>4. f # NoRefusal => f.reason /\ f.after <= Len(g)
    BY <1>3 DEF Explained
  <2> QED
    BY <2>1, <2>2, <2>3, <2>4 DEF Explained
<1>6. CASE Refuses(w, c, now)
  <2> DEFINE r == refusal'[w][c]
  <2>1. /\ ~Admits(w, b) /\ bucket'[w][c] = b /\ granted'[w][c] = g
        /\ r.until = now + RetryAfter(w, b, now) /\ r.after = Len(g)
        /\ r.reason = (Recent(w, c, now, Span[w]) >= Limit[w])
    BY <1>6 DEF Refuses
  <2>2. clock < now + Span[w]
    <3>1. Span[w] \in Nat \ {0} /\ Slack \in Nat
      BY LimiterAssumption
    <3> QED
      BY <1>1, <3>1 DEF Wait
  <2> HIDE DEF b, r
  <2>3. Cardinality({i \in DOMAIN g : g[i] + Span[w] > now /\ g[i] < now + Span[w]})
            >= Limit[w]
    BY <1>1, <1>2, <2>1, <2>2, FullIsRecent
  <2>4. Recent(w, c, now, Span[w]) >= Limit[w]
    BY <2>3 DEF Recent
  <2> HIDE DEF g
  <2>5. r.reason
    BY <2>1, <2>4
  <2>6. Explained(w, r, b, g)
    BY <1>1, <1>2, <2>1, <2>2, <2>5, RefusalExplained
  <2> QED
    BY <2>1, <2>6 DEF r
<1> QED
  BY <1>4, <1>5, <1>6 DEF Checks

\* At first nobody was refused.
LEMMA InitRefusalInv == InitLimiter => RefusalInv
  BY DEF InitLimiter, RefusalInv, Explained

\* Every step leaves refusals true.
LEMMA NextRefusalInv ==
    ASSUME Slack < Span["write"]
    PROVE  LimiterInv /\ RefusalInv /\ [NextLimiter]_limiterVars => RefusalInv'
<1> SUFFICES ASSUME LimiterInv, RefusalInv, [NextLimiter]_limiterVars PROVE RefusalInv'
  OBVIOUS
<1>1. CASE UNCHANGED <<bucket, granted, refusal>>
  BY <1>1 DEF RefusalInv
<1>2. CASE \A w \in Windows, c \in Clients : \E now : Checks(w, c, now)
  BY <1>2, ChecksExplain DEF RefusalInv
<1>3. ASSUME NEW c \in Clients, CheckCopilot(c) PROVE RefusalInv'
  BY <1>2, <1>3, CopilotChecks
<1>4. ASSUME NEW k \in Writers, Decide(k) PROVE RefusalInv'
  BY <1>2, <1>4, DecideChecks
<1> QED
  BY <1>1, <1>3, <1>4
     DEF NextLimiter, NextCopilotLimiter, NextWriteLimiter, ReadClock, Tick, limiterVars

\* What a true refusal promises.
LEMMA RefusalsPromise == LimiterInv /\ RefusalInv => RefusalHasCause
<1> SUFFICES ASSUME LimiterInv, RefusalInv, NEW w \in Windows, NEW c \in Clients,
                    refusal[w][c] # NoRefusal
             PROVE  LET last == refusal[w][c]
                    IN  /\ last.reason
                        /\ Limit[w] > 0 /\ clock >= last.until
                              /\ Len(granted[w][c]) = last.after
                              => Admits(w, Live(w, bucket[w][c], clock))
  BY DEF RefusalHasCause
<1> DEFINE f == refusal[w][c]
           b == bucket[w][c]
           L == Live(w, b, clock)
<1>1. f.reason
  BY DEF RefusalInv, Explained
<1>2. ASSUME Limit[w] > 0, clock >= f.until, Len(granted[w][c]) = f.after
      PROVE  Admits(w, L)
  <2>1. PICK n \in Nat : /\ n \in DOMAIN b => b[n] + Span[w] <= f.until
                         /\ Cardinality(DOMAIN b \ {n}) < Limit[w]
    BY <1>2 DEF RefusalInv, Explained
  <2>2. /\ clock \in Nat /\ granted[w][c] \in Seq(Nat)
        /\ Keeps(w, b, granted[w][c], clock) /\ f.until \in Nat
    BY LimiterAssumption DEF LimiterInv, Shapes, Refusals
  <2>3. \A m \in DOMAIN b : b[m] \in Nat
    BY <2>2 DEF Keeps
  <2>4. /\ DOMAIN L = {m \in DOMAIN b : b[m] + Span[w] > clock}
    BY DEF Live, Restrict
  <2>5. DOMAIN L \subseteq DOMAIN b \ {n}
    BY <1>2, <2>1, <2>2, <2>3, <2>4, LimiterAssumption
  <2>6. IsFiniteSet(DOMAIN b \ {n})
    <3>1. Len(granted[w][c]) \in Nat /\ DOMAIN b \ {n} \subseteq 1..Len(granted[w][c])
      BY <2>2 DEF Keeps
    <3> QED
      BY <3>1, NumbersFinite
  <2> HIDE DEF L
  <2>7. /\ Cardinality(DOMAIN L) <= Cardinality(DOMAIN b \ {n})
        /\ Cardinality(DOMAIN L) \in Nat /\ Cardinality(DOMAIN b \ {n}) \in Nat
    BY <2>5, <2>6, FS_Subset, FS_CardinalityType
  <2> QED
    BY <2>1, <2>7, LimiterAssumption DEF Admits
<1> QED
  BY <1>1, <1>2

\* A client is refused only for requests that were answered, and gets through after
\* the time the refusal names, if a check waits for the lock less than a window.
THEOREM RefusalsHaveCauses ==
    ASSUME Slack < Span["write"]
    PROVE  SpecLimiter => []RefusalHasCause
<1>1. LimiterInv /\ RefusalInv /\ [NextLimiter]_limiterVars => RefusalInv'
  BY NextRefusalInv
<1>2. QED
  BY <1>1, InitLimiterInv, NextLimiterInv, InitRefusalInv, RefusalsPromise,
     PTL DEF SpecLimiter
=============================================================================
