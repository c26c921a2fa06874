------------------------- MODULE AdminSessionsProofs -------------------------
(* Proofs about the admin's sessions, for any number of browsers, tabs,      *)
(* requests and tokens, and whatever is lost, reloaded, failed or expired.   *)
EXTENDS AdminSessions, TLAPS

Held == {"rotating", "expiring", "replayed", "revoking"}

\* What requests name was issued.
Named ==
    \A r \in Requests : /\ req[r].reply \in Issued \cup {NoToken}
                        /\ req[r].token \in Issued \cup {NoToken}

\* A row nobody has written yet is of a login of its own, a written one of a
\* login made before.
Logins ==
    /\ \A k \in Tokens \ Issued : row[k].login = k
    /\ \A k \in Issued : row[k].login \in Issued

\* One transaction at a time holds a row, and what is being rotated is active.
Locks ==
    /\ \A q, r \in Requests :
          req[q].pc \in Held /\ req[r].pc \in Held /\ req[q].token = req[r].token
              => q = r
    /\ \A r \in Requests : req[r].pc = "rotating" => req[r].token \in Active

Inv == TypeOK /\ Named /\ Logins /\ Locks /\ OneLiveTokenPerLogin

-----------------------------------------------------------------------------
\* At the start nothing is issued and nothing is under way.
LEMMA InitInv == Init => Inv
<1> SUFFICES ASSUME Init PROVE Inv
  OBVIOUS
<1>1. Issued = {} /\ Active = {}
  BY DEF Init, Issued, Active
<1>2. Idle \in Request /\ Idle.pc = "idle" /\ Idle.reply = NoToken
      /\ Idle.token = NoToken
  BY DEF Idle, Request, NoToken
<1>3. TypeOK
  BY <1>1, <1>2, SessionsAssumption DEF Init, TypeOK, Row, Tokens
<1>4. Named /\ Logins /\ Locks /\ OneLiveTokenPerLogin
  BY <1>1, <1>2 DEF Init, Named, Logins, Locks, OneLiveTokenPerLogin, Held
<1>5. QED
  BY <1>3, <1>4 DEF Inv

\* A request stays as it was for the database, or holds no row.
Calm(r) ==
    \/ /\ req'[r].pc = req[r].pc
       /\ req'[r].token = req[r].token
    \/ req'[r].pc \in {"idle", "sent", "done"}

\* A step that writes no row and takes no lock keeps the invariant.
LEMMA CalmKeepsInv ==
    ASSUME Inv, TypeOK', Named', UNCHANGED <<row, issued>>,
           \A r \in Requests : Calm(r)
    PROVE  Inv'
<1>1. Issued' = Issued /\ Active' = Active
  BY DEF Issued, Active
<1>2. Logins' /\ OneLiveTokenPerLogin'
  BY <1>1 DEF Inv, Logins, OneLiveTokenPerLogin
<1>3. Locks'
  BY <1>1 DEF Inv, Locks, Calm, Held
<1>4. QED
  BY <1>2, <1>3 DEF Inv

\* Sending a request keeps the requests well formed and their tokens issued.
LEMMA SendKeeps ==
    ASSUME Inv, NEW t \in Tabs, NEW r \in Requests,
           NEW op \in {"login", "refresh", "logout"}, Send(t, r, op),
           UNCHANGED <<row, issued>>
    PROVE  /\ req' \in [Requests -> Request]
           /\ Named'
           /\ \A q \in Requests : Calm(q)
<1>1. cookie[BrowserOf[t]] \in Issued \cup {NoToken}
  BY SessionsAssumption DEF Inv, TypeOK
<1>2. Issued \subseteq Tokens /\ Issued' = Issued
  BY SessionsAssumption DEF Inv, TypeOK, Issued, Tokens
<1> DEFINE k == IF op = "login" THEN NoToken ELSE cookie[BrowserOf[t]]
           x == [Idle EXCEPT !.pc = "sent", !.op = op, !.tab = t,
                             !.heard = TRUE, !.token = k]
<1>a. k \in Issued \cup {NoToken}
  BY <1>1
<1>b. k \in Tokens \cup {NoToken}
  BY <1>2, <1>a
<1> HIDE DEF k
<1>3. x \in Request /\ x.pc = "sent" /\ x.reply = NoToken
      /\ x.token \in Issued \cup {NoToken}
  BY <1>a, <1>b DEF Idle, Request, NoToken
<1>4. req' = [req EXCEPT ![r] = x]
  BY DEF Send, k
<1>5. req' \in [Requests -> Request]
  BY <1>3, <1>4 DEF Inv, TypeOK
<1>6. req'[r] = x /\ \A q \in Requests \ {r} : req'[q] = req[q]
  BY <1>4 DEF Inv, TypeOK
<1>7. QED
  BY <1>2, <1>3, <1>5, <1>6 DEF Inv, Named, Calm

\* A reply keeps the requests well formed and their tokens issued, and lets go
\* of the row the request held.
LEMMA ReplyKeeps ==
    ASSUME Inv, NEW r \in Requests, NEW k \in Issued' \cup {NoToken},
           NEW ok \in BOOLEAN, Reply(r, k, ok),
           Issued \subseteq Issued', Issued' \subseteq Tokens
    PROVE  /\ req' \in [Requests -> Request]
           /\ Named'
           /\ req'[r].pc \in {"idle", "done"}
           /\ \A q \in Requests \ {r} : req'[q] = req[q]
<1>1. req[r] \in Request
  BY DEF Inv, TypeOK
<1> DEFINE x == IF req[r].heard THEN [req[r] EXCEPT !.pc = "done", !.reply = k,
                                             !.ok = ok, !.doomed = {}]
                                ELSE Idle
<1>2. req' = [req EXCEPT ![r] = x]
  BY DEF Reply
<1>3. /\ x \in Request
      /\ x.pc \in {"idle", "done"}
      /\ x.reply \in Issued' \cup {NoToken}
      /\ x.token \in {req[r].token, NoToken}
  BY <1>1 DEF Idle, Request, NoToken
<1>4. req'[r] = x /\ \A q \in Requests \ {r} : req'[q] = req[q]
  BY <1>2 DEF Inv, TypeOK
<1>5. req' \in [Requests -> Request]
  BY <1>2, <1>3 DEF Inv, TypeOK
<1>6. QED
  BY <1>3, <1>4, <1>5 DEF Inv, Named

\* What a tab does when its request ends keeps the tabs well formed.
LEMMA SettleType ==
    ASSUME TypeOK, NEW t, NEW op, NEW ok \in BOOLEAN, Settle(t, op, ok)
    PROVE  /\ access' \in [Tabs -> BOOLEAN]
           /\ page' \in [Tabs -> {"boot", "gate", "dashboard"}]
  BY DEF TypeOK, Settle

\* Requests nobody waits for stay well formed and hold what they held.
LEMMA UnheardKeeps ==
    ASSUME Inv, NEW R \in SUBSET Requests, Unheard(R), UNCHANGED issued
    PROVE  /\ req' \in [Requests -> Request]
           /\ excused' \subseteq Tokens \cup {NoToken}
           /\ Named'
           /\ \A q \in Requests : Calm(q)
<1>1. \A q \in Requests : req[q] \in Request
  BY DEF Inv, TypeOK
<1>2. \A q \in Requests : [req[q] EXCEPT !.heard = FALSE] \in Request
  BY <1>1 DEF Request
<1>3. /\ Idle \in Request
      /\ Idle.pc = "idle" /\ Idle.reply = NoToken /\ Idle.token = NoToken
  BY DEF Idle, Request, NoToken
<1>4. \A q \in Requests : /\ [req[q] EXCEPT !.heard = FALSE].pc = req[q].pc
                          /\ [req[q] EXCEPT !.heard = FALSE].token = req[q].token
                          /\ [req[q] EXCEPT !.heard = FALSE].reply = req[q].reply
  BY <1>1 DEF Request
<1>5. req' \in [Requests -> Request]
  BY <1>1, <1>2, <1>3 DEF Unheard
<1>6. Named' /\ \A q \in Requests : Calm(q)
  BY <1>3, <1>4 DEF Unheard, Calm, Inv, Named, Issued
<1>7. excused' \subseteq Tokens \cup {NoToken}
  <2>1. Issued \subseteq Tokens
    BY SessionsAssumption DEF Inv, TypeOK, Issued, Tokens
  <2>2. QED
    BY <2>1 DEF Unheard, Inv, TypeOK, Named
<1>8. QED
  BY <1>5, <1>6, <1>7

\* A transaction that commits for r and revokes rows no other one holds, or
\* expires a row, keeps the invariant.
LEMMA RevokeKeepsInv ==
    ASSUME Inv, TypeOK', Named', UNCHANGED issued,
           \A q \in Requests : Calm(q),
           \A k \in Tokens : row'[k].login = row[k].login,
           \A k \in Tokens :
               row'[k].status = "revoked" =>
                   \/ row[k].status = "revoked"
                   \/ \A q \in Requests : req'[q].pc \in Held => req'[q].token # k,
           \A k \in Tokens : row[k].status = "revoked" => row'[k].status = "revoked"
    PROVE  Inv'
<1>1. Issued' = Issued /\ Issued \subseteq Tokens
  BY SessionsAssumption DEF Issued, Inv, TypeOK, Tokens
<1>2. Logins'
  BY <1>1 DEF Inv, Logins
<1>3. Active' \subseteq Active
  BY <1>1 DEF Active
<1>4. OneLiveTokenPerLogin'
  BY <1>1, <1>3 DEF Inv, OneLiveTokenPerLogin, Active
<1>5. \A r \in Requests : req'[r].pc = "rotating" => req'[r].token \in Active'
  <2> SUFFICES ASSUME NEW r \in Requests, req'[r].pc = "rotating"
               PROVE  req'[r].token \in Active'
    OBVIOUS
  <2>1. req'[r].token = req[r].token /\ req[r].pc = "rotating"
    BY DEF Calm
  <2>2. req[r].token \in Active
    BY <2>1 DEF Inv, Locks
  <2>3. QED
    BY <1>1, <2>1, <2>2 DEF Active, Held
<1>6. Locks'
  BY <1>5 DEF Inv, Locks, Calm, Held
<1>7. QED
  BY <1>2, <1>4, <1>6 DEF Inv

\* A step keeps the invariant: one step of the proof per action.
LEMMA NextInv == Inv /\ [Next]_vars => Inv'
<1> SUFFICES ASSUME Inv, [Next]_vars PROVE Inv'
  OBVIOUS
<1>t. Issued \subseteq Tokens /\ NoToken \notin Issued
      /\ req \in [Requests -> Request]
  BY SessionsAssumption DEF Inv, TypeOK, Issued, Tokens, NoToken
<1>n. issued \in Nat /\ MaxTokens \in Nat /\ issued \in 0..MaxTokens
  BY SessionsAssumption DEF Inv, TypeOK
<1>i. /\ Idle \in Request
      /\ Idle.pc = "idle" /\ Idle.reply = NoToken /\ Idle.token = NoToken
  BY DEF Idle, Request, NoToken
<1>1. ASSUME NEW t \in Tabs, NEW r \in Requests,
             Login(t, r) \/ Refresh(t, r) \/ Logout(t, r)
      PROVE  Inv'
  <2>1. \E op \in {"login", "refresh", "logout"} : Send(t, r, op)
    BY <1>1 DEF Login, Refresh, Logout
  <2>2. UNCHANGED <<row, issued, cookie, access, page>>
    BY <1>1 DEF Login, Refresh, Logout
  <2>3. /\ req' \in [Requests -> Request]
        /\ Named'
        /\ \A q \in Requests : Calm(q)
    BY <2>1, <2>2, SendKeeps
  <2>4. excused' \subseteq Tokens \cup {NoToken}
    BY <1>t, <1>1, SessionsAssumption DEF Login, Refresh, Logout, Inv, TypeOK
  <2>5. TypeOK'
    BY <2>2, <2>3, <2>4 DEF Inv, TypeOK, Issued
  <2>6. QED
    BY <2>2, <2>3, <2>5, CalmKeepsInv
<1>2. ASSUME NEW t \in Tabs, Reload(t)
      PROVE  Inv'
  <2>1. PICK R \in SUBSET Requests : Unheard(R)
    BY <1>2 DEF Reload
  <2>2. UNCHANGED <<row, issued, cookie, access>>
    BY <1>2 DEF Reload
  <2>3. page' \in [Tabs -> {"boot", "gate", "dashboard"}]
    BY <1>2 DEF Reload, Inv, TypeOK
  <2>4. /\ req' \in [Requests -> Request]
        /\ excused' \subseteq Tokens \cup {NoToken}
        /\ Named'
        /\ \A q \in Requests : Calm(q)
    BY <2>1, <2>2, UnheardKeeps
  <2>5. TypeOK'
    BY <2>2, <2>3, <2>4 DEF Inv, TypeOK, Issued
  <2>6. QED
    BY <2>2, <2>4, <2>5, CalmKeepsInv
<1>3. ASSUME NEW r \in Requests, LoseReply(r)
      PROVE  Inv'
  <2>1. Unheard({r}) /\ UNCHANGED <<row, issued, cookie>>
        /\ Settle(req[r].tab, req[r].op, FALSE)
    BY <1>3 DEF LoseReply
  <2>2. /\ req' \in [Requests -> Request]
        /\ excused' \subseteq Tokens \cup {NoToken}
        /\ Named'
        /\ \A q \in Requests : Calm(q)
    BY <2>1, UnheardKeeps
  <2>3. /\ access' \in [Tabs -> BOOLEAN]
        /\ page' \in [Tabs -> {"boot", "gate", "dashboard"}]
    BY <2>1, SettleType DEF Inv
  <2>4. TypeOK'
    BY <2>1, <2>2, <2>3 DEF Inv, TypeOK, Issued
  <2>5. QED
    BY <2>1, <2>2, <2>4, CalmKeepsInv
<1>4. ASSUME NEW r \in Requests, Receive(r)
      PROVE  Inv'
  <2>1. /\ UNCHANGED <<row, issued, excused>>
        /\ req' = [req EXCEPT ![r] = Idle]
        /\ Settle(req[r].tab, req[r].op, req[r].ok)
    BY <1>4 DEF Receive
  <2>2. req[r].ok \in BOOLEAN /\ req[r].reply \in Issued \cup {NoToken}
    BY <1>t DEF Request, Inv, Named
  <2>3. cookie' \in [Browsers -> Issued \cup {NoToken}]
    BY <1>4, <2>2 DEF Receive, Inv, TypeOK
  <2>4. /\ access' \in [Tabs -> BOOLEAN]
        /\ page' \in [Tabs -> {"boot", "gate", "dashboard"}]
    BY <2>1, <2>2, SettleType DEF Inv
  <2>5. /\ req' \in [Requests -> Request]
        /\ Named'
        /\ \A q \in Requests : Calm(q)
    BY <1>i, <2>1 DEF Inv, TypeOK, Named, Calm, Issued
  <2>6. TypeOK'
    BY <2>1, <2>3, <2>4, <2>5 DEF Inv, TypeOK, Issued
  <2>7. QED
    BY <2>1, <2>5, <2>6, CalmKeepsInv
<1>5. ASSUME NEW b \in Browsers, CookieExpires(b)
      PROVE  Inv'
  <2>1. TypeOK' /\ Named' /\ \A q \in Requests : Calm(q)
    BY <1>5 DEF CookieExpires, Inv, TypeOK, Named, Calm, Issued
  <2>2. QED
    BY <1>5, <2>1, CalmKeepsInv DEF CookieExpires
<1>6. ASSUME NEW r \in Requests, NoCookie(r) \/ RequestFails(r)
      PROVE  Inv'
  <2>1. UNCHANGED <<row, issued, cookie, access, page, excused>>
    BY <1>6 DEF NoCookie, RequestFails
  <2>2. \E ok \in BOOLEAN : Reply(r, NoToken, ok)
    BY <1>6 DEF NoCookie, RequestFails
  <2>3. Issued' = Issued
    BY <2>1 DEF Issued
  <2>4. /\ req' \in [Requests -> Request]
        /\ Named'
        /\ \A q \in Requests : Calm(q)
    BY <1>t, <2>2, <2>3, ReplyKeeps DEF Calm
  <2>5. TypeOK'
    BY <2>1, <2>3, <2>4 DEF Inv, TypeOK
  <2>6. QED
    BY <2>1, <2>4, <2>5, CalmKeepsInv
<1>7. ASSUME NEW r \in Requests, ReadToken(r)
      PROVE  Inv'
  <2> DEFINE k == req[r].token
             pc == IF row[k].status = "revoked" THEN "replayed"
                   ELSE IF row[k].status = "expired" THEN "expiring"
                   ELSE "rotating"
  <2>1. /\ req' = [req EXCEPT ![r].pc = pc]
        /\ UNCHANGED <<row, issued, cookie, access, page, excused>>
        /\ k \in Issued
        /\ LockHolder(k) = {}
    BY <1>7 DEF ReadToken, Inv, Named
  <2>2. /\ req'[r].pc = pc /\ req'[r].token = k /\ req'[r].reply = req[r].reply
        /\ req'[r] \in Request
        /\ \A q \in Requests \ {r} : req'[q] = req[q]
    BY <1>t, <2>1 DEF Request
  <2>3. req' \in [Requests -> Request]
    BY <2>1, <2>2 DEF Inv, TypeOK
  <2>4. TypeOK' /\ Named' /\ Logins' /\ OneLiveTokenPerLogin'
    BY <2>1, <2>2, <2>3 DEF Inv, TypeOK, Named, Logins, OneLiveTokenPerLogin,
                            Issued, Active
  <2>5. \A q \in Requests \ {r} : ~(req[q].pc \in Held /\ req[q].token = k)
    BY <2>1 DEF LockHolder, Held
  <2>6. pc = "rotating" => k \in Active
    BY <2>1 DEF Active
  <2>7. Active' = Active
    BY <2>1 DEF Active, Issued
  <2>8. Locks'
    BY <2>2, <2>5, <2>6, <2>7 DEF Inv, Locks
  <2>9. QED
    BY <2>4, <2>8 DEF Inv
<1>8. ASSUME NEW r \in Requests, StartRevokeAll(r)
      PROVE  Inv'
  <2>1. /\ req' = [req EXCEPT ![r].pc = "revoking", ![r].doomed = Active]
        /\ UNCHANGED <<row, issued, cookie, access, page, excused>>
        /\ req[r].pc = "replayed"
    BY <1>8 DEF StartRevokeAll
  <2>2. Active \subseteq Tokens
    BY <1>t DEF Active
  <2>3. /\ req'[r].pc = "revoking" /\ req'[r].token = req[r].token
        /\ req'[r].reply = req[r].reply
        /\ req'[r] \in Request
        /\ \A q \in Requests \ {r} : req'[q] = req[q]
    BY <1>t, <2>1, <2>2 DEF Request
  <2>4. req' \in [Requests -> Request]
    BY <2>1, <2>3 DEF Inv, TypeOK
  <2>5. Active' = Active
    BY <2>1 DEF Active, Issued
  <2>6. TypeOK' /\ Named' /\ Logins' /\ OneLiveTokenPerLogin'
    BY <2>1, <2>3, <2>4, <2>5 DEF Inv, TypeOK, Named, Logins,
                                  OneLiveTokenPerLogin, Issued
  <2>7. Locks'
    <3>1. \A q \in Requests : /\ req'[q].pc \in Held <=> req[q].pc \in Held
                              /\ req'[q].token = req[q].token
                              /\ req'[q].pc = "rotating" => req[q].pc = "rotating"
      BY <2>1, <2>3 DEF Held
    <3>2. \A q, p \in Requests :
             req[q].pc \in Held /\ req[p].pc \in Held /\ req[q].token = req[p].token
                 => q = p
      BY DEF Inv, Locks
    <3>3. \A q, p \in Requests :
             req'[q].pc \in Held /\ req'[p].pc \in Held
             /\ req'[q].token = req'[p].token => q = p
      BY <3>1, <3>2
    <3>4. \A q \in Requests : req'[q].pc = "rotating" => req'[q].token \in Active'
      BY <2>5, <3>1 DEF Inv, Locks
    <3>5. QED
      BY <3>3, <3>4 DEF Locks, Held
  <2>8. QED
    BY <2>6, <2>7 DEF Inv
<1>9. ASSUME NEW r \in Requests, RevokeExpired(r) \/ RevokePresented(r)
      PROVE  Inv'
  <2> DEFINE k == req[r].token
  <2>1. /\ row' = [row EXCEPT ![k].status = "revoked"]
        /\ \E ok \in BOOLEAN : Reply(r, NoToken, ok)
        /\ UNCHANGED <<issued, cookie, access, page>>
        /\ excused' \subseteq excused \cup {k}
    BY <1>9 DEF RevokeExpired, RevokePresented
  <2>2. Issued' = Issued /\ k \in Issued \cup {NoToken}
    BY <2>1 DEF Issued, Inv, Named
  <2>3. /\ req' \in [Requests -> Request]
        /\ Named'
        /\ req'[r].pc \in {"idle", "done"}
        /\ \A q \in Requests \ {r} : req'[q] = req[q]
    BY <1>t, <2>1, <2>2, ReplyKeeps
  <2>4. \A q \in Requests \ {r} : ~(req[q].pc \in Held /\ req[q].token = k)
    BY <1>9 DEF RevokeExpired, RevokePresented, LockHolder, Held, Inv, Locks
  <2>5. /\ \A j \in Tokens \ {k} : row'[j] = row[j]
        /\ \A j \in Tokens : row'[j].login = row[j].login
        /\ k \in Tokens => row'[k].status = "revoked"
        /\ row' \in [Tokens -> Row]
    <3>1. row \in [Tokens -> Row]
      BY DEF Inv, TypeOK
    <3>2. row' = [row EXCEPT ![k].status = "revoked"]
      BY <2>1
    <3> HIDE DEF k
    <3>3. \A j \in Tokens : row[j] \in Row
      BY <3>1
    <3>4. row' = [j \in Tokens |-> IF j = k THEN [row[j] EXCEPT !.status = "revoked"]
                                  ELSE row[j]]
      BY <3>1, <3>2
    <3>5. \A j \in Tokens : [row[j] EXCEPT !.status = "revoked"] =
                              [login |-> row[j].login, status |-> "revoked"]
      BY <3>3 DEF Row
    <3>6. QED
      BY <3>3, <3>4, <3>5 DEF Row
  <2>6. TypeOK'
    BY <2>1, <2>2, <2>3, <2>5 DEF Inv, TypeOK
  <2>7. QED
    BY <2>1, <2>3, <2>4, <2>5, <2>6, RevokeKeepsInv DEF Calm, Held
<1>10. ASSUME NEW r \in Requests, FinishRevokeAll(r)
       PROVE  Inv'
  <2>1. /\ row' = [k \in Tokens |-> IF k \in req[r].doomed
                                    THEN [row[k] EXCEPT !.status = "revoked"]
                                    ELSE row[k]]
        /\ Reply(r, NoToken, FALSE)
        /\ UNCHANGED <<issued, cookie, access, page>>
        /\ excused' = excused \cup req[r].doomed
        /\ \A k \in req[r].doomed : LockHolder(k) \subseteq {r}
    BY <1>10 DEF FinishRevokeAll
  <2>2. Issued' = Issued
    BY <2>1 DEF Issued
  <2>3. /\ req' \in [Requests -> Request]
        /\ Named'
        /\ req'[r].pc \in {"idle", "done"}
        /\ \A q \in Requests \ {r} : req'[q] = req[q]
    BY <1>t, <2>1, <2>2, ReplyKeeps
  <2>4. /\ \A k \in Tokens : row'[k].login = row[k].login
        /\ \A k \in Tokens \ req[r].doomed : row'[k] = row[k]
        /\ \A k \in Tokens \cap req[r].doomed : row'[k].status = "revoked"
        /\ row' \in [Tokens -> Row]
    BY <2>1 DEF Inv, TypeOK, Row
  <2>5. excused' \subseteq Tokens \cup {NoToken}
    BY <1>t, <2>1 DEF Request, Inv, TypeOK
  <2>6. TypeOK'
    BY <2>1, <2>2, <2>3, <2>4, <2>5 DEF Inv, TypeOK
  <2>7. \A k \in req[r].doomed, q \in Requests \ {r} :
            ~(req[q].pc \in Held /\ req[q].token = k)
    BY <2>1 DEF LockHolder, Held
  <2>8. QED
    BY <2>1, <2>3, <2>4, <2>6, <2>7, RevokeKeepsInv DEF Calm, Held
<1>11. ASSUME NEW k \in Issued, TokenExpires(k)
       PROVE  Inv'
  <2>1. /\ row' = [row EXCEPT ![k].status = "expired"]
        /\ row[k].status = "good"
        /\ UNCHANGED <<issued, req, cookie, access, page, excused>>
    BY <1>11 DEF TokenExpires
  <2>2. /\ \A j \in Tokens : row'[j].login = row[j].login
        /\ \A j \in Tokens : row'[j].status = "revoked" <=> row[j].status = "revoked"
        /\ row' \in [Tokens -> Row]
    BY <1>t, <2>1 DEF Inv, TypeOK, Row
  <2>3. TypeOK' /\ Named' /\ \A q \in Requests : Calm(q)
    BY <2>1, <2>2 DEF Inv, TypeOK, Named, Calm, Issued
  <2>4. QED
    BY <2>1, <2>2, <2>3, RevokeKeepsInv
<1>12. ASSUME NEW r \in Requests, InsertLogin(r)
       PROVE  Inv'
  <2> DEFINE n == issued + 1
  <2>1. /\ issued' = n /\ n \in Tokens
        /\ Reply(r, n, TRUE)
        /\ UNCHANGED <<row, cookie, access, page, excused>>
    <3>1. issued' = n /\ n \in Tokens
      BY <1>n, <1>12 DEF InsertLogin, Tokens
    <3>2. QED
      BY <3>1, <1>12 DEF InsertLogin
  <2>2. /\ Issued' = Issued \cup {n} /\ n \notin Issued
        /\ Issued' \subseteq Tokens /\ issued' \in 0..MaxTokens
    BY <2>1, SessionsAssumption DEF Issued, Inv, TypeOK, Tokens
  <2>3. /\ req' \in [Requests -> Request]
        /\ Named'
        /\ req'[r].pc \in {"idle", "done"}
        /\ \A q \in Requests \ {r} : req'[q] = req[q]
    BY <2>1, <2>2, ReplyKeeps
  <2>4. TypeOK'
    BY <2>1, <2>2, <2>3 DEF Inv, TypeOK
  <2>5. row[n].login = n
    BY <2>1, <2>2 DEF Inv, Logins
  <2>6. Logins'
    BY <2>1, <2>2, <2>5 DEF Inv, Logins
  <2>7. Active \subseteq Active' /\ Active' \subseteq Active \cup {n}
    BY <2>1, <2>2 DEF Active
  <2>8. OneLiveTokenPerLogin'
    BY <2>1, <2>2, <2>5, <2>7 DEF Inv, Logins, OneLiveTokenPerLogin, Active
  <2>9. Locks'
    BY <2>3, <2>7 DEF Inv, Locks, Held
  <2>10. QED
    BY <2>3, <2>4, <2>6, <2>8, <2>9 DEF Inv
<1>13. ASSUME NEW r \in Requests, Rotate(r)
       PROVE  Inv'
  <2> DEFINE n == issued + 1
             k == req[r].token
  <2>1. /\ issued' = n /\ n \in Tokens
        /\ row' = [row EXCEPT ![k].status = "revoked", ![n].login = row[k].login]
        /\ Reply(r, n, TRUE)
        /\ req[r].pc = "rotating"
        /\ UNCHANGED <<cookie, access, page, excused>>
    <3>1. issued' = n /\ n \in Tokens
      BY <1>n, <1>13 DEF Rotate, Tokens
    <3>2. QED
      BY <3>1, <1>13 DEF Rotate
  <2>2. /\ Issued' = Issued \cup {n} /\ n \notin Issued
        /\ Issued' \subseteq Tokens /\ issued' \in 0..MaxTokens
    BY <2>1, SessionsAssumption DEF Issued, Inv, TypeOK, Tokens
  <2>3. /\ req' \in [Requests -> Request]
        /\ Named'
        /\ req'[r].pc \in {"idle", "done"}
        /\ \A q \in Requests \ {r} : req'[q] = req[q]
    BY <2>1, <2>2, ReplyKeeps
  <2>4. k \in Active /\ k \in Issued /\ k \in Tokens
    BY <1>t, <2>1 DEF Inv, Locks, Active
  <2>5. /\ row' \in [Tokens -> Row]
        /\ row'[k].status = "revoked" /\ row'[k].login = row[k].login
        /\ row'[n].login = row[k].login
        /\ \A j \in Tokens \ {k, n} : row'[j] = row[j]
    <3>1. row[k].login \in Tokens
      BY <2>4 DEF Inv, TypeOK, Row
    <3>2. k # n
      BY <2>2, <2>4
    <3>3. QED
      BY <2>1, <2>4, <3>1, <3>2 DEF Inv, TypeOK, Row
  <2>6. TypeOK'
    BY <2>1, <2>2, <2>3, <2>5 DEF Inv, TypeOK
  <2>7. Logins'
    BY <2>2, <2>4, <2>5 DEF Inv, Logins
  <2>8. Active' \subseteq (Active \ {k}) \cup {n} /\ Active \ {k} \subseteq Active'
    BY <1>t, <2>2, <2>4, <2>5 DEF Active
  <2>9. \A j \in Active \ {k} : row'[j] = row[j] /\ row[j].login # row[k].login
    BY <1>t, <2>2, <2>4, <2>5 DEF Inv, OneLiveTokenPerLogin, Active
  <2>10. OneLiveTokenPerLogin'
    BY <2>5, <2>8, <2>9 DEF Inv, OneLiveTokenPerLogin
  <2>11. \A q \in Requests \ {r} : ~(req[q].pc \in Held /\ req[q].token = k)
    BY <2>1 DEF Inv, Locks, Held
  <2>12. Locks'
    BY <2>3, <2>8, <2>11 DEF Inv, Locks, Held
  <2>13. QED
    BY <2>3, <2>6, <2>7, <2>10, <2>12 DEF Inv
<1>14. CASE UNCHANGED vars
  BY <1>14 DEF vars, Inv, TypeOK, Named, Logins, Locks, OneLiveTokenPerLogin,
               Issued, Active
<1>15. QED
  BY <1>1, <1>2, <1>3, <1>4, <1>5, <1>6, <1>7, <1>8, <1>9, <1>10, <1>11, <1>12,
     <1>13, <1>14
  DEF Next, ServerStep, BrowserStep

\* Whatever the browsers do and whatever fails, every variable keeps its shape;
\* in particular a cookie only ever holds a token that was issued.
THEOREM SessionTypes == Spec => []TypeOK
<1>1. Inv => TypeOK
  BY DEF Inv
<1>2. QED
  BY <1>1, InitInv, NextInv, PTL DEF Spec

\* However many tabs, retries and devices present a token at the same time, of
\* the tokens one login led to at most one is good.
THEOREM RotationIsSingleUse == Spec => []OneLiveTokenPerLogin
<1>1. Inv => OneLiveTokenPerLogin
  BY DEF Inv
<1>2. QED
  BY <1>1, InitInv, NextInv, PTL DEF Spec
-----------------------------------------------------------------------------
(* The alarm.  Where tabs take turns, no step leaves a browser with a token  *)
(* that is revoked for no known reason.                                      *)

Of(r) == BrowserOf[req[r].tab]

\* A token may be presented, or is known to come back revoked.
Sound(k) == k \in excused \/ row[k].status # "revoked"

\* Only a request that has ended has a reply, and a tab that waits for it.
Shape ==
    \A r \in Requests :
        /\ req[r].pc = "idle" => req[r] = Idle
        /\ req[r].pc # "idle" => req[r].tab \in Tabs
        /\ req[r].pc # "done" => req[r].reply = NoToken
        /\ req[r].pc = "done" => req[r].heard
        /\ req[r].pc \in Held => req[r].op = "refresh"

\* A token is known in one browser only.
Owned ==
    /\ \A a, b \in Browsers :
          cookie[a] # NoToken /\ cookie[a] = cookie[b] => a = b
    /\ \A r \in Requests, b \in Browsers :
          req[r].token # NoToken /\ req[r].token = cookie[b] => Of(r) = b
    /\ \A q, r \in Requests :
          req[q].token # NoToken /\ req[q].token = req[r].token => Of(q) = Of(r)

\* The token of a reply is in that reply and nowhere else.
Fresh ==
    \A r \in Requests : req[r].reply # NoToken =>
        /\ \A b \in Browsers : cookie[b] # req[r].reply
        /\ \A q \in Requests : req[q].token # req[r].reply
        /\ \A q \in Requests \ {r} : req[q].reply # req[r].reply

OneRefresh ==
    \A b \in Locking : \A q, r \in Refreshing(b) : q = r

\* What is signed out, or refreshed by a tab that no longer waits.
Excuses ==
    \A r \in Requests :
        /\ req[r].token # NoToken
        /\ req[r].op # "login"
        /\ req[r].op = "refresh" => ~req[r].heard
        => req[r].token \in excused

RepliesSound ==
    /\ \A k \in Tokens \ Issued : Sound(k)
    /\ \A r \in Requests : req[r].reply # NoToken => Sound(req[r].reply)

SentSound ==
    \A r \in Requests :
        /\ req[r].pc = "sent"
        /\ req[r].op = "refresh"
        /\ req[r].token # NoToken
        /\ Of(r) \in Locking
        => Sound(req[r].token)

\* A cookie is sound, or its successor is on the way to a tab that waits.
CookieSound ==
    \A b \in Locking : cookie[b] # NoToken =>
        \/ Sound(cookie[b])
        \/ \E r \in Refreshing(b) : /\ req[r].token = cookie[b]
                                    /\ req[r].reply # NoToken

Turns == Shape /\ Owned /\ Fresh /\ OneRefresh /\ Excuses
Cause == RepliesSound /\ SentSound /\ CookieSound /\ AlarmHasCause

\* The tabs of a browser that wait for a refresh.
LEMMA RefreshingIs ==
    \A b, r :
        /\ r \in Refreshing(b) <=>
             /\ r \in Requests /\ req[r].pc # "idle" /\ req[r].heard
             /\ req[r].op = "refresh" /\ req[r].tab \in Tabs /\ Of(r) = b
        /\ (r \in Refreshing(b))' <=>
             /\ r \in Requests /\ req'[r].pc # "idle" /\ req'[r].heard
             /\ req'[r].op = "refresh" /\ req'[r].tab \in Tabs
             /\ BrowserOf[req'[r].tab] = b
<1>1. \A b, r :
        r \in Refreshing(b) <=>
             /\ r \in Requests /\ req[r].pc # "idle" /\ req[r].heard
             /\ req[r].op = "refresh" /\ req[r].tab \in Tabs /\ Of(r) = b
  BY DEF Refreshing, Waiting, Of
<1>2. \A b, r :
        (r \in Refreshing(b))' <=>
             /\ r \in Requests /\ req'[r].pc # "idle" /\ req'[r].heard
             /\ req'[r].op = "refresh" /\ req'[r].tab \in Tabs
             /\ BrowserOf[req'[r].tab] = b
  BY DEF Refreshing, Waiting
<1>3. QED
  BY <1>1, <1>2

\* At the start no browser has a token.
LEMMA InitCause == Init => Turns /\ Cause
<1> SUFFICES ASSUME Init PROVE Turns /\ Cause
  OBVIOUS
<1>1. /\ Idle.pc = "idle" /\ Idle.reply = NoToken /\ Idle.token = NoToken
      /\ \A r \in Requests : req[r] = Idle
      /\ \A b \in Browsers : cookie[b] = NoToken
      /\ \A k \in Tokens : row[k].status = "good"
  BY DEF Init, Idle, NoToken
<1>2. \A b : Refreshing(b) = {}
  BY <1>1, RefreshingIs
<1>3. Turns
  BY <1>1, <1>2 DEF Turns, Shape, Owned, Fresh, OneRefresh, Excuses, Held
<1>4. Cause
  BY <1>1, SessionsAssumption
  DEF Cause, RepliesSound, SentSound, CookieSound, AlarmHasCause, Sound
<1>5. QED
  BY <1>3, <1>4

\* What a step does to a request, unless it sends it or hears its reply: the
\* request ends, or goes on with the token it presented.
Follows(q) ==
    \/ /\ req'[q] = Idle
       /\ req[q].heard /\ req[q].op = "refresh" => req[q].token \in excused'
    \/ /\ req[q].pc # "idle" /\ req'[q].pc # "idle"
       /\ req'[q].op = req[q].op
       /\ req'[q].tab = req[q].tab
       /\ req'[q].token = req[q].token
       /\ req'[q].heard => req[q].heard
       /\ req[q].heard /\ req[q].op = "refresh" /\ ~req'[q].heard
              => req[q].token \in excused'
       /\ req'[q].reply # req[q].reply
              => req[q].reply = NoToken /\ req'[q].reply \in Tokens \ Issued
       /\ req'[q].pc = "done" => req'[q].heard
       /\ req'[q].pc # "done" => req'[q].reply = NoToken
       /\ req'[q].pc \in Held => req[q].op = "refresh"
       /\ req'[q].pc = "sent" => req[q].pc = "sent"
       /\ req'[q].pc = "replayed"
              => \/ req[q].pc = "replayed"
                 \/ /\ req[q].pc = "sent"
                    /\ req[q].token # NoToken
                    /\ row[req[q].token].status = "revoked"

\* A token this step revokes has an excuse, or the reply to the request that
\* rotated it holds its successor.
Revokes(k) ==
    \/ row[k].status = "revoked"
    \/ k \in excused'
    \/ \E r \in Requests :
          /\ req[r].pc = "rotating"
          /\ req[r].token = k
          /\ req[r].heard => req'[r].reply # NoToken

OneReply ==
    \A q, r \in Requests :
        req'[q].reply # req[q].reply /\ req'[r].reply # req[r].reply
            => q = r \/ req'[q].reply = NoToken \/ req'[r].reply = NoToken

\* Such a step keeps the turns and the causes.
LEMMA FollowsKeeps ==
    ASSUME Inv, Turns, Cause,
           UNCHANGED cookie, excused \subseteq excused', Issued \subseteq Issued',
           Issued' \subseteq Tokens,
           \A q \in Requests : Follows(q),
           \A k \in Tokens : row'[k].status = "revoked" => Revokes(k),
           OneReply
    PROVE  Turns' /\ Cause'
<1>i. /\ Idle.pc = "idle" /\ Idle.reply = NoToken /\ Idle.token = NoToken
  BY DEF Idle
<1>t. /\ Issued \subseteq Tokens /\ NoToken \notin Tokens
      /\ \A b \in Browsers : cookie[b] \in Issued \cup {NoToken}
      /\ \A r \in Requests : req[r].token \in Issued \cup {NoToken}
  BY SessionsAssumption DEF Inv, TypeOK, Named, Tokens, NoToken, Issued
<1>1. Shape'
  BY <1>i DEF Turns, Shape, Follows, Held
<1>2. \A q \in Requests : req'[q].token # NoToken =>
          /\ req'[q].token = req[q].token
          /\ req'[q].tab = req[q].tab
          /\ req'[q].op = req[q].op
  BY <1>i DEF Follows
<1>3. Owned'
  BY <1>2 DEF Turns, Owned, Of
<1>4. \A q \in Requests : req'[q].reply # NoToken =>
          \/ req'[q].reply = req[q].reply
          \/ req'[q].reply \in Tokens \ Issued
  BY <1>i DEF Follows
<1>5. \A r \in Requests : req[r].reply \in Issued \cup {NoToken}
  BY DEF Inv, Named
<1>6. Fresh'
  <2> SUFFICES ASSUME NEW r \in Requests, req'[r].reply # NoToken
               PROVE  /\ \A b \in Browsers : cookie[b] # req'[r].reply
                      /\ \A q \in Requests : req'[q].token # req'[r].reply
                      /\ \A q \in Requests \ {r} : req'[q].reply # req'[r].reply
    BY DEF Fresh
  <2>1. CASE req'[r].reply = req[r].reply
    BY <1>2, <1>4, <1>5, <2>1 DEF Turns, Fresh
  <2>2. CASE req'[r].reply # req[r].reply
    <3>1. req'[r].reply \in Tokens \ Issued
      BY <1>4, <2>2
    <3>2. \A q \in Requests \ {r} : req'[q].reply = req[q].reply
                                   \/ req'[q].reply = NoToken
      BY <2>2 DEF OneReply
    <3>3. QED
      BY <1>t, <1>2, <1>5, <3>1, <3>2
  <2>3. QED
    BY <2>1, <2>2
<1>7. \A r \in Requests : req'[r].pc # "idle" =>
          /\ req[r].pc # "idle"
          /\ req'[r].op = req[r].op
          /\ req'[r].tab = req[r].tab
          /\ req'[r].token = req[r].token
          /\ req'[r].heard => req[r].heard
  BY <1>i DEF Follows
<1>8. OneRefresh'
  <2>1. \A b, r : (r \in Refreshing(b))' => r \in Refreshing(b)
    BY <1>7, RefreshingIs DEF Of
  <2>2. QED
    BY <2>1 DEF Turns, OneRefresh
<1>9. Excuses'
  <2>1. \A q \in Requests : req'[q].token # NoToken =>
          ( /\ req[q].heard /\ req[q].op = "refresh" /\ ~req'[q].heard
               => req[q].token \in excused' )
    BY <1>i DEF Follows
  <2>2. QED
    BY <1>2, <2>1 DEF Turns, Excuses
<1>10. ASSUME NEW k \in Tokens, Sound(k), ~Sound(k)'
       PROVE  \E r \in Requests :
                 /\ req[r].token = k /\ req'[r].token = k
                 /\ req[r].pc = "rotating"
                 /\ req[r].op = "refresh" /\ req[r].heard
                 /\ req[r].tab \in Tabs
                 /\ r \in Refreshing(Of(r)) /\ (r \in Refreshing(Of(r)))' 
                 /\ req'[r].reply # NoToken
  <2>1. row'[k].status = "revoked" /\ k \notin excused' /\ k \notin excused
        /\ row[k].status # "revoked"
    BY <1>10 DEF Sound
  <2>2. PICK r \in Requests :
          /\ req[r].pc = "rotating"
          /\ req[r].token = k
          /\ req[r].heard => req'[r].reply # NoToken
    BY <2>1 DEF Revokes
  <2>3. req[r].op = "refresh" /\ req[r].tab \in Tabs
    BY <2>2 DEF Turns, Shape, Held
  <2>4. req[r].heard
    BY <1>t, <2>1, <2>2, <2>3 DEF Turns, Excuses
  <2>5. req'[r].reply # NoToken /\ req'[r].pc # "idle" /\ req'[r].heard
        /\ req'[r].token = k /\ req'[r].op = req[r].op /\ req'[r].tab = req[r].tab
    BY <1>i, <2>2, <2>4 DEF Follows
  <2>6. r \in Refreshing(Of(r))
    BY <2>2, <2>3, <2>4, RefreshingIs
  <2>7. (r \in Refreshing(Of(r)))'
    BY <2>3, <2>5, RefreshingIs DEF Of
  <2>8. QED
    BY <2>2, <2>3, <2>4, <2>5, <2>6, <2>7
<1>11. RepliesSound'
  <2>1. \A k \in Tokens \ Issued' : Sound(k)'
    BY <1>t, <1>10 DEF Cause, RepliesSound
  <2>2. ASSUME NEW r \in Requests, req'[r].reply # NoToken
        PROVE  Sound(req[r].reply)'
    <3>1. req'[r].reply \in Tokens /\ Sound(req'[r].reply)
      BY <1>t, <1>4, <1>5, <2>2 DEF Cause, RepliesSound
    <3>2. \A q \in Requests : req'[q].token # req'[r].reply
      BY <1>6, <2>2 DEF Fresh
    <3>3. \A k \in Tokens : k = req'[r].reply => Sound(k)'
      BY <1>10, <3>1, <3>2
    <3>4. QED
      BY <3>1, <3>3 DEF Sound
  <2>3. QED
    BY <2>1, <2>2 DEF RepliesSound, Sound
<1>12. SentSound'
  <2> SUFFICES ASSUME NEW r \in Requests,
                      req'[r].pc = "sent", req'[r].op = "refresh",
                      req'[r].token # NoToken,
                      BrowserOf[req'[r].tab] \in Locking
               PROVE  Sound(req[r].token)'
    BY DEF SentSound, Of, Sound
  <2>1. /\ req[r].pc = "sent" /\ req[r].op = "refresh"
        /\ req'[r].tab = req[r].tab
        /\ req'[r].token = req[r].token /\ req[r].token \in Tokens
        /\ req[r].heard /\ ~req'[r].heard => req[r].token \in excused'
    BY <1>i, <1>t DEF Follows
  <2>2. Sound(req[r].token)
    BY <2>1 DEF Cause, SentSound, Of
  <2>3. SUFFICES ASSUME ~Sound(req[r].token)' PROVE FALSE
    OBVIOUS
  <2>4. req[r].heard
    BY <2>1, <2>3 DEF Turns, Excuses, Sound
  <2>5. r \in Refreshing(Of(r))
    BY <2>1, <2>4, RefreshingIs DEF Turns, Shape
  <2>6. PICK q \in Requests :
          /\ req[q].token = req[r].token
          /\ req[q].pc = "rotating"
          /\ q \in Refreshing(Of(q))
    <3>1. \A k \in Tokens : k = req[r].token => Sound(k) /\ ~Sound(k)'
      BY <2>1, <2>2, <2>3 DEF Sound
    <3>2. QED
      BY <1>10, <2>1, <3>1
  <2>7. Of(q) = Of(r)
    BY <2>1, <2>6 DEF Turns, Owned
  <2>8. Of(r) \in Locking
    BY <2>1 DEF Of
  <2>9. q = r
    BY <2>5, <2>6, <2>7, <2>8 DEF Turns, OneRefresh
  <2>10. QED
    BY <2>1, <2>6, <2>9
<1>13. CookieSound'
  <2> SUFFICES ASSUME NEW b \in Locking, cookie[b] # NoToken, ~Sound(cookie[b])'
               PROVE  \E r : /\ (r \in Refreshing(b))'
                             /\ req'[r].token = cookie[b]
                             /\ req'[r].reply # NoToken
    BY DEF CookieSound, Sound
  <2>1. cookie[b] \in Tokens /\ b \in Browsers
    BY <1>t, SessionsAssumption
  <2>2. CASE Sound(cookie[b])
    <3>1. PICK q \in Requests :
            /\ req[q].token = cookie[b] /\ req'[q].token = cookie[b]
            /\ (q \in Refreshing(Of(q)))'
            /\ req'[q].reply # NoToken
            /\ req[q].pc = "rotating"
      BY <1>10, <2>1, <2>2
    <3>2. Of(q) = b
      BY <2>1, <3>1 DEF Turns, Owned
    <3>3. (Of(q))' = Of(q)
      BY <1>2, <3>1 DEF Of
    <3>4. (q \in Refreshing(b))'
      BY <3>1, <3>2, <3>3, RefreshingIs
    <3>5. QED
      BY <3>1, <3>4
  <2>3. CASE ~Sound(cookie[b])
    <3>1. PICK r \in Refreshing(b) :
            req[r].token = cookie[b] /\ req[r].reply # NoToken
      BY <2>3 DEF Cause, CookieSound
    <3>2. /\ r \in Requests /\ req[r].heard /\ req[r].op = "refresh"
          /\ req[r].tab \in Tabs /\ Of(r) = b
      BY <3>1, RefreshingIs
    <3>3. cookie[b] \notin excused'
      BY DEF Sound
    <3>4. /\ req'[r].pc # "idle" /\ req'[r].op = "refresh" /\ req'[r].heard
          /\ req'[r].token = cookie[b] /\ req'[r].tab = req[r].tab
          /\ req'[r].reply = req[r].reply
      BY <3>1, <3>2, <3>3 DEF Follows
    <3>5. (r \in Refreshing(b))'
      BY <3>2, <3>4, RefreshingIs DEF Of
    <3>6. QED
      BY <3>1, <3>4, <3>5
  <2>4. QED
    BY <2>2, <2>3
<1>14. AlarmHasCause'
  <2> SUFFICES ASSUME NEW r \in Requests, req'[r].pc = "replayed",
                      BrowserOf[req'[r].tab] \in Locking
               PROVE  req'[r].token \in excused'
    BY DEF AlarmHasCause
  <2>1. /\ req'[r].token = req[r].token /\ req'[r].tab = req[r].tab
        /\ req[r].op = "refresh"
        /\ \/ req[r].pc = "replayed"
           \/ /\ req[r].pc = "sent"
              /\ req[r].token # NoToken
              /\ row[req[r].token].status = "revoked"
    BY <1>i DEF Follows, Held
  <2>2. QED
    BY <2>1 DEF Cause, AlarmHasCause, SentSound, Sound, Of
<1>15. QED
  BY <1>1, <1>3, <1>6, <1>8, <1>9, <1>11, <1>12, <1>13, <1>14 DEF Turns, Cause

\* A browser presents a sound token, and says what it signs out.
LEMMA SendKeepsCause ==
    ASSUME Inv, Turns, Cause, NEW t \in Tabs, NEW r \in Requests,
           NEW op \in {"login", "refresh", "logout"}, Send(t, r, op),
           UNCHANGED <<row, issued, cookie>>, excused \subseteq excused',
           op = "logout" => cookie[BrowserOf[t]] \in excused',
           op = "refresh" => MayRefresh(t)
    PROVE  Turns' /\ Cause'
<1> DEFINE b == BrowserOf[t]
           k == IF op = "login" THEN NoToken ELSE cookie[b]
<1>t. /\ req \in [Requests -> Request] /\ b \in Browsers
      /\ Issued' = Issued
  BY SessionsAssumption DEF Inv, TypeOK, Issued
<1>1. req' = [req EXCEPT ![r] = [Idle EXCEPT !.pc = "sent", !.op = op,
                  !.tab = t, !.heard = TRUE, !.token = k]]
  BY DEF Send
<1> HIDE DEF k
<1>2. /\ req'[r].pc = "sent" /\ req'[r].op = op /\ req'[r].tab = t
      /\ req'[r].heard /\ req'[r].token = k /\ req'[r].reply = NoToken
      /\ \A q \in Requests \ {r} : req'[q] = req[q]
  BY <1>t, <1>1 DEF Idle
<1>3. /\ req[r] = Idle /\ req[r].token = NoToken /\ req[r].reply = NoToken
      /\ req[r].pc = "idle"
  <2>1. req[r].pc = "idle"
    BY DEF Send
  <2>2. req[r] = Idle
    BY <2>1 DEF Turns, Shape
  <2>3. QED
    BY <2>1, <2>2 DEF Idle
<1>4. k # NoToken => op # "login" /\ k = cookie[b]
  BY DEF k
<1>5. Shape'
  BY <1>2 DEF Turns, Shape, Held
<1>6. Owned'
  <2>1. \A q \in Requests : req'[q].token # NoToken =>
            \/ req'[q].token = cookie[b] /\ BrowserOf[req'[q].tab] = b
            \/ req'[q].token = req[q].token /\ req'[q].tab = req[q].tab
    BY <1>2, <1>4
  <2>2. QED
    BY <1>t, <2>1 DEF Turns, Owned, Of
<1>7. Fresh'
  <2>1. \A q \in Requests : req'[q].reply = req[q].reply
    BY <1>2, <1>3
  <2>2. \A q \in Requests : req'[q].token = req[q].token
                            \/ req'[q].token = NoToken \/ req'[q].token = cookie[b]
    BY <1>2, <1>4
  <2>3. QED
    BY <1>t, <2>1, <2>2 DEF Turns, Fresh
<1>8. ASSUME NEW c, NEW q, (q \in Refreshing(c))'
      PROVE  \/ q # r /\ q \in Refreshing(c)
             \/ q = r /\ op = "refresh" /\ c = b
  BY <1>2, <1>8, RefreshingIs DEF Of
<1>9. OneRefresh'
  <2>1. b \in Locking /\ op = "refresh" => Refreshing(b) = {}
    BY DEF MayRefresh
  <2>2. \A c \in Locking : \A q, p :
            (q \in Refreshing(c))' /\ (p \in Refreshing(c))' => q = p
    BY <1>8, <2>1 DEF Turns, OneRefresh
  <2>3. QED
    BY <2>2 DEF OneRefresh
<1>10. Excuses'
  BY <1>2, <1>4 DEF Turns, Excuses
<1>11. \A j : Sound(j) => Sound(j)'
  BY DEF Sound
<1>12. RepliesSound'
  <2>1. \A q \in Requests : req'[q].reply = req[q].reply
    BY <1>2, <1>3
  <2>2. \A q \in Requests : req'[q].reply # NoToken =>
            req'[q].reply \in excused' \/ row'[req'[q].reply].status # "revoked"
    BY <2>1, <1>11 DEF Cause, RepliesSound, Sound
  <2>3. \A j \in Tokens \ Issued' : Sound(j)'
    BY <1>t, <1>11 DEF Cause, RepliesSound
  <2>4. QED
    BY <2>2, <2>3 DEF RepliesSound, Sound
<1>13. ASSUME op = "refresh", b \in Locking, cookie[b] # NoToken
       PROVE  Sound(cookie[b])
  BY <1>13 DEF Cause, CookieSound, MayRefresh
<1>14. SentSound'
  <2>1. \A q \in Requests \ {r} :
            /\ req[q].pc = "sent" /\ req[q].op = "refresh"
            /\ req[q].token # NoToken /\ Of(q) \in Locking
            => Sound(req[q].token)
    BY DEF Cause, SentSound
  <2>2. QED
    BY <1>2, <1>4, <1>13, <2>1 DEF SentSound, Sound, Of
<1>15. CookieSound'
  <2>1. ASSUME NEW c, NEW q, q \in Refreshing(c)
        PROVE  (q \in Refreshing(c))' /\ req'[q] = req[q]
    BY <1>2, <1>3, <2>1, RefreshingIs DEF Of
  <2>2. ASSUME NEW c \in Locking, cookie[c] # NoToken, ~Sound(cookie[c])
        PROVE  \E q : /\ (q \in Refreshing(c))'
                      /\ req'[q].token = cookie[c] /\ req'[q].reply # NoToken
    BY <2>1, <2>2 DEF Cause, CookieSound
  <2>3. QED
    BY <2>2 DEF CookieSound, Sound
<1>16. AlarmHasCause'
  BY <1>2 DEF Cause, AlarmHasCause
<1>17. QED
  BY <1>5, <1>6, <1>7, <1>9, <1>10, <1>12, <1>14, <1>15, <1>16 DEF Turns, Cause

\* A cookie gives way to the reply the tab hears, to no cookie, or stays.
LEMMA ReceiveKeepsCause ==
    ASSUME Inv, Turns, Cause, NEW r \in Requests, Receive(r)
    PROVE  Turns' /\ Cause'
<1> DEFINE b == Of(r)
           k == req[r].reply
<1>t. /\ req \in [Requests -> Request] /\ Issued' = Issued
      /\ cookie \in [Browsers -> Issued \cup {NoToken}]
      /\ UNCHANGED <<row, issued, excused>>
  BY DEF Inv, TypeOK, Receive, Issued
<1>1. /\ req'[r] = Idle
      /\ \A q \in Requests \ {r} : req'[q] = req[q]
      /\ req'[r].pc = "idle" /\ req'[r].token = NoToken /\ req'[r].reply = NoToken
  BY <1>t DEF Receive, Idle
<1>2. b \in Browsers
  BY SessionsAssumption DEF Receive, Turns, Shape, Of
<1>3. /\ \A c \in Browsers \ {b} : cookie'[c] = cookie[c]
      /\ k # NoToken => cookie'[b] = k
      /\ k = NoToken => cookie'[b] \in {cookie[b], NoToken}
  <2>1. cookie' = [cookie EXCEPT ![b] = IF k # NoToken THEN k
                                        ELSE IF req[r].op = "logout" /\ req[r].ok
                                        THEN NoToken ELSE @]
    BY DEF Receive, Of
  <2>2. QED
    BY <1>t, <1>2, <2>1
<1>4. Shape'
  BY <1>1 DEF Turns, Shape, Held, Idle
<1>5. \A q \in Requests : req'[q].token # NoToken =>
          q # r /\ req'[q] = req[q]
  BY <1>1
<1>6. Owned'
  <2>1. CASE k = NoToken
    <3>1. \A c \in Browsers : cookie'[c] # NoToken => cookie'[c] = cookie[c]
      BY <1>3, <2>1
    <3>2. QED
      BY <1>5, <3>1 DEF Turns, Owned, Of
  <2>2. CASE k # NoToken
    <3>1. /\ \A c \in Browsers : cookie[c] # k
          /\ \A q \in Requests : req[q].token # k
      BY <2>2 DEF Turns, Fresh
    <3>2. QED
      BY <1>3, <1>5, <2>2, <3>1 DEF Turns, Owned, Of
  <2>3. QED
    BY <2>1, <2>2
<1>7. Fresh'
  <2>1. \A q \in Requests : req'[q].reply # NoToken =>
          q # r /\ req'[q] = req[q] /\ req[q].reply # k
    BY <1>1 DEF Turns, Fresh
  <2>2. \A c \in Browsers : cookie'[c] \in {cookie[c], k, NoToken}
    BY <1>3
  <2>3. QED
    BY <1>1, <2>1, <2>2 DEF Turns, Fresh
<1>8. \A c, q : (q \in Refreshing(c))' => q \in Refreshing(c)
  BY <1>1, RefreshingIs DEF Of
<1>9. OneRefresh'
  BY <1>8 DEF Turns, OneRefresh
<1>10. Excuses'
  BY <1>t, <1>5 DEF Turns, Excuses
<1>11. RepliesSound' /\ SentSound' /\ AlarmHasCause'
  BY <1>t, <1>1 DEF Cause, RepliesSound, SentSound, AlarmHasCause, Sound, Of
<1>12. CookieSound'
  <2> SUFFICES ASSUME NEW c \in Locking, cookie'[c] # NoToken,
                      ~(/\ cookie'[c] # NoToken
                        /\ cookie'[c] \in excused \/ row[cookie'[c]].status # "revoked")
               PROVE  \E q : /\ (q \in Refreshing(c))'
                             /\ req'[q].token = cookie'[c]
                             /\ req'[q].reply # NoToken
    BY <1>t DEF CookieSound, Sound
  <2>1. ~(c = b /\ k # NoToken)
    BY <1>3 DEF Cause, RepliesSound, Sound
  <2>2. cookie'[c] = cookie[c]
    BY <1>3, <2>1, SessionsAssumption
  <2>3. PICK q \in Refreshing(c) :
          req[q].token = cookie[c] /\ req[q].reply # NoToken
    BY <2>2 DEF Cause, CookieSound, Sound
  <2>4. q # r
    BY <2>1, <2>3, RefreshingIs
  <2>5. (q \in Refreshing(c))' /\ req'[q] = req[q]
    BY <1>1, <2>3, <2>4, RefreshingIs DEF Of
  <2>6. QED
    BY <2>2, <2>3, <2>5
<1>13. QED
  BY <1>4, <1>6, <1>7, <1>9, <1>10, <1>11, <1>12 DEF Turns, Cause

\* A cookie may expire at any time.
LEMMA CookieExpiresKeepsCause ==
    ASSUME Inv, Turns, Cause, NEW b \in Browsers, CookieExpires(b)
    PROVE  Turns' /\ Cause'
<1>1. /\ UNCHANGED <<row, issued, req, excused>>
      /\ \A c \in Browsers : cookie'[c] # NoToken => cookie'[c] = cookie[c]
      /\ \A c \in Browsers : cookie'[c] = cookie[c] \/ cookie'[c] = NoToken
  BY DEF CookieExpires, Inv, TypeOK
<1>2. \A c : Refreshing(c)' = Refreshing(c)
  BY <1>1 DEF Refreshing, Waiting
<1>3. Shape' /\ Excuses' /\ Owned' /\ Fresh' /\ OneRefresh'
  BY <1>1, <1>2 DEF Turns, Shape, Excuses, Owned, Fresh, OneRefresh, Of
<1>4. RepliesSound' /\ SentSound' /\ AlarmHasCause'
  BY <1>1 DEF Cause, RepliesSound, SentSound, AlarmHasCause, Sound, Of, Issued
<1>5. CookieSound'
  BY <1>1, <1>2, SessionsAssumption DEF Cause, CookieSound, Sound
<1>6. QED
  BY <1>3, <1>4, <1>5 DEF Turns, Cause

-----------------------------------------------------------------------------
\* A request a step does not touch.
LEMMA StaysFollows ==
    ASSUME Shape, NEW q \in Requests, req'[q] = req[q]
    PROVE  Follows(q)
<1>1. Idle.heard = FALSE
  BY DEF Idle
<1>2. CASE req[q].pc = "idle"
  BY <1>1, <1>2 DEF Shape, Follows
<1>3. CASE req[q].pc # "idle"
  BY <1>3 DEF Shape, Follows
<1>4. QED
  BY <1>2, <1>3

\* A transaction replies with a new token or none.
LEMMA ReplyFollows ==
    ASSUME Inv, Shape, NEW r \in Requests,
           NEW k \in (Tokens \ Issued) \cup {NoToken}, NEW ok \in BOOLEAN,
           Reply(r, k, ok), req[r].pc \in Held \cup {"sent"}
    PROVE  /\ \A q \in Requests : Follows(q)
           /\ OneReply
           /\ req[r].heard => req'[r].reply = k
<1>1. req \in [Requests -> Request] /\ req[r] \in Request
  BY DEF Inv, TypeOK
<1>2. \A q \in Requests \ {r} : req'[q] = req[q]
  BY <1>1 DEF Reply
<1>3. req[r].pc # "idle" /\ req[r].pc # "done" /\ req[r].reply = NoToken
  BY DEF Held, Shape
<1>4. CASE req[r].heard
  <2> DEFINE x == [req[r] EXCEPT !.pc = "done", !.reply = k, !.ok = ok, !.doomed = {}]
  <2>1. req'[r] = x
    BY <1>1, <1>4 DEF Reply
  <2>2. /\ x.pc = "done" /\ x.reply = k
        /\ x.op = req[r].op /\ x.tab = req[r].tab
        /\ x.token = req[r].token /\ x.heard = req[r].heard
    BY <1>1 DEF Request
  <2> HIDE DEF x
  <2>3. Follows(r)
    BY <1>3, <1>4, <2>1, <2>2 DEF Follows, Held
  <2>4. req'[r].reply = k
    BY <2>1, <2>2
  <2>5. \A q \in Requests : Follows(q)
    BY <1>2, <2>3, StaysFollows
  <2>6. OneReply
    BY <1>2 DEF OneReply
  <2>7. QED
    BY <2>4, <2>5, <2>6
<1>5. CASE ~req[r].heard
  <2>1. req'[r] = Idle
    BY <1>1, <1>5 DEF Reply
  <2>2. Follows(r)
    BY <1>5, <2>1 DEF Follows
  <2>3. \A q \in Requests : Follows(q)
    BY <1>2, <2>2, StaysFollows
  <2>4. OneReply
    BY <1>2 DEF OneReply
  <2>5. QED
    BY <1>5, <2>3, <2>4
<1>6. QED
  BY <1>4, <1>5

\* What a tab no longer waits for is excused.
LEMMA UnheardFollows ==
    ASSUME Inv, Shape, NEW R \in SUBSET Requests, Unheard(R),
           \A q \in R : req[q].pc # "idle"
    PROVE  (\A q \in Requests : Follows(q)) /\ OneReply
<1>1. \A q \in Requests : req[q] \in Request
  BY DEF Inv, TypeOK
<1>2. /\ \A q \in Requests \ R : req'[q] = req[q]
      /\ \A q \in R : req'[q] = IF req[q].pc = "done" THEN Idle
                                ELSE [req[q] EXCEPT !.heard = FALSE]
      /\ \A q \in R : req[q].op = "refresh" => req[q].token \in excused'
  BY DEF Unheard
<1>3. /\ Idle.reply = NoToken /\ Idle.heard = FALSE
  BY DEF Idle
<1>4. \A q \in R : /\ [req[q] EXCEPT !.heard = FALSE].pc = req[q].pc
                   /\ [req[q] EXCEPT !.heard = FALSE].op = req[q].op
                   /\ [req[q] EXCEPT !.heard = FALSE].tab = req[q].tab
                   /\ [req[q] EXCEPT !.heard = FALSE].token = req[q].token
                   /\ [req[q] EXCEPT !.heard = FALSE].reply = req[q].reply
                   /\ [req[q] EXCEPT !.heard = FALSE].heard = FALSE
  BY <1>1 DEF Request
<1>5. ASSUME NEW q \in R PROVE Follows(q)
  <2>1. CASE req[q].pc = "done"
    BY <1>2, <2>1 DEF Follows
  <2>2. CASE req[q].pc # "done"
    <3> DEFINE x == [req[q] EXCEPT !.heard = FALSE]
    <3>1. req'[q] = x
      BY <1>2, <2>2
    <3>2. /\ x.pc = req[q].pc /\ x.op = req[q].op /\ x.tab = req[q].tab
          /\ x.token = req[q].token /\ x.reply = req[q].reply /\ x.heard = FALSE
      BY <1>4
    <3> HIDE DEF x
    <3>3. QED
      BY <1>2, <2>2, <3>1, <3>2 DEF Follows, Shape
  <2>3. QED
    BY <2>1, <2>2
<1>6. \A q \in Requests : Follows(q)
  BY <1>2, <1>5, StaysFollows
<1>7. \A q \in Requests : req'[q].reply = req[q].reply \/ req'[q].reply = NoToken
  BY <1>2, <1>3, <1>4
<1>8. QED
  BY <1>6, <1>7 DEF OneReply

\* A step keeps the turns and the causes.
LEMMA NextCause == Inv /\ Turns /\ Cause /\ [Next]_vars => Turns' /\ Cause'
<1> SUFFICES ASSUME Inv, Turns, Cause, [Next]_vars PROVE Turns' /\ Cause'
  OBVIOUS
<1>s. Shape
  BY DEF Turns
<1>t. /\ Issued \subseteq Tokens
      /\ req \in [Requests -> Request]
      /\ row \in [Tokens -> Row]
      /\ issued \in Nat /\ MaxTokens \in Nat /\ issued \in 0..MaxTokens
  BY SessionsAssumption DEF Inv, TypeOK, Issued, Tokens
<1>u. UNCHANGED issued => Issued' = Issued
  BY DEF Issued
<1>1. ASSUME NEW t \in Tabs, NEW r \in Requests,
             Login(t, r) \/ Refresh(t, r) \/ Logout(t, r)
      PROVE  Turns' /\ Cause'
  BY <1>1, SendKeepsCause DEF Login, Refresh, Logout
<1>2. ASSUME NEW t \in Tabs, Reload(t)
      PROVE  Turns' /\ Cause'
  <2>1. PICK R \in SUBSET Requests :
            Unheard(R) /\ \A q \in R : req[q].pc # "idle"
    BY <1>2 DEF Reload
  <2>2. UNCHANGED <<row, issued, cookie>> /\ excused \subseteq excused'
    BY <1>2, <2>1 DEF Reload, Unheard
  <2>3. QED
    BY <1>s, <1>t, <1>u, <2>1, <2>2, UnheardFollows, FollowsKeeps DEF Revokes
<1>3. ASSUME NEW r \in Requests, LoseReply(r)
      PROVE  Turns' /\ Cause'
  <2>1. /\ Unheard({r}) /\ req[r].pc # "idle"
        /\ UNCHANGED <<row, issued, cookie>>
    BY <1>3 DEF LoseReply
  <2>2. excused \subseteq excused'
    BY <2>1 DEF Unheard
  <2>3. (\A q \in Requests : Follows(q)) /\ OneReply
    BY <1>s, <2>1, UnheardFollows
  <2>4. QED
    BY <1>t, <1>u, <2>1, <2>2, <2>3, FollowsKeeps DEF Revokes
<1>4. ASSUME NEW r \in Requests, Receive(r)
      PROVE  Turns' /\ Cause'
  BY <1>4, ReceiveKeepsCause
<1>5. ASSUME NEW b \in Browsers, CookieExpires(b)
      PROVE  Turns' /\ Cause'
  BY <1>5, CookieExpiresKeepsCause
<1>6. ASSUME NEW r \in Requests, NoCookie(r) \/ RequestFails(r)
      PROVE  Turns' /\ Cause'
  <2>1. /\ UNCHANGED <<row, issued, cookie, excused>>
        /\ \E ok \in BOOLEAN : Reply(r, NoToken, ok)
        /\ req[r].pc \in Held \cup {"sent"}
    BY <1>6 DEF NoCookie, RequestFails, Held
  <2>2. (\A q \in Requests : Follows(q)) /\ OneReply
    BY <1>s, <2>1, ReplyFollows
  <2>3. QED
    BY <1>t, <1>u, <2>1, <2>2, FollowsKeeps DEF Revokes
<1>7. ASSUME NEW r \in Requests, ReadToken(r) \/ StartRevokeAll(r)
      PROVE  Turns' /\ Cause'
  <2> DEFINE k == req[r].token
  <2>1. UNCHANGED <<row, issued, cookie, excused>>
    BY <1>7 DEF ReadToken, StartRevokeAll
  <2>2. /\ \A q \in Requests \ {r} : req'[q] = req[q]
        /\ req'[r].op = req[r].op /\ req'[r].tab = req[r].tab
        /\ req'[r].token = k /\ req'[r].heard = req[r].heard
        /\ req'[r].reply = req[r].reply
        /\ req'[r].pc \in Held
        /\ req'[r].pc = "replayed" => /\ req[r].pc = "sent" /\ k # NoToken
                                      /\ row[k].status = "revoked"
        /\ req[r].pc \in {"sent", "replayed"}
        /\ req[r].op = "refresh"
    <3>1. CASE ReadToken(r)
      <4> DEFINE pc == IF row[k].status = "revoked" THEN "replayed"
                       ELSE IF row[k].status = "expired" THEN "expiring"
                       ELSE "rotating"
      <4>1. req' = [req EXCEPT ![r].pc = pc] /\ req[r].pc = "sent"
            /\ req[r].op = "refresh" /\ k # NoToken
        BY <3>1 DEF ReadToken
      <4>2. pc \in Held /\ (pc = "replayed" => row[k].status = "revoked")
        BY DEF Held
      <4> HIDE DEF pc
      <4>3. req'[r].pc = pc
        BY <1>t, <4>1 DEF Request
      <4>4. QED
        BY <1>t, <4>1, <4>2, <4>3 DEF Request
    <3>2. CASE StartRevokeAll(r)
      <4>1. /\ req' = [req EXCEPT ![r].pc = "revoking", ![r].doomed = Active]
            /\ req[r].pc = "replayed"
        BY <3>2 DEF StartRevokeAll
      <4>2. req[r].op = "refresh"
        BY <1>s, <4>1 DEF Shape, Held
      <4>3. QED
        BY <1>t, <4>1, <4>2 DEF Request, Held
    <3>3. QED
      BY <1>7, <3>1, <3>2
  <2>3. Follows(r)
    BY <1>s, <2>2 DEF Follows, Shape, Held
  <2>4. \A q \in Requests : Follows(q)
    BY <1>s, <2>2, <2>3, StaysFollows
  <2>5. OneReply
    BY <2>2 DEF OneReply
  <2>6. QED
    BY <1>t, <1>u, <2>1, <2>4, <2>5, FollowsKeeps DEF Revokes
<1>8. ASSUME NEW r \in Requests, RevokeExpired(r) \/ RevokePresented(r)
      PROVE  Turns' /\ Cause'
  <2> DEFINE k == req[r].token
  <2>1. /\ row' = [row EXCEPT ![k].status = "revoked"]
        /\ \E ok \in BOOLEAN : Reply(r, NoToken, ok)
        /\ UNCHANGED <<issued, cookie>>
        /\ excused \subseteq excused'
        /\ req[r].pc \in Held \cup {"sent"}
    BY <1>8 DEF RevokeExpired, RevokePresented, Held
  <2>2. k \in excused'
    BY <1>8 DEF RevokeExpired, RevokePresented, Turns, Excuses
  <2>3. (\A q \in Requests : Follows(q)) /\ OneReply
    BY <1>s, <2>1, ReplyFollows
  <2>4. \A j \in Tokens \ {k} : row'[j] = row[j]
    BY <1>t, <2>1
  <2>5. \A j \in Tokens : row'[j].status = "revoked" => Revokes(j)
    BY <2>2, <2>4 DEF Revokes
  <2>6. QED
    BY <1>t, <1>u, <2>1, <2>3, <2>5, FollowsKeeps
<1>9. ASSUME NEW r \in Requests, FinishRevokeAll(r)
      PROVE  Turns' /\ Cause'
  <2>1. /\ row' = [k \in Tokens |-> IF k \in req[r].doomed
                                    THEN [row[k] EXCEPT !.status = "revoked"]
                                    ELSE row[k]]
        /\ Reply(r, NoToken, FALSE)
        /\ UNCHANGED <<issued, cookie>>
        /\ excused' = excused \cup req[r].doomed
        /\ req[r].pc \in Held
    BY <1>9 DEF FinishRevokeAll, Held
  <2>2. (\A q \in Requests : Follows(q)) /\ OneReply
    BY <1>s, <2>1, ReplyFollows
  <2>3. \A j \in Tokens : row'[j].status = "revoked" => Revokes(j)
    BY <2>1 DEF Revokes
  <2>4. QED
    BY <1>t, <1>u, <2>1, <2>2, <2>3, FollowsKeeps
<1>10. ASSUME NEW k \in Issued, TokenExpires(k)
       PROVE  Turns' /\ Cause'
  <2>1. /\ row' = [row EXCEPT ![k].status = "expired"]
        /\ UNCHANGED <<issued, req, cookie, excused>>
    BY <1>10 DEF TokenExpires
  <2>2. \A j \in Tokens : row'[j].status = "revoked" => Revokes(j)
    BY <1>t, <2>1 DEF Revokes, Row
  <2>3. (\A q \in Requests : Follows(q)) /\ OneReply
    BY <1>s, <2>1, StaysFollows DEF OneReply
  <2>4. QED
    BY <1>t, <1>u, <2>1, <2>2, <2>3, FollowsKeeps
<1>11. ASSUME NEW r \in Requests, InsertLogin(r) \/ Rotate(r)
       PROVE  Turns' /\ Cause'
  <2> DEFINE n == issued + 1
             k == req[r].token
  <2>1. /\ issued' = n /\ Reply(r, n, TRUE) /\ UNCHANGED <<cookie, excused>>
        /\ issued < MaxTokens
        /\ req[r].pc \in Held \cup {"sent"}
    BY <1>11 DEF InsertLogin, Rotate, Held
  <2>2. /\ n \in Tokens \ Issued /\ n # NoToken
        /\ Issued \subseteq Issued' /\ Issued' \subseteq Tokens
    BY <1>t, <2>1 DEF Tokens, Issued, NoToken
  <2>3. /\ \A q \in Requests : Follows(q)
        /\ OneReply
        /\ req[r].heard => req'[r].reply = n
    BY <1>s, <2>1, <2>2, ReplyFollows
  <2>4. \A j \in Tokens : row'[j].status = "revoked" => Revokes(j)
    <3>1. CASE InsertLogin(r)
      BY <3>1 DEF InsertLogin, Revokes
    <3>2. CASE Rotate(r)
      <4>1. /\ row' = [row EXCEPT ![k].status = "revoked",
                                  ![n].login = row[k].login]
            /\ req[r].pc = "rotating"
        BY <3>2 DEF Rotate
      <4>2. \A j \in Tokens \ {k} : row'[j].status = row[j].status
        BY <1>t, <4>1 DEF Row
      <4>3. \A j \in Tokens : j = k => Revokes(j)
        BY <2>2, <2>3, <4>1 DEF Revokes
      <4>4. QED
        BY <4>2, <4>3 DEF Revokes
    <3>3. QED
      BY <1>11, <3>1, <3>2
  <2>5. QED
    BY <2>1, <2>2, <2>3, <2>4, FollowsKeeps
<1>12. CASE UNCHANGED vars
  <2>1. UNCHANGED <<row, issued, req, cookie, excused>>
    BY <1>12 DEF vars
  <2>2. (\A q \in Requests : Follows(q)) /\ OneReply
    BY <1>s, <2>1, StaysFollows DEF OneReply
  <2>3. QED
    BY <1>t, <1>u, <2>1, <2>2, FollowsKeeps DEF Revokes
<1>13. QED
  BY <1>1, <1>2, <1>3, <1>4, <1>5, <1>6, <1>7, <1>8, <1>9, <1>10, <1>11, <1>12
  DEF Next, ServerStep, BrowserStep

\* Whatever is lost, reloaded, failed or expired, and in whatever order: where
\* the tabs of a browser take turns, the server raises the alarm over a token
\* only when that token was excused.
THEOREM AlarmsHaveCauses == Spec => []AlarmHasCause
<1>1. Cause => AlarmHasCause
  BY DEF Cause
<1>2. QED
  BY <1>1, InitInv, InitCause, NextInv, NextCause, PTL DEF Spec
=============================================================================
