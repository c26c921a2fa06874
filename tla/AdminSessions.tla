---------------------------- MODULE AdminSessions ----------------------------
(****************************************************************************)
(* The admin's session: refresh tokens that rotate on every use, the        *)
(* database transactions that rotate them, and the browser tabs that share  *)
(* one refresh cookie and take turns with a lock.                           *)
(*                                                                          *)
(* The server takes a token it has already revoked for stolen and revokes   *)
(* every token of the user.  All sessions here are of one user.             *)
(****************************************************************************)
EXTENDS Naturals, FiniteSets

CONSTANTS
    Browsers,
    Tabs,        \* tabs that show the dashboard
    NoTab,
    BrowserOf,   \* the browser of each tab
    Locking,     \* browsers that have the Web Locks API
    Requests,    \* bound: requests under way at the same time
    MaxTokens,   \* bound: refresh tokens issued in a behaviour
    Events       \* "reload", "lose", "fail", "logout", "expire": what may happen

Tokens  == 1..MaxTokens
NoToken == 0

ASSUME SessionsAssumption ==
    /\ BrowserOf \in [Tabs -> Browsers]
    /\ NoTab \notin Tabs
    /\ Locking \subseteq Browsers
    /\ MaxTokens \in Nat

VARIABLES
    row,     \* the admin_refresh_tokens rows, by token
    issued,  \* tokens issued so far
    req,     \* requests and the transactions they run
    cookie,  \* each browser's refresh cookie
    access,  \* whether a tab has an access token, in memory and sessionStorage
    page,    \* what each tab shows
    excused  \* history: tokens that may come back revoked for a known reason

vars == <<row, issued, req, cookie, access, page, excused>>

-----------------------------------------------------------------------------
\* A row once revoked is only ever read as revoked, expired or not.
Row == [login : Tokens, status : {"good", "expired", "revoked"}]

\* A request of op, that presents token.  Its tab stops waiting for it when the
\* response is lost or the page reloads; the server does not notice.
Request == [pc     : {"idle", "sent", "rotating", "expiring", "replayed",
                      "revoking", "done"},
            op     : {"login", "refresh", "logout"},
            tab    : Tabs \cup {NoTab},
            heard  : BOOLEAN,
            token  : Tokens \cup {NoToken},
            doomed : SUBSET Tokens,
            reply  : Tokens \cup {NoToken},
            ok     : BOOLEAN]

Idle == [pc |-> "idle", op |-> "logout", tab |-> NoTab,
         heard |-> FALSE, token |-> NoToken, doomed |-> {}, reply |-> NoToken,
         ok |-> FALSE]

Init ==
    /\ row = [k \in Tokens |-> [login |-> k, status |-> "good"]]
    /\ issued = 0
    /\ req = [r \in Requests |-> Idle]
    /\ cookie = [b \in Browsers |-> NoToken]
    /\ access = [t \in Tabs |-> FALSE]
    /\ page = [t \in Tabs |-> "boot"]
    /\ excused = {}

Issued == 1..issued
Active == {k \in Issued : row[k].status # "revoked"}

Waiting(t, op) ==
    {r \in Requests : req[r].pc # "idle" /\ req[r].heard
                      /\ req[r].tab = t /\ req[r].op = op}

\* The tab that holds a browser's refresh lock, by its request.
Refreshing(b) ==
    UNION {Waiting(t, "refresh") : t \in {u \in Tabs : BrowserOf[u] = b}}

-----------------------------------------------------------------------------
(* The browser.                                                              *)

\* Requests that may still issue a token.
Due == {r \in Requests : req[r].op # "logout" /\ req[r].pc \in {"sent", "rotating"}}

\* The bound leaves every request that is sent the token it may need, so no
\* request ever stops because of it.
Send(t, r, op) ==
    /\ req[r].pc = "idle"
    /\ op # "logout" => issued + Cardinality(Due) < MaxTokens
    /\ req' = [req EXCEPT ![r] = [Idle EXCEPT !.pc = "sent", !.op = op,
                  !.tab = t, !.heard = TRUE,
                  !.token = IF op = "login" THEN NoToken
                            ELSE cookie[BrowserOf[t]]]]

Login(t, r) ==
    /\ page[t] = "gate"
    /\ Waiting(t, "login") = {}
    /\ Send(t, r, "login")
    /\ UNCHANGED <<row, issued, cookie, access, page, excused>>

\* A page without an access token, or one whose access token the API refused:
\* it lasts 15 minutes, so that may happen at any time.
NeedsRefresh(t) == page[t] \in {"boot", "dashboard"}

\* Mutant: the tabs of a browser do not take turns.
MayRefreshUnlocked(t) == Waiting(t, "refresh") = {}

\* One refresh at a time in a tab, and in a browser that has locks.
MayRefresh(t) ==
    IF BrowserOf[t] \in Locking THEN Refreshing(BrowserOf[t]) = {}
                                ELSE Waiting(t, "refresh") = {}

Refresh(t, r) ==
    /\ NeedsRefresh(t)
    /\ MayRefresh(t)
    /\ Send(t, r, "refresh")
    /\ UNCHANGED <<row, issued, cookie, access, page, excused>>

Logout(t, r) ==
    /\ "logout" \in Events
    /\ page[t] = "dashboard"
    /\ Waiting(t, "logout") = {}
    /\ Send(t, r, "logout")
    /\ excused' = excused \cup {cookie[BrowserOf[t]]}
    /\ UNCHANGED <<row, issued, cookie, access, page>>

\* What the tab does when its request of op ended well or not.
Settle(t, op, ok) ==
    /\ access' = [access EXCEPT ![t] =
           IF op = "logout" THEN FALSE
           ELSE IF op = "refresh" THEN ok ELSE @ \/ ok]
    /\ page' = [page EXCEPT ![t] =
           IF op = "logout" THEN "gate"
           ELSE IF op = "login" THEN IF ok THEN "dashboard" ELSE @
           ELSE IF @ = "gate" THEN @
           ELSE IF ok THEN "dashboard" ELSE "gate"]

\* Mutant: a refused refresh stays in flight.
ReceiveAccepted(r) ==
    LET t == req[r].tab
    IN  /\ req[r].pc = "done"
        /\ req[r].heard
        /\ req[r].ok
        /\ cookie' = [cookie EXCEPT ![BrowserOf[t]] = req[r].reply]
        /\ Settle(t, req[r].op, TRUE)
        /\ req' = [req EXCEPT ![r] = Idle]
        /\ UNCHANGED <<row, issued, excused>>

Receive(r) ==
    LET b == BrowserOf[req[r].tab]
        k == req[r].reply
    IN  /\ req[r].pc = "done"
        /\ req[r].heard
        /\ cookie' = [cookie EXCEPT ![b] = IF k # NoToken THEN k
                                           ELSE IF req[r].op = "logout"
                                                   /\ req[r].ok
                                           THEN NoToken ELSE @]
        /\ Settle(req[r].tab, req[r].op, req[r].ok)
        /\ req' = [req EXCEPT ![r] = Idle]
        /\ UNCHANGED <<row, issued, excused>>

\* Nobody waits for the requests R any more.
Unheard(R) ==
    /\ req' = [r \in Requests |->
                  IF r \notin R THEN req[r]
                  ELSE IF req[r].pc = "done" THEN Idle
                  ELSE [req[r] EXCEPT !.heard = FALSE]]
    /\ excused' = excused \cup
           {req[r].token : r \in {q \in R : req[q].op = "refresh"}}

\* The connection breaks: the tab sees an error, the server goes on.
LoseReply(r) ==
    /\ "lose" \in Events
    /\ req[r].pc # "idle"
    /\ req[r].heard
    /\ Unheard({r})
    /\ Settle(req[r].tab, req[r].op, FALSE)
    /\ UNCHANGED <<row, issued, cookie>>

\* The page loads again; the lock of a page that is gone is free.
Reload(t) ==
    /\ LET R == {r \in Requests : req[r].pc # "idle" /\ req[r].heard
                                  /\ req[r].tab = t}
       IN  /\ R = {} \/ "reload" \in Events
           /\ Unheard(R)
    /\ page' = [page EXCEPT ![t] = IF access[t] THEN "dashboard"
                                                ELSE "boot"]
    /\ UNCHANGED <<row, issued, cookie, access>>

CookieExpires(b) ==
    /\ cookie[b] # NoToken
    /\ row[cookie[b]].status # "good"
    /\ cookie' = [cookie EXCEPT ![b] = NoToken]
    /\ UNCHANGED <<row, issued, req, access, page, excused>>

-----------------------------------------------------------------------------
(* The server and its database.                                              *)

\* A transaction holds the row it read FOR UPDATE until it commits.
LockHolder(k) ==
    {r \in Requests : req[r].token = k
        /\ req[r].pc \in {"rotating", "expiring", "replayed", "revoking"}}

Reply(r, k, ok) ==
    req' = [req EXCEPT ![r] = IF req[r].heard
                              THEN [@ EXCEPT !.pc = "done", !.reply = k,
                                             !.ok = ok, !.doomed = {}]
                              ELSE Idle]

InsertLogin(r) ==
    /\ req[r].pc = "sent"
    /\ req[r].op = "login"
    /\ issued < MaxTokens
    /\ issued' = issued + 1
    /\ Reply(r, issued + 1, TRUE)
    /\ UNCHANGED <<row, cookie, access, page, excused>>

NoCookie(r) ==
    /\ req[r].pc = "sent"
    /\ req[r].op # "login"
    /\ req[r].token = NoToken
    /\ Reply(r, NoToken, req[r].op = "logout")
    /\ UNCHANGED <<row, issued, cookie, access, page, excused>>

\* Mutant: the row is read without FOR UPDATE.
ReadTokenUnlocked(r) ==
    LET k == req[r].token
    IN  /\ req[r].pc = "sent"
        /\ req[r].op = "refresh"
        /\ k # NoToken
        /\ req' = [req EXCEPT ![r].pc = IF row[k].status = "revoked" THEN "replayed"
                             ELSE IF row[k].status = "expired" THEN "expiring"
                             ELSE "rotating"]
        /\ UNCHANGED <<row, issued, cookie, access, page, excused>>

ReadToken(r) ==
    LET k == req[r].token
    IN  /\ req[r].pc = "sent"
        /\ req[r].op = "refresh"
        /\ k # NoToken
        /\ LockHolder(k) = {}
        /\ req' = [req EXCEPT ![r].pc = IF row[k].status = "revoked" THEN "replayed"
                             ELSE IF row[k].status = "expired" THEN "expiring"
                             ELSE "rotating"]
        /\ UNCHANGED <<row, issued, cookie, access, page, excused>>

Rotate(r) ==
    /\ req[r].pc = "rotating"
    /\ issued < MaxTokens
    /\ issued' = issued + 1
    /\ row' = [row EXCEPT ![req[r].token].status = "revoked",
                          ![issued + 1].login = row[req[r].token].login]
    /\ Reply(r, issued + 1, TRUE)
    /\ UNCHANGED <<cookie, access, page, excused>>

RevokeExpired(r) ==
    /\ req[r].pc = "expiring"
    /\ row' = [row EXCEPT ![req[r].token].status = "revoked"]
    /\ excused' = excused \cup {req[r].token}
    /\ Reply(r, NoToken, FALSE)
    /\ UNCHANGED <<issued, cookie, access, page>>

\* Mutant: the UPDATE takes the revoked rows as well.
StartRevokeEvery(r) ==
    /\ req[r].pc = "replayed"
    /\ req' = [req EXCEPT ![r].pc = "revoking", ![r].doomed = Issued]
    /\ UNCHANGED <<row, issued, cookie, access, page, excused>>

\* The UPDATE of all active rows: it sees the rows there are when it starts and
\* waits for those another transaction holds.
StartRevokeAll(r) ==
    /\ req[r].pc = "replayed"
    /\ req' = [req EXCEPT ![r].pc = "revoking", ![r].doomed = Active]
    /\ UNCHANGED <<row, issued, cookie, access, page, excused>>

FinishRevokeAll(r) ==
    /\ req[r].pc = "revoking"
    /\ \A k \in req[r].doomed : LockHolder(k) \subseteq {r}
    /\ row' = [k \in Tokens |-> IF k \in req[r].doomed
                                THEN [row[k] EXCEPT !.status = "revoked"]
                                ELSE row[k]]
    /\ excused' = excused \cup req[r].doomed
    /\ Reply(r, NoToken, FALSE)
    /\ UNCHANGED <<issued, cookie, access, page>>

RevokePresented(r) ==
    /\ req[r].pc = "sent"
    /\ req[r].op = "logout"
    /\ req[r].token # NoToken
    /\ LockHolder(req[r].token) = {}
    /\ row' = [row EXCEPT ![req[r].token].status = "revoked"]
    /\ Reply(r, NoToken, TRUE)
    /\ UNCHANGED <<issued, cookie, access, page, excused>>

\* The database or the process fails: the transaction is rolled back.
RequestFails(r) ==
    /\ "fail" \in Events
    /\ req[r].pc \in {"sent", "rotating", "expiring", "replayed", "revoking"}
    /\ Reply(r, NoToken, FALSE)
    /\ UNCHANGED <<row, issued, cookie, access, page, excused>>

TokenExpires(k) ==
    /\ "expire" \in Events
    /\ row[k].status = "good"
    /\ row' = [row EXCEPT ![k].status = "expired"]
    /\ UNCHANGED <<issued, req, cookie, access, page, excused>>

-----------------------------------------------------------------------------
ServerStep(r) ==
    \/ InsertLogin(r)
    \/ NoCookie(r)
    \/ ReadToken(r)
    \/ Rotate(r)
    \/ RevokeExpired(r)
    \/ StartRevokeAll(r)
    \/ FinishRevokeAll(r)
    \/ RevokePresented(r)

BrowserStep(t) ==
    \/ \E r \in Requests : Login(t, r) \/ Refresh(t, r) \/ Logout(t, r)
    \/ Reload(t)

Next ==
    \/ \E t \in Tabs : BrowserStep(t)
    \/ \E r \in Requests :
          ServerStep(r) \/ Receive(r) \/ LoseReply(r) \/ RequestFails(r)
    \/ \E b \in Browsers : CookieExpires(b)
    \/ \E k \in Issued : TokenExpires(k)

Spec == Init /\ [][Next]_vars

-----------------------------------------------------------------------------
(* Properties.                                                               *)

\* Type invariant.
TypeOK ==
    /\ row \in [Tokens -> Row]
    /\ issued \in 0..MaxTokens
    /\ req \in [Requests -> Request]
    /\ cookie \in [Browsers -> Issued \cup {NoToken}]
    /\ access \in [Tabs -> BOOLEAN]
    /\ page \in [Tabs -> {"boot", "gate", "dashboard"}]
    /\ excused \subseteq Tokens \cup {NoToken}

\* Of the tokens one login led to, at most one is good: a token that is used
\* twice at the same time (two tabs, a retry, a reload) rotates once.
OneLiveTokenPerLogin ==
    \A j, k \in Active : row[j].login = row[k].login => j = k

\* In a browser with locks the server never takes an honest refresh for theft:
\* a token that comes back revoked has lost its successor on the way, was
\* signed out or expired, or fell with the others to an earlier alarm.
AlarmHasCause ==
    \A r \in Requests :
        req[r].pc = "replayed" /\ BrowserOf[req[r].tab] \in Locking
            => req[r].token \in excused

\* No tab waits forever for its refresh: its browser's lock comes free for the
\* others, and transactions that hold the row they read, also alarms that want the
\* rows of all the others, never wait for each other.
LockIsFreed ==
    \A t \in Tabs : Waiting(t, "refresh") # {} ~> Waiting(t, "refresh") = {}
=============================================================================
