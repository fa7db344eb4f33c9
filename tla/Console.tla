------------------------------ MODULE Console ------------------------------
(***************************************************************************)
(* The session of the web console: one browser whose tabs share the token   *)
(* in localStorage (web/src/api/client.ts, App.tsx, Login.tsx, Layout.tsx), *)
(* the server's check of it (internal/api/router.go) and its login          *)
(* (handler_auth.go, internal/auth/jwt.go).                                 *)
(*                                                                          *)
(* A step is a click, a request served, the code that an answer resumes, or *)
(* the loading of a document.  Nobody listens to storage events.  A token   *)
(* is the second it was issued in: its claims are the user and that time,   *)
(* so two logins of one second get the same.  What pages show is Pages' and *)
(* EventLog's subject; here they send requests.                             *)
(***************************************************************************)
EXTENDS Integers

CONSTANTS
    Tab,               \* the browser's tabs
    Area,              \* the paths of the pages behind the guard, "/" among them
    Lifetime,          \* seconds a token is valid: 24 hours in the code
    MaxInFlight,       \* bound: requests in flight
    MaxTime            \* bound: seconds

ASSUME ConsoleAssumption ==
    /\ "/" \in Area /\ {"/login", "none"} \cap Area = {}
    /\ Lifetime \in Nat \ {0} /\ MaxInFlight \in Nat \ {0} /\ MaxTime \in Nat \ {0}

None == 0
Time == 1..MaxTime
Slot == 1..MaxInFlight

VARIABLES
    now,               \* the server's clock
    token,             \* localStorage's token, or None
    tab,               \* of each tab the page it is at, and its refusal and departure
    requests,          \* the requests in flight
    removers           \* history: the tabs that removed the token since it was last set

vars == <<now, token, tab, requests, removers>>
-----------------------------------------------------------------------------
Valid(k) == k # None /\ now < k + Lifetime

\* A tab.  At "none" it shows no page of the console; refused is Login's error;
\* leaving says that a change of document is under way.
At(p, leaving) == [at |-> p, refused |-> FALSE, leaving |-> leaving]

Idle == [step |-> "idle", tab |-> "none"]

\* request: it carries the token of now.  live says that the component that waits for
\* it is still mounted.
Sent(t, for, k) == [step |-> "sent", tab |-> t, for |-> for, carried |-> k, live |-> TRUE]
Free(rs) == {s \in Slot : rs[s] = Idle}
With(rs, r) == [rs EXCEPT ![CHOOSE s \in Free(rs) : TRUE] = r]

InFlight == {s \in Slot : requests[s] # Idle}

\* The requests when n is the newest time there is.  A login that is granted has a token.
RequestUpTo(n) ==
    {Idle}
    \cup [step : {"sent", "failed", "rejected"}, tab : Tab, for : {"page", "login", "wrong login"},
          carried : 0..n, live : BOOLEAN]
    \cup [step : {"ok"}, tab : Tab, for : {"page"}, carried : 0..n, live : BOOLEAN]
    \cup [step : {"ok"}, tab : Tab, for : {"login"}, carried : 0..n, live : BOOLEAN, granted : 1..n]

TypeOK ==
    /\ now \in Time /\ token \in 0..now /\ removers \subseteq Tab
    /\ tab \in [Tab -> [at : Area \cup {"/login", "none"}, refused : BOOLEAN, leaving : BOOLEAN]]
    /\ requests \in [Slot -> RequestUpTo(now)]

Init ==
    /\ now = 1 /\ token = None
    /\ tab = [t \in Tab |-> At("none", FALSE)] /\ requests = [s \in Slot |-> Idle] /\ removers = {}
-----------------------------------------------------------------------------
(* The pages of a tab.                                                      *)

\* AuthGuard is mounted on the way to page p, with token k: it leads to the login, or
\* the page is mounted too and sends its request.
Guard(t, p, k, rs, leaving) ==
    IF k = None
    THEN tab' = [tab EXCEPT ![t] = At("/login", leaving)] /\ requests' = rs
    ELSE /\ Free(rs) # {}
         /\ tab' = [tab EXCEPT ![t] = At(p, leaving)]
         /\ requests' = With(rs, Sent(t, "page", k))

\* A page within the signed-in area: AuthGuard is mounted already, and its element is
\* not rendered again.
Unguarded(t, p, k, rs) ==
    /\ Free(rs) # {}
    /\ tab' = [tab EXCEPT ![t].at = p]
    /\ requests' = With(rs, Sent(t, "page", k))

\* The requests of a tab whose page changes, and of one whose document does.
Orphaned(t) ==
    [s \in Slot |-> IF s \in InFlight /\ requests[s].tab = t
                    THEN [requests[s] EXCEPT !.live = FALSE] ELSE requests[s]]
Aborted(t) == [s \in Slot |-> IF requests[s].tab = t THEN Idle ELSE requests[s]]

\* A link of the sidebar or the browser's history leads to another page.
Visit(t, p) ==
    /\ tab[t].at # "none" /\ p # tab[t].at
    /\ IF tab[t].at = "/login" THEN Guard(t, p, token, Orphaned(t), tab[t].leaving)
       ELSE Unguarded(t, p, token, Orphaned(t))
    /\ UNCHANGED <<now, token, removers>>

\* The history leads to the login page.
VisitLogin(t) ==
    /\ tab[t].at \in Area
    /\ tab' = [tab EXCEPT ![t].at = "/login"] /\ requests' = Orphaned(t)
    /\ UNCHANGED <<now, token, removers>>

\* A click in a page: an action, an acknowledgement, a filter.
Click(t) ==
    /\ tab[t].at \in Area /\ Free(requests) # {}
    /\ requests' = With(requests, Sent(t, "page", token))
    /\ UNCHANGED <<now, token, tab, removers>>

\* login: the token of an earlier session goes with it.
LoginRequest(t, for) == Sent(t, for, token)

\* The submit button: it stays enabled while an earlier answer is awaited.
Submit(t, for) ==
    /\ tab[t].at = "/login" /\ Free(requests) # {}
    /\ requests' = With(requests, LoginRequest(t, for))
    /\ UNCHANGED <<now, token, tab, removers>>

\* Fault variant: the logout does not lead anywhere.
LogoutStays(t) ==
    /\ tab[t].at \in Area
    /\ token' = None /\ removers' = removers \cup {t}
    /\ UNCHANGED <<now, tab, requests>>

Logout(t) ==
    /\ tab[t].at \in Area
    /\ token' = None /\ removers' = removers \cup {t}
    /\ tab' = [tab EXCEPT ![t].at = "/login"] /\ requests' = Orphaned(t)
    /\ UNCHANGED now
-----------------------------------------------------------------------------
(* Documents.                                                               *)

\* The file server has the console's document under "/" alone.
HasFile(url) == url = "/"

\* The tab loads a document, and its requests are aborted.  The console begins with the
\* router at the address.
LoadDocument(t, url) ==
    /\ IF HasFile(url) THEN Guard(t, url, token, Aborted(t), FALSE)
       ELSE tab' = [tab EXCEPT ![t] = At("none", FALSE)] /\ requests' = Aborted(t)
    /\ UNCHANGED <<now, token, removers>>

\* The user types or reloads an address.
Load(t, url) == LoadDocument(t, url)

\* location.href = '/login' takes effect.
Unload(t) == tab[t].leaving /\ LoadDocument(t, "/login")
-----------------------------------------------------------------------------
(* The server.                                                              *)

\* authWrap: the token is checked, and the handler answers.
ServePage(s) ==
    /\ requests[s].step = "sent" /\ requests[s].for = "page"
    /\ requests' = [requests EXCEPT ![s].step =
                        IF Valid(requests[s].carried) THEN "ok" ELSE "rejected"]
    /\ UNCHANGED <<now, token, tab, removers>>

\* handleLogin finds the user and the password is right: a token of now.
GrantLogin(s) ==
    /\ requests[s].step = "sent" /\ requests[s].for = "login"
    /\ requests' = [requests EXCEPT ![s] =
            [step |-> "ok", tab |-> @.tab, for |-> @.for, carried |-> @.carried,
             live |-> @.live, granted |-> now]]
    /\ UNCHANGED <<now, token, tab, removers>>

\* It does not, or the query fails, which is a 401 too.
RefuseLogin(s) ==
    /\ requests[s].step = "sent" /\ requests[s].for # "page"
    /\ requests' = [requests EXCEPT ![s].step = "rejected"]
    /\ UNCHANGED <<now, token, tab, removers>>

\* The request is answered with an error other than 401, or it or its answer is lost.
Break(s) ==
    /\ requests[s].step = "sent"
    /\ requests' = [requests EXCEPT ![s].step = "failed"]
    /\ UNCHANGED <<now, token, tab, removers>>

Tick == now < MaxTime /\ now' = now + 1 /\ UNCHANGED <<token, tab, requests, removers>>
-----------------------------------------------------------------------------
(* Answers reach the tab.                                                   *)

\* Fault variant: the token is renewed with the one the request carried.
ReceiveOkRenews(s) ==
    /\ requests[s].step = "ok" /\ requests[s].for = "page"
    /\ requests' = [requests EXCEPT ![s] = Idle] /\ token' = requests[s].carried
    /\ UNCHANGED <<now, tab, removers>>

ReceiveOk(s) ==
    /\ requests[s].step = "ok" /\ requests[s].for = "page"
    /\ requests' = [requests EXCEPT ![s] = Idle]
    /\ UNCHANGED <<now, token, tab, removers>>

\* A mounted Login shows the error that request throws.
Refused(s) == requests[s].for # "page" /\ requests[s].live

\* Fault variant: any failure ends the session.
ReceiveFailedSignsOut(s) ==
    /\ requests[s].step = "failed" /\ token' = None
    /\ tab' = [tab EXCEPT ![requests[s].tab].refused = @ \/ Refused(s),
                          ![requests[s].tab].leaving = TRUE]
    /\ requests' = [requests EXCEPT ![s] = Idle]
    /\ removers' = removers \cup {requests[s].tab}
    /\ UNCHANGED now

ReceiveFailed(s) ==
    /\ requests[s].step = "failed"
    /\ tab' = [tab EXCEPT ![requests[s].tab].refused = @ \/ Refused(s)]
    /\ requests' = [requests EXCEPT ![s] = Idle]
    /\ UNCHANGED <<now, token, removers>>

\* A 401: the token of now is removed, whichever the request carried, and the browser
\* is sent to /login.  Until it goes the code goes on, and throws.
Receive401(s) ==
    /\ requests[s].step = "rejected"
    /\ token' = None /\ removers' = removers \cup {requests[s].tab}
    /\ tab' = [tab EXCEPT ![requests[s].tab].refused = @ \/ Refused(s),
                          ![requests[s].tab].leaving = TRUE]
    /\ requests' = [requests EXCEPT ![s] = Idle]
    /\ UNCHANGED now

\* Fault variant: what is stored is expires_at.
SignInUntil(s) ==
    /\ requests[s].step = "ok" /\ requests[s].for = "login"
    /\ token' = requests[s].granted + Lifetime /\ removers' = {}
    /\ requests' = [requests EXCEPT ![s] = Idle]
    /\ UNCHANGED <<now, tab>>

\* handleSubmit after its await, and the step to "/" from wherever the tab is by now.
SignIn(s) ==
    /\ requests[s].step = "ok" /\ requests[s].for = "login"
    /\ token' = requests[s].granted /\ removers' = {}
    /\ LET t == requests[s].tab
           rest == [Orphaned(t) EXCEPT ![s] = Idle]
       IN  CASE tab[t].at = "/login" -> Guard(t, "/", token', rest, tab[t].leaving)
             [] tab[t].at = "/" -> requests' = [requests EXCEPT ![s] = Idle] /\ UNCHANGED tab
             [] OTHER -> Unguarded(t, "/", token', rest)
    /\ UNCHANGED now

Next ==
    \/ \E t \in Tab, p \in Area : Visit(t, p)
    \/ \E t \in Tab, for \in {"login", "wrong login"} : Submit(t, for)
    \/ \E t \in Tab, url \in Area \cup {"/login"} : Load(t, url)
    \/ \E t \in Tab : VisitLogin(t) \/ Click(t) \/ Logout(t) \/ Unload(t)
    \/ \E s \in Slot : ServePage(s) \/ GrantLogin(s) \/ RefuseLogin(s) \/ Break(s)
    \/ \E s \in Slot : ReceiveOk(s) \/ ReceiveFailed(s) \/ Receive401(s) \/ SignIn(s)
    \/ Tick

Spec == Init /\ [][Next]_vars
-----------------------------------------------------------------------------
(* Properties.                                                              *)

\* A tab that removed the token shows a page no longer, or is about to leave it, as long
\* as nobody signs in again: the guard does not look again, so the tab that removes must
\* go by itself.  Other tabs stay where they are (client.ts:13-16, Layout.tsx:14-17).
SignedOutTabsLeave ==
    token = None => \A t \in removers : tab[t].at \in Area => tab[t].leaving

\* A token that is valid is given up only for a logout, a newer login's, or the
\* rejection of a login or of a request that carried another token; never for a request
\* that failed or was rejected in its own right (client.ts:13-18, router.go:51-66).
ValidTokenIsKept ==
    [][Valid(token) /\ token' # token =>
        \/ \E t \in Tab : Logout(t)
        \/ \E s \in Slot : SignIn(s)
        \/ \E s \in Slot : /\ requests[s].step = "rejected" /\ requests'[s] = Idle
                           /\ requests[s].for # "page" \/ requests[s].carried # token]_vars

GrantedIn(rs) == {s \in Slot : rs[s].step = "ok" /\ rs[s].for = "login"}

Browser == INSTANCE Session WITH Request <- Slot, Token <- Time,
                                 grants <- [s \in GrantedIn(requests) |-> requests[s].granted]

\* Whatever the tabs do and however late answers come, signing in takes a login that was
\* granted and not used before (Login.tsx:11-16, client.ts:4-19).
ImplementsSession == Browser!Spec
-----------------------------------------------------------------------------
(* What the plan says and the code does not do.                             *)

\* Plan 2026-07-10, lines 3167 and 3181: AuthGuard and a rejected request lead to /login,
\* and the login page shows the error.  The change of document asks the server for
\* /login, which has no such file.
RejectedTabsReachLogin == [][\A t \in Tab : Unload(t) => tab'[t].at = "/login"]_vars

=============================================================================
