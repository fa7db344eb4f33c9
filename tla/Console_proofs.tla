--------------------------- MODULE Console_proofs ---------------------------
(***************************************************************************)
(* Proofs about Console, for any tabs, pages, lifetime and bounds: types,   *)
(* that a tab that removed the token leaves, and that the console           *)
(* implements Session.                                                      *)
(***************************************************************************)
EXTENDS Console, TLAPS

Kind == {"page", "login", "wrong login"}

\* The states of a tab.
Place == [at : Area \cup {"/login", "none"}, refused : BOOLEAN, leaving : BOOLEAN]
-----------------------------------------------------------------------------
(* Lemmas about the operators on requests.                                  *)

\* With puts a request into a slot that is free, and changes no other.
LEMMA WithSlot ==
    ASSUME NEW rs, Free(rs) # {}, NEW r
    PROVE  \E s \in Slot : rs[s] = Idle /\ With(rs, r) = [rs EXCEPT ![s] = r]
<1> DEFINE s0 == CHOOSE s \in Free(rs) : TRUE
<1>1. s0 \in Free(rs)
  OBVIOUS
<1>2. s0 \in Slot /\ rs[s0] = Idle
  BY <1>1 DEF Free
<1> QED BY <1>2 DEF With

\* A request that is sent has the type of requests.
LEMMA WithType ==
    ASSUME NEW n \in Nat, NEW rs \in [Slot -> RequestUpTo(n)], Free(rs) # {},
           NEW t \in Tab, NEW for \in Kind, NEW k \in 0..n
    PROVE  With(rs, Sent(t, for, k)) \in [Slot -> RequestUpTo(n)]
<1>1. Sent(t, for, k) \in RequestUpTo(n)
  BY DEF Sent, RequestUpTo, Kind
<1>2. PICK s \in Slot : With(rs, Sent(t, for, k)) = [rs EXCEPT ![s] = Sent(t, for, k)]
  BY WithSlot
<1> QED BY <1>1, <1>2

\* A tab that changes its page, and one that changes its document, leave typed requests.
LEMMA UnmountType ==
    ASSUME NEW n \in Nat, requests \in [Slot -> RequestUpTo(n)], NEW t
    PROVE  /\ Orphaned(t) \in [Slot -> RequestUpTo(n)]
           /\ Aborted(t) \in [Slot -> RequestUpTo(n)]
<1>1. ASSUME NEW s \in Slot, requests[s] # Idle
      PROVE  [requests[s] EXCEPT !.live = FALSE] \in RequestUpTo(n)
  <2>1. requests[s] \in RequestUpTo(n)
    OBVIOUS
  <2> QED BY <1>1, <2>1 DEF RequestUpTo
<1>2. Idle \in RequestUpTo(n)
  BY DEF RequestUpTo
<1> QED BY <1>1, <1>2 DEF Orphaned, Aborted, InFlight

\* What is typed stays so when time goes on.
LEMMA RequestGrows ==
    ASSUME NEW n \in Nat
    PROVE  RequestUpTo(n) \subseteq RequestUpTo(n + 1)
<1>1. 0..n \subseteq 0..(n + 1) /\ 1..n \subseteq 1..(n + 1)
  OBVIOUS
<1>2. SUFFICES ASSUME NEW A, NEW B, A \subseteq B, NEW C, NEW D, C \subseteq D,
                      NEW steps, NEW kinds
               PROVE  /\ [step : steps, tab : Tab, for : kinds, carried : A, live : BOOLEAN]
                           \subseteq [step : steps, tab : Tab, for : kinds, carried : B, live : BOOLEAN]
                      /\ [step : steps, tab : Tab, for : kinds, carried : A, live : BOOLEAN, granted : C]
                           \subseteq [step : steps, tab : Tab, for : kinds, carried : B, live : BOOLEAN,
                                      granted : D]
  BY <1>1 DEF RequestUpTo
<1> QED BY <1>2
-----------------------------------------------------------------------------
(* Types.                                                                   *)

\* Guard and Unguarded lead to typed states.
LEMMA GuardType ==
    ASSUME NEW n \in Nat, tab \in [Tab -> Place], NEW rs \in [Slot -> RequestUpTo(n)],
           NEW t \in Tab, NEW p \in Area, NEW k \in 0..n, NEW leaving \in BOOLEAN,
           Guard(t, p, k, rs, leaving) \/ Unguarded(t, p, k, rs)
    PROVE  tab' \in [Tab -> Place] /\ requests' \in [Slot -> RequestUpTo(n)]
<1>1. CASE Guard(t, p, k, rs, leaving)
  <2>1. At("/login", leaving) \in Place /\ At(p, leaving) \in Place
    BY DEF At, Place
  <2>2. CASE k = None
    BY <1>1, <2>1, <2>2 DEF Guard
  <2>3. CASE k # None
    <3>1. Free(rs) # {} /\ tab' = [tab EXCEPT ![t] = At(p, leaving)]
          /\ requests' = With(rs, Sent(t, "page", k))
      BY <1>1, <2>3 DEF Guard
    <3>2. "page" \in Kind
      BY DEF Kind
    <3>3. requests' \in [Slot -> RequestUpTo(n)]
      BY <3>1, <3>2, WithType
    <3> QED BY <2>1, <3>1, <3>3
  <2> QED BY <2>2, <2>3
<1>2. CASE Unguarded(t, p, k, rs)
  BY <1>2, WithType DEF Unguarded, Kind, Place
<1> QED BY <1>1, <1>2

\* What TypeOK gives of one request in flight.
LEMMA RequestFacts ==
    ASSUME TypeOK, NEW s \in Slot, requests[s].step # "idle"
    PROVE  /\ requests[s] \in RequestUpTo(now) /\ requests[s] # Idle
           /\ requests[s].tab \in Tab /\ requests[s].carried \in 0..now
           /\ requests[s].live \in BOOLEAN /\ requests[s].for \in Kind
           /\ requests[s].step = "ok" /\ requests[s].for = "login" => requests[s].granted \in 1..now
           /\ now \in Nat
<1>1. requests[s] \in RequestUpTo(now) /\ requests[s] # Idle
  BY DEF TypeOK, Idle
<1>2. now \in Nat
  BY ConsoleAssumption DEF TypeOK, Time
<1> QED BY <1>1, <1>2 DEF RequestUpTo, Kind

LEMMA InitType == Init => TypeOK
<1> SUFFICES ASSUME Init PROVE TypeOK
  OBVIOUS
<1>1. At("none", FALSE) \in Place /\ Idle \in RequestUpTo(1)
  BY DEF At, Place, RequestUpTo
<1>2. now \in Time /\ token \in 0..now
  BY ConsoleAssumption DEF Init, Time, None
<1>3. tab \in [Tab -> Place] /\ removers \subseteq Tab /\ requests \in [Slot -> RequestUpTo(now)]
  BY <1>1 DEF Init
<1> QED BY <1>2, <1>3 DEF TypeOK, Place

\* A request that ends, or goes to a step that needs no more than it has.
LEMMA EndType ==
    ASSUME TypeOK, NEW s \in Slot, requests[s].step # "idle"
    PROVE  /\ [requests EXCEPT ![s] = Idle] \in [Slot -> RequestUpTo(now)]
           /\ \A step \in {"failed", "rejected"} : requests[s].step = "sent" =>
                [requests EXCEPT ![s].step = step] \in [Slot -> RequestUpTo(now)]
           /\ requests[s].step = "sent" /\ requests[s].for = "page" =>
                [requests EXCEPT ![s].step = "ok"] \in [Slot -> RequestUpTo(now)]
<1>1. requests[s] \in RequestUpTo(now) /\ requests[s] # Idle
  BY RequestFacts
<1>2. Idle \in RequestUpTo(now)
  BY DEF RequestUpTo
<1>3. \A step \in {"failed", "rejected"} : requests[s].step = "sent" =>
        [requests[s] EXCEPT !.step = step] \in RequestUpTo(now)
  BY <1>1 DEF RequestUpTo
<1>4. requests[s].step = "sent" /\ requests[s].for = "page" =>
        [requests[s] EXCEPT !.step = "ok"] \in RequestUpTo(now)
  BY <1>1 DEF RequestUpTo
<1> QED BY <1>2, <1>3, <1>4 DEF TypeOK

LEMMA StepKeepsType == TypeOK /\ [Next]_vars => TypeOK'
<1> SUFFICES ASSUME TypeOK, [Next]_vars PROVE TypeOK'
  OBVIOUS
<1>0. /\ now \in Nat /\ token \in 0..now /\ None \in 0..now /\ "/" \in Area
      /\ tab \in [Tab -> Place] /\ requests \in [Slot -> RequestUpTo(now)]
  BY ConsoleAssumption DEF TypeOK, Time, None, Place
<1>a. \A t : Orphaned(t) \in [Slot -> RequestUpTo(now)] /\ Aborted(t) \in [Slot -> RequestUpTo(now)]
  BY <1>0, UnmountType
<1>b. \A t \in Tab : tab[t].leaving \in BOOLEAN
  BY <1>0 DEF Place
<1>1. ASSUME NEW t \in Tab, NEW p \in Area, Visit(t, p) PROVE TypeOK'
  <2>1. tab' \in [Tab -> Place] /\ requests' \in [Slot -> RequestUpTo(now)]
    BY <1>0, <1>1, <1>a, <1>b, GuardType DEF Visit
  <2> QED BY <1>1, <2>1 DEF TypeOK, Visit, Place
<1>2. ASSUME NEW t \in Tab, NEW for \in {"login", "wrong login"}, Submit(t, for) PROVE TypeOK'
  <2>1. requests' \in [Slot -> RequestUpTo(now)]
    BY <1>0, <1>2, WithType DEF Submit, LoginRequest, Kind
  <2> QED BY <1>2, <2>1 DEF TypeOK, Submit
<1>3. ASSUME NEW t \in Tab, NEW url, LoadDocument(t, url) PROVE TypeOK'
  <2>1. CASE HasFile(url)
    <3>1. url \in Area /\ Guard(t, url, token, Aborted(t), FALSE)
      BY <1>0, <1>3, <2>1 DEF LoadDocument, HasFile
    <3>2. tab' \in [Tab -> Place] /\ requests' \in [Slot -> RequestUpTo(now)]
      BY <1>0, <1>a, <3>1, GuardType
    <3> QED BY <1>3, <3>2 DEF TypeOK, LoadDocument, Place
  <2>2. CASE ~HasFile(url)
    <3>1. At("none", FALSE) \in Place
      BY DEF At, Place
    <3>2. /\ tab' = [tab EXCEPT ![t] = At("none", FALSE)] /\ requests' = Aborted(t)
          /\ UNCHANGED <<now, token, removers>>
      BY <1>3, <2>2 DEF LoadDocument
    <3>3. tab' \in [Tab -> Place] /\ requests' \in [Slot -> RequestUpTo(now)]
      BY <1>0, <1>a, <3>1, <3>2
    <3> QED BY <3>2, <3>3 DEF TypeOK, Place
  <2> QED BY <2>1, <2>2
<1>4. ASSUME NEW t \in Tab, VisitLogin(t) PROVE TypeOK'
  BY <1>0, <1>4, <1>a DEF TypeOK, VisitLogin
<1>5. ASSUME NEW t \in Tab, Click(t) PROVE TypeOK'
  <2>1. requests' \in [Slot -> RequestUpTo(now)]
    BY <1>0, <1>5, WithType DEF Click, Kind
  <2> QED BY <1>5, <2>1 DEF TypeOK, Click
<1>6. ASSUME NEW t \in Tab, Logout(t) PROVE TypeOK'
  BY <1>0, <1>6, <1>a DEF TypeOK, Logout
<1>7. ASSUME NEW s \in Slot, ServePage(s) PROVE TypeOK'
  BY <1>7, EndType DEF TypeOK, ServePage
<1>8. ASSUME NEW s \in Slot, GrantLogin(s) PROVE TypeOK'
  <2>1. now \in 1..now
    BY <1>0, ConsoleAssumption DEF TypeOK, Time
  <2>2. requests' \in [Slot -> RequestUpTo(now)]
    BY <1>0, <1>8, <2>1, RequestFacts DEF GrantLogin, RequestUpTo
  <2> QED BY <1>8, <2>2 DEF TypeOK, GrantLogin
<1>9. ASSUME NEW s \in Slot, RefuseLogin(s) PROVE TypeOK'
  BY <1>9, EndType DEF TypeOK, RefuseLogin
<1>10. ASSUME NEW s \in Slot, Break(s) PROVE TypeOK'
  BY <1>10, EndType DEF TypeOK, Break
<1>11. ASSUME NEW s \in Slot, ReceiveOk(s) PROVE TypeOK'
  BY <1>11, EndType DEF TypeOK, ReceiveOk
<1>12. ASSUME NEW s \in Slot, ReceiveFailed(s) \/ Receive401(s) PROVE TypeOK'
  <2>1. requests[s].tab \in Tab /\ requests[s].live \in BOOLEAN
    BY <1>12, RequestFacts DEF ReceiveFailed, Receive401
  <2>2. \A u \in Tab : (tab[u].refused \/ Refused(s)) \in BOOLEAN
    BY <1>0, <2>1 DEF Refused, Place
  <2>3. tab' \in [Tab -> Place]
    <3>1. ASSUME NEW u \in Tab, NEW b \in BOOLEAN
          PROVE  /\ [tab EXCEPT ![u].refused = b] \in [Tab -> Place]
                 /\ [tab EXCEPT ![u].refused = b, ![u].leaving = TRUE] \in [Tab -> Place]
      <4>1. /\ [tab[u] EXCEPT !.refused = b] \in Place
            /\ [tab[u] EXCEPT !.refused = b, !.leaving = TRUE] \in Place
        BY <1>0 DEF Place
      <4> QED BY <1>0, <4>1
    <3> DEFINE b == tab[requests[s].tab].refused \/ Refused(s)
    <3>2. \/ tab' = [tab EXCEPT ![requests[s].tab].refused = b]
          \/ tab' = [tab EXCEPT ![requests[s].tab].refused = b, ![requests[s].tab].leaving = TRUE]
      BY <1>12 DEF ReceiveFailed, Receive401
    <3>3. b \in BOOLEAN
      BY <2>1, <2>2
    <3> HIDE DEF b
    <3> QED BY <2>1, <3>1, <3>2, <3>3
  <2>4. requests' \in [Slot -> RequestUpTo(now)]
    BY <1>12, EndType DEF ReceiveFailed, Receive401
  <2> QED BY <1>0, <1>12, <2>1, <2>3, <2>4 DEF TypeOK, ReceiveFailed, Receive401, Place
<1>13. ASSUME NEW s \in Slot, SignIn(s) PROVE TypeOK'
  <2> DEFINE t == requests[s].tab
             rest == [Orphaned(t) EXCEPT ![s] = Idle]
  <2>1. t \in Tab /\ token' \in 0..now /\ tab[t].leaving \in BOOLEAN
    BY <1>b, <1>13, RequestFacts DEF SignIn
  <2>2. rest \in [Slot -> RequestUpTo(now)]
    BY <1>a DEF RequestUpTo
  <2>3. CASE tab[t].at = "/"
    <3>1. requests' = [requests EXCEPT ![s] = Idle] /\ tab' = tab /\ now' = now /\ removers' = {}
      BY <1>13, <2>3 DEF SignIn
    <3>2. requests[s].step # "idle"
      BY <1>13 DEF SignIn
    <3>3. requests' \in [Slot -> RequestUpTo(now)]
      BY <3>1, <3>2, EndType
    <3> QED BY <2>1, <3>1, <3>3 DEF TypeOK
  <2>4. CASE tab[t].at # "/"
    <3>1. Guard(t, "/", token', rest, tab[t].leaving) \/ Unguarded(t, "/", token', rest)
      BY <1>13, <2>4 DEF SignIn
    <3> HIDE DEF t, rest
    <3>2. tab' \in [Tab -> Place] /\ requests' \in [Slot -> RequestUpTo(now)]
      BY <1>0, <2>1, <2>2, <3>1, GuardType
    <3> QED BY <1>13, <2>1, <3>2 DEF TypeOK, SignIn, Place
  <2> QED BY <2>3, <2>4
<1>14. CASE Tick
  <2>1. requests' \in [Slot -> RequestUpTo(now + 1)]
    BY <1>0, <1>14, RequestGrows DEF Tick
  <2> QED BY <1>0, <1>14, <2>1, ConsoleAssumption DEF TypeOK, Tick, Time
<1>15. CASE UNCHANGED vars
  BY <1>15 DEF TypeOK, vars
<1> QED
  BY <1>1, <1>2, <1>3, <1>4, <1>5, <1>6, <1>7, <1>8, <1>9, <1>10, <1>11, <1>12, <1>13, <1>14, <1>15
  DEF Next, Load, Unload
-----------------------------------------------------------------------------
(* What the pages' own steps do to the requests.                            *)

\* A login that is granted and not yet used, and a page's request that was rejected.
Granted(r)  == r.step = "ok" /\ r.for = "login"
Rejection(r) == r.step = "rejected" /\ r.for = "page"

\* A slot keeps its request, up to its component, or a request is sent from it.
Kept(q, r) ==
    /\ r.step = q.step /\ r.for = q.for /\ r.carried = q.carried
    /\ Granted(q) => r.granted = q.granted
Moves(rs, rs2) ==
    \A s \in Slot : Kept(rs[s], rs2[s]) \/ (rs[s].step = "idle" /\ rs2[s].step = "sent")

LEMMA MovesCompose ==
    ASSUME NEW rs, NEW rs1, NEW rs2, Moves(rs, rs1), Moves(rs1, rs2)
    PROVE  Moves(rs, rs2)
BY DEF Moves, Kept, Granted

\* A slot outside those that Orphaned changes keeps its request.
LEMMA OrphanedMoves ==
    ASSUME TypeOK, NEW t
    PROVE  Moves(requests, Orphaned(t))
<1> SUFFICES ASSUME NEW s \in Slot PROVE Kept(requests[s], Orphaned(t)[s])
  BY DEF Moves
<1>1. CASE requests[s] = Idle
  BY <1>1 DEF Orphaned, InFlight, Kept
<1>2. CASE requests[s] # Idle
  <2> DEFINE q == requests[s]
  <2>1. q \in RequestUpTo(now) /\ q # Idle
    BY <1>2 DEF TypeOK
  <2>2. Kept(q, [q EXCEPT !.live = FALSE]) /\ Kept(q, q)
    BY <2>1 DEF RequestUpTo, Kept, Granted
  <2>3. Orphaned(t)[s] \in {q, [q EXCEPT !.live = FALSE]}
    BY DEF Orphaned
  <2> QED BY <2>2, <2>3
<1> QED BY <1>1, <1>2

LEMMA WithMoves ==
    ASSUME NEW rs, rs = [s \in Slot |-> rs[s]], Free(rs) # {}, NEW t, NEW for, NEW k
    PROVE  Moves(rs, With(rs, Sent(t, for, k)))
<1>1. PICK s \in Slot : rs[s] = Idle /\ With(rs, Sent(t, for, k)) = [rs EXCEPT ![s] = Sent(t, for, k)]
  BY WithSlot
<1> QED BY <1>1 DEF Moves, Kept, Sent, Idle

LEMMA GuardMoves ==
    ASSUME NEW rs, rs = [s \in Slot |-> rs[s]], NEW t, NEW p, NEW k, NEW leaving,
           Guard(t, p, k, rs, leaving) \/ Unguarded(t, p, k, rs)
    PROVE  Moves(rs, requests')
<1>1. Moves(rs, rs)
  BY DEF Moves, Kept
<1> QED BY <1>1, WithMoves DEF Guard, Unguarded
-----------------------------------------------------------------------------
(* The invariant.                                                           *)

\* The token of now was set after the last removal, and a page's request is rejected for
\* a token that is valid no longer.
RemovedIsNone == token # None => removers = {}
RejectedAreInvalid == \A s \in Slot : Rejection(requests[s]) => ~Valid(requests[s].carried)

IInv == TypeOK /\ SignedOutTabsLeave /\ RemovedIsNone /\ RejectedAreInvalid

LEMMA InitIInv == Init => IInv
<1> SUFFICES ASSUME Init PROVE IInv
  OBVIOUS
<1>1. SignedOutTabsLeave /\ RemovedIsNone
  BY DEF Init, SignedOutTabsLeave, RemovedIsNone
<1>2. RejectedAreInvalid
  BY DEF Init, RejectedAreInvalid, Rejection, Idle
<1> QED BY <1>1, <1>2, InitType DEF IInv

\* The pages' steps move the requests, and reject none.
LEMMA PageSteps ==
    ASSUME TypeOK
    PROVE  /\ \A t \in Tab, p \in Area : Visit(t, p) => Moves(requests, requests')
           /\ \A t \in Tab, for \in {"login", "wrong login"} :
                Submit(t, for) => Moves(requests, requests')
           /\ \A t \in Tab : VisitLogin(t) \/ Click(t) \/ Logout(t) => Moves(requests, requests')
<1>1. requests = [s \in Slot |-> requests[s]]
  BY DEF TypeOK
<1>2. \A t : Orphaned(t) = [s \in Slot |-> Orphaned(t)[s]]
  BY DEF Orphaned
<1>3. ASSUME NEW t \in Tab, NEW p \in Area, Visit(t, p) PROVE Moves(requests, requests')
  <2>1. Guard(t, p, token, Orphaned(t), tab[t].leaving) \/ Unguarded(t, p, token, Orphaned(t))
    BY <1>3 DEF Visit
  <2>2. Moves(Orphaned(t), requests')
    BY <1>2, <2>1, GuardMoves
  <2> QED BY <2>2, OrphanedMoves, MovesCompose
<1>4. ASSUME NEW t \in Tab, NEW for, Submit(t, for) \/ Click(t) PROVE Moves(requests, requests')
  <2>1. CASE Submit(t, for)
    BY <1>1, <2>1, WithMoves DEF Submit, LoginRequest
  <2>2. CASE Click(t)
    BY <1>1, <2>2, WithMoves DEF Click
  <2> QED BY <1>4, <2>1, <2>2
<1>5. ASSUME NEW t \in Tab, VisitLogin(t) \/ Logout(t) PROVE Moves(requests, requests')
  BY <1>5, OrphanedMoves DEF VisitLogin, Logout
<1> QED BY <1>3, <1>4, <1>5

\* SignIn moves all requests but its own.
LEMMA SignInMoves ==
    ASSUME TypeOK, NEW s \in Slot, SignIn(s)
    PROVE  Moves([requests EXCEPT ![s] = Idle], requests')
<1> DEFINE t == requests[s].tab
           rest == [Orphaned(t) EXCEPT ![s] = Idle]
           others == [requests EXCEPT ![s] = Idle]
<1>1. rest = [u \in Slot |-> rest[u]] /\ rest[s] = Idle /\ others[s] = Idle
  BY DEF Orphaned, TypeOK
<1>2. \A u \in Slot \ {s} : rest[u] = Orphaned(t)[u] /\ others[u] = requests[u]
  BY DEF Orphaned, TypeOK
<1>3. Moves(others, rest)
  <2> HIDE DEF rest, others
  <2>1. Moves(requests, Orphaned(t))
    BY OrphanedMoves
  <2> QED BY <1>1, <1>2, <2>1 DEF Moves, Kept, Granted, Idle
<1>4. CASE tab[t].at = "/"
  <2>1. requests' = others
    BY <1>4, ConsoleAssumption DEF SignIn
  <2> QED BY <2>1 DEF Moves, Kept
<1>5. CASE tab[t].at # "/"
  <2>1. Guard(t, "/", token', rest, tab[t].leaving) \/ Unguarded(t, "/", token', rest)
    BY <1>5 DEF SignIn
  <2> HIDE DEF rest, others
  <2>2. Moves(rest, requests')
    BY <1>1, <2>1, GuardMoves
  <2>3. Moves(others, requests')
    BY <1>3, <2>2, MovesCompose
  <2> QED BY <2>3 DEF others
<1> QED BY <1>4, <1>5
-----------------------------------------------------------------------------
(* Every step preserves the invariant.                                      *)

LEMMA RejectedKept ==
    ASSUME RejectedAreInvalid, Moves(requests, requests'), now' = now
    PROVE  RejectedAreInvalid'
BY DEF RejectedAreInvalid, Moves, Kept, Rejection, Valid

\* A step that changes no token and no more than one tab's page, and leads that one to no
\* page that it does not leave.
LEMMA TabsKept ==
    ASSUME IInv, UNCHANGED <<token, removers>>, NEW t \in Tab,
           \A u \in Tab \ {t} : tab'[u] = tab[u],
           token = None => \/ tab'[t].at \notin Area
                           \/ tab[t].at \in Area /\ tab'[t].leaving = tab[t].leaving
    PROVE  SignedOutTabsLeave' /\ RemovedIsNone'
BY DEF IInv, TypeOK, SignedOutTabsLeave, RemovedIsNone

\* A step of one request that gives it another step but rejects none whose token is valid.
LEMMA RequestStep ==
    ASSUME IInv, now' = now, NEW s \in Slot,
           \A u \in Slot \ {s} : requests'[u] = requests[u],
           Rejection(requests'[s]) => ~Valid(requests'[s].carried)
    PROVE  RejectedAreInvalid'
BY DEF IInv, RejectedAreInvalid, Valid

LEMMA StepKeepsIInv == IInv /\ [Next]_vars => IInv'
<1> SUFFICES ASSUME IInv, [Next]_vars
             PROVE  SignedOutTabsLeave' /\ RemovedIsNone' /\ RejectedAreInvalid'
  BY StepKeepsType DEF IInv
<1> USE DEF At
<1>0. /\ TypeOK /\ tab \in [Tab -> Place] /\ requests \in [Slot -> RequestUpTo(now)]
      /\ {"/login", "none"} \cap Area = {} /\ now \in Nat /\ removers \subseteq Tab
  BY ConsoleAssumption DEF IInv, TypeOK, Place, Time
<1>1. ASSUME NEW t \in Tab, NEW p \in Area, Visit(t, p)
      PROVE  SignedOutTabsLeave' /\ RemovedIsNone' /\ RejectedAreInvalid'
  <2>1. SignedOutTabsLeave' /\ RemovedIsNone'
    <3>1. CASE tab[t].at = "/login"
      <4>1. /\ Guard(t, p, token, Orphaned(t), tab[t].leaving)
            /\ UNCHANGED <<token, removers>>
        BY <1>1, <3>1 DEF Visit
      <4>2. /\ \A u \in Tab \ {t} : tab'[u] = tab[u]
            /\ token = None => tab'[t].at = "/login"
        BY <1>0, <4>1 DEF Guard
      <4> QED BY <1>0, <4>1, <4>2, TabsKept
    <3>2. CASE tab[t].at # "/login"
      <4>1. Unguarded(t, p, token, Orphaned(t)) /\ UNCHANGED <<token, removers>>
        BY <1>1, <3>2 DEF Visit
      <4>2. tab[t].at \in Area
        BY <1>0, <1>1, <3>2 DEF Visit, Place
      <4>3. /\ \A u \in Tab \ {t} : tab'[u] = tab[u]
            /\ tab'[t].leaving = tab[t].leaving
        BY <1>0, <4>1 DEF Unguarded, Place
      <4> QED BY <4>1, <4>2, <4>3, TabsKept
    <3> QED BY <3>1, <3>2
  <2>2. RejectedAreInvalid'
    BY <1>0, <1>1, PageSteps, RejectedKept DEF IInv, Visit
  <2> QED BY <2>1, <2>2
<1>2. ASSUME NEW t \in Tab, NEW for \in {"login", "wrong login"}, Submit(t, for) \/ Click(t)
      PROVE  SignedOutTabsLeave' /\ RemovedIsNone' /\ RejectedAreInvalid'
  <2>1. UNCHANGED <<now, token, tab, removers>>
    BY <1>2 DEF Submit, Click
  <2>2. RejectedAreInvalid'
    BY <1>0, <1>2, <2>1, PageSteps, RejectedKept DEF IInv
  <2> QED BY <2>1, <2>2 DEF IInv, SignedOutTabsLeave, RemovedIsNone
<1>3. ASSUME NEW t \in Tab, NEW url, LoadDocument(t, url)
      PROVE  SignedOutTabsLeave' /\ RemovedIsNone' /\ RejectedAreInvalid'
  <2>1. UNCHANGED <<now, token, removers>>
    BY <1>3 DEF LoadDocument
  <2>2. /\ \A u \in Tab \ {t} : tab'[u] = tab[u]
        /\ token = None => tab'[t].at \notin Area
    BY <1>0, <1>3 DEF LoadDocument, Guard
  <2>3. Moves(Aborted(t), requests')
    <3>1. Aborted(t) = [s \in Slot |-> Aborted(t)[s]] /\ Moves(Aborted(t), Aborted(t))
      BY DEF Aborted, Moves, Kept
    <3> QED BY <1>3, <3>1, GuardMoves DEF LoadDocument
  <2>4. RejectedAreInvalid'
    BY <2>1, <2>3 DEF IInv, RejectedAreInvalid, Aborted, Moves, Kept, Rejection, Idle, Valid
  <2> QED BY <2>1, <2>2, <2>4, TabsKept
<1>4. ASSUME NEW t \in Tab, VisitLogin(t)
      PROVE  SignedOutTabsLeave' /\ RemovedIsNone' /\ RejectedAreInvalid'
  <2>1. /\ UNCHANGED <<now, token, removers>>
        /\ tab'[t].at = "/login" /\ \A u \in Tab \ {t} : tab'[u] = tab[u]
    BY <1>0, <1>4 DEF VisitLogin, Place
  <2>2. RejectedAreInvalid'
    BY <1>0, <1>4, <2>1, PageSteps, RejectedKept DEF IInv
  <2> QED BY <1>0, <2>1, <2>2, TabsKept
<1>5. ASSUME NEW t \in Tab, Logout(t)
      PROVE  SignedOutTabsLeave' /\ RemovedIsNone' /\ RejectedAreInvalid'
  <2>1. /\ token' = None /\ removers' = removers \cup {t} /\ now' = now
        /\ tab'[t].at = "/login" /\ \A u \in Tab \ {t} : tab'[u] = tab[u]
    BY <1>0, <1>5 DEF Logout, Place
  <2>2. RejectedAreInvalid'
    BY <1>0, <1>5, <2>1, PageSteps, RejectedKept DEF IInv
  <2> QED BY <1>0, <2>1, <2>2 DEF IInv, SignedOutTabsLeave, RemovedIsNone
<1>6. ASSUME NEW s \in Slot, ServePage(s) \/ GrantLogin(s) \/ RefuseLogin(s) \/ Break(s)
      PROVE  SignedOutTabsLeave' /\ RemovedIsNone' /\ RejectedAreInvalid'
  <2>1. UNCHANGED <<now, token, tab, removers>>
    BY <1>6 DEF ServePage, GrantLogin, RefuseLogin, Break
  <2>2. requests[s].step = "sent" /\ requests[s] \in RequestUpTo(now) /\ requests[s] # Idle
    BY <1>6, <1>0, RequestFacts DEF ServePage, GrantLogin, RefuseLogin, Break
  <2>3. Rejection(requests'[s]) => ~Valid(requests'[s].carried)
    <3>1. CASE ServePage(s)
      BY <1>0, <2>2, <3>1 DEF ServePage, Rejection, RequestUpTo
    <3>2. CASE GrantLogin(s)
      BY <1>0, <3>2 DEF GrantLogin, Rejection
    <3>3. CASE RefuseLogin(s)
      BY <1>0, <2>2, <3>3 DEF RefuseLogin, Rejection, RequestUpTo
    <3>4. CASE Break(s)
      BY <1>0, <2>2, <3>4 DEF Break, Rejection, RequestUpTo
    <3> QED BY <1>6, <3>1, <3>2, <3>3, <3>4
  <2>4. \A u \in Slot \ {s} : requests'[u] = requests[u]
    BY <1>0, <1>6 DEF ServePage, GrantLogin, RefuseLogin, Break
  <2>5. RejectedAreInvalid'
    BY <2>1, <2>3, <2>4, RequestStep
  <2> QED BY <2>1, <2>5 DEF IInv, SignedOutTabsLeave, RemovedIsNone
<1>7. ASSUME NEW s \in Slot, ReceiveOk(s) \/ ReceiveFailed(s) \/ Receive401(s)
      PROVE  SignedOutTabsLeave' /\ RemovedIsNone' /\ RejectedAreInvalid'
  <2>1. requests[s].tab \in Tab /\ now' = now
    BY <1>0, <1>7, RequestFacts DEF ReceiveOk, ReceiveFailed, Receive401
  <2>2. requests' = [requests EXCEPT ![s] = Idle]
    BY <1>7 DEF ReceiveOk, ReceiveFailed, Receive401
  <2>3. RejectedAreInvalid'
    BY <1>0, <2>1, <2>2, RequestStep DEF Rejection, Idle
  <2>4. CASE ReceiveOk(s)
    BY <2>3, <2>4 DEF IInv, SignedOutTabsLeave, RemovedIsNone, ReceiveOk
  <2>5. CASE ReceiveFailed(s)
    <3>1. \A u \in Tab : tab'[u].at = tab[u].at /\ tab'[u].leaving = tab[u].leaving
      BY <1>0, <2>1, <2>5 DEF ReceiveFailed, Place
    <3> QED BY <2>3, <2>5, <3>1 DEF IInv, SignedOutTabsLeave, RemovedIsNone, ReceiveFailed
  <2>6. CASE Receive401(s)
    <3>1. tab'[requests[s].tab].leaving /\ \A u \in Tab \ {requests[s].tab} : tab'[u] = tab[u]
      BY <1>0, <2>1, <2>6 DEF Receive401, Place
    <3>2. token' = None /\ removers' = removers \cup {requests[s].tab}
      BY <2>6 DEF Receive401
    <3>3. SignedOutTabsLeave'
      <4> SUFFICES ASSUME NEW t \in removers', tab'[t].at \in Area PROVE tab'[t].leaving
        BY <3>2 DEF SignedOutTabsLeave
      <4>1. CASE t = requests[s].tab
        BY <3>1, <4>1
      <4>2. CASE t # requests[s].tab
        BY <1>0, <3>1, <3>2, <4>2 DEF IInv, SignedOutTabsLeave, RemovedIsNone
      <4> QED BY <4>1, <4>2
    <3> QED BY <2>3, <3>2, <3>3 DEF RemovedIsNone
  <2> QED BY <1>7, <2>4, <2>5, <2>6
<1>8. ASSUME NEW s \in Slot, SignIn(s)
      PROVE  SignedOutTabsLeave' /\ RemovedIsNone' /\ RejectedAreInvalid'
  <2>1. removers' = {} /\ now' = now
    BY <1>8 DEF SignIn
  <2>2. \A u \in Slot : Rejection([requests EXCEPT ![s] = Idle][u]) => Rejection(requests[u]) /\ u # s
    BY <1>0 DEF Rejection, Idle
  <2>3. RejectedAreInvalid'
    BY <1>0, <1>8, <2>1, <2>2, SignInMoves DEF IInv, RejectedAreInvalid, Moves, Kept, Rejection, Valid
  <2> QED BY <2>1, <2>3 DEF SignedOutTabsLeave, RemovedIsNone
<1>9. CASE Tick
  <2>1. \A s \in Slot : Rejection(requests[s]) => requests[s].carried \in Nat
    BY <1>0, RequestFacts DEF Rejection
  <2>2. RejectedAreInvalid'
    BY <1>0, <1>9, <2>1, ConsoleAssumption DEF IInv, RejectedAreInvalid, Tick, Valid
  <2> QED BY <1>9, <2>2 DEF IInv, SignedOutTabsLeave, RemovedIsNone, Tick
<1>10. CASE UNCHANGED vars
  BY <1>10 DEF IInv, vars, SignedOutTabsLeave, RemovedIsNone, RejectedAreInvalid, Valid
<1> QED
  BY <1>1, <1>2, <1>3, <1>4, <1>5, <1>6, <1>7, <1>8, <1>9, <1>10 DEF Next, Load, Unload

LEMMA InductiveInvariant == Spec => []IInv
BY InitIInv, StepKeepsIInv, PTL DEF Spec
-----------------------------------------------------------------------------
\* The types: no token is newer than the server's clock, and a login that was granted
\* has one.
THEOREM TypeCorrect == Spec => []TypeOK
<1>1. IInv => TypeOK
  BY DEF IInv
<1> QED BY <1>1, InductiveInvariant, PTL

\* client.ts:13-16, Layout.tsx:14-17: a tab that removed the token shows no page of the
\* console, or is about to leave it, until somebody signs in.
THEOREM Departure == Spec => []SignedOutTabsLeave
<1>1. IInv => SignedOutTabsLeave
  BY DEF IInv
<1> QED BY <1>1, InductiveInvariant, PTL

\* client.ts:13-18, router.go:51-66: no failure and no answer to a request in its own
\* right takes a valid token away.
THEOREM Keeping == Spec => ValidTokenIsKept
<1> DEFINE P == Valid(token) /\ token' # token =>
                  \/ \E t \in Tab : Logout(t)
                  \/ \E s \in Slot : SignIn(s)
                  \/ \E s \in Slot : /\ requests[s].step = "rejected" /\ requests'[s] = Idle
                                     /\ requests[s].for # "page" \/ requests[s].carried # token
<1>1. IInv /\ [Next]_vars => [P]_vars
  <2> SUFFICES ASSUME IInv, Next, Valid(token), token' # token,
                      ~\E t \in Tab : Logout(t), ~\E s \in Slot : SignIn(s)
               PROVE  \E s \in Slot : /\ requests[s].step = "rejected" /\ requests'[s] = Idle
                                      /\ requests[s].for # "page" \/ requests[s].carried # token
    OBVIOUS
  <2>1. PICK s \in Slot : Receive401(s)
    BY DEF Next, Visit, Submit, Load, LoadDocument, VisitLogin, Click, Unload, ServePage,
       GrantLogin, RefuseLogin, Break, ReceiveOk, ReceiveFailed, Tick
  <2>2. requests[s].step = "rejected" /\ requests'[s] = Idle
    BY <2>1 DEF Receive401, IInv, TypeOK
  <2>3. requests[s].for # "page" \/ requests[s].carried # token
    BY <2>2 DEF IInv, RejectedAreInvalid, Rejection
  <2> QED BY <2>2, <2>3
<1> QED BY <1>1, InductiveInvariant, PTL DEF Spec, ValidTokenIsKept
-----------------------------------------------------------------------------
(* The refinement of Session.                                               *)

\* The logins granted and not yet used.
Grants(rs) == [s \in GrantedIn(rs) |-> rs[s].granted]

LEMMA MovesKeepGrants ==
    ASSUME NEW rs, NEW rs2, Moves(rs, rs2)
    PROVE  Grants(rs2) = Grants(rs)
<1>1. GrantedIn(rs2) = GrantedIn(rs) /\ \A s \in GrantedIn(rs) : rs2[s].granted = rs[s].granted
  BY DEF Moves, Kept, Granted, GrantedIn
<1> QED BY <1>1 DEF Grants

\* A step that keeps the token and grants nothing loses some grants, or none.
LEMMA Loses ==
    ASSUME token' = token,
           \A s \in Slot : Granted(requests'[s]) =>
                Granted(requests[s]) /\ requests'[s].granted = requests[s].granted
    PROVE  Browser!Next
<1> DEFINE R == GrantedIn(requests) \ GrantedIn(requests')
<1>1. R \in SUBSET Slot
  BY DEF GrantedIn
<1>2. GrantedIn(requests) \ R = GrantedIn(requests')
  BY DEF GrantedIn, Granted
<1>3. Grants(requests)' = [s \in GrantedIn(requests) \ R |-> Grants(requests)[s]]
  BY <1>2 DEF Grants, GrantedIn, Granted
<1>4. Browser!Lose(R)
  BY <1>3 DEF Browser!Lose, Browser!Only, Grants
<1> HIDE DEF R
<1> QED BY <1>1, <1>4 DEF Browser!Next, Browser!Lose, Browser!Only

LEMMA InitRefines == Init => Browser!Init
<1> SUFFICES ASSUME Init PROVE Browser!Init
  OBVIOUS
<1>1. GrantedIn(requests) = {}
  BY DEF Init, GrantedIn, Idle
<1> QED BY <1>1 DEF Init, Browser!Init

\* Every step of the console is a step of the session, or invisible to it.
LEMMA StepRefines == IInv /\ [Next]_vars => [Browser!Next]_<<token, Grants(requests)>>
<1> SUFFICES ASSUME IInv, [Next]_vars PROVE [Browser!Next]_<<token, Grants(requests)>>
  OBVIOUS
<1>0. TypeOK /\ requests \in [Slot -> RequestUpTo(now)] /\ now \in Time
  BY DEF IInv, TypeOK
<1>1. ASSUME NEW t \in Tab, NEW p \in Area, Visit(t, p)
      PROVE  [Browser!Next]_<<token, Grants(requests)>>
  BY <1>0, <1>1, PageSteps, MovesKeepGrants DEF Visit
<1>2. ASSUME NEW t \in Tab, NEW for \in {"login", "wrong login"},
             Submit(t, for) \/ Click(t) \/ VisitLogin(t)
      PROVE  [Browser!Next]_<<token, Grants(requests)>>
  BY <1>0, <1>2, PageSteps, MovesKeepGrants DEF Submit, Click, VisitLogin
<1>3. ASSUME NEW t \in Tab, NEW url, LoadDocument(t, url) PROVE Browser!Next
  <2>1. Moves(Aborted(t), requests') /\ token' = token
    <3>1. Aborted(t) = [s \in Slot |-> Aborted(t)[s]] /\ Moves(Aborted(t), Aborted(t))
      BY DEF Aborted, Moves, Kept
    <3> QED BY <1>3, <3>1, GuardMoves DEF LoadDocument
  <2>2. \A s \in Slot : Aborted(t)[s] \in {Idle, requests[s]}
    BY DEF Aborted
  <2>3. ASSUME NEW s \in Slot, Granted(requests'[s])
        PROVE  Granted(requests[s]) /\ requests'[s].granted = requests[s].granted
    BY <2>1, <2>2, <2>3 DEF Moves, Kept, Granted, Idle
  <2> QED BY <2>1, <2>3, Loses
<1>4. ASSUME NEW t \in Tab, Logout(t) PROVE Browser!Next
  <2>1. token' = None /\ Grants(requests)' = Grants(requests)
    BY <1>0, <1>4, PageSteps, MovesKeepGrants DEF Logout
  <2> QED BY <2>1 DEF Browser!Next, Browser!SignOut, Grants
<1>5. ASSUME NEW s \in Slot, GrantLogin(s) PROVE Browser!Next
  <2>1. /\ requests[s].step = "sent" /\ requests[s].for = "login" /\ token' = token
        /\ Granted(requests'[s]) /\ requests'[s].granted = now
        /\ \A u \in Slot \ {s} : requests'[u] = requests[u]
    BY <1>0, <1>5 DEF GrantLogin, Granted
  <2>2. s \notin GrantedIn(requests) /\ GrantedIn(requests') = GrantedIn(requests) \cup {s}
    BY <2>1 DEF GrantedIn, Granted
  <2>3. Grants(requests)' = [u \in GrantedIn(requests) \cup {s} |->
                                IF u = s THEN now ELSE Grants(requests)[u]]
    <3>1. \A u \in GrantedIn(requests') :
            requests'[u].granted = IF u = s THEN now ELSE Grants(requests)[u]
      BY <2>1, <2>2 DEF Grants, GrantedIn
    <3> QED BY <2>2, <3>1 DEF Grants
  <2>4. s \notin DOMAIN Grants(requests) /\ DOMAIN Grants(requests) = GrantedIn(requests)
    BY <2>2 DEF Grants
  <2>5. Browser!Grant(s, now)
    BY <2>1, <2>3, <2>4 DEF Browser!Grant, Grants
  <2> QED BY <1>0, <2>5 DEF Browser!Next, Browser!Grant
<1>6. ASSUME NEW s \in Slot, ServePage(s) \/ RefuseLogin(s) \/ Break(s) PROVE Browser!Next
  <2>1. requests[s].step = "sent" /\ requests[s] \in RequestUpTo(now) /\ requests[s] # Idle
    BY <1>6, <1>0, RequestFacts DEF ServePage, RefuseLogin, Break
  <2>2. /\ token' = token /\ ~Granted(requests'[s])
        /\ \A u \in Slot \ {s} : requests'[u] = requests[u]
    <3>1. CASE ServePage(s)
      BY <1>0, <2>1, <3>1 DEF ServePage, Granted, RequestUpTo
    <3>2. CASE RefuseLogin(s)
      BY <1>0, <2>1, <3>2 DEF RefuseLogin, Granted, RequestUpTo
    <3>3. CASE Break(s)
      BY <1>0, <2>1, <3>3 DEF Break, Granted, RequestUpTo
    <3> QED BY <1>6, <3>1, <3>2, <3>3
  <2> QED BY <2>2, Loses
<1>7. ASSUME NEW s \in Slot, ReceiveOk(s) \/ ReceiveFailed(s) PROVE Browser!Next
  <2>1. /\ token' = token /\ ~Granted(requests'[s])
        /\ \A u \in Slot \ {s} : requests'[u] = requests[u]
    BY <1>0, <1>7 DEF ReceiveOk, ReceiveFailed, Granted, Idle
  <2> QED BY <2>1, Loses
<1>8. ASSUME NEW s \in Slot, Receive401(s) PROVE Browser!Next
  <2>1. /\ token' = None /\ ~Granted(requests[s]) /\ ~Granted(requests'[s])
        /\ \A u \in Slot \ {s} : requests'[u] = requests[u]
    BY <1>0, <1>8 DEF Receive401, Granted, Idle
  <2>2. GrantedIn(requests') = GrantedIn(requests) /\ s \notin GrantedIn(requests)
    BY <2>1 DEF GrantedIn, Granted
  <2>3. Grants(requests)' = Grants(requests)
    BY <2>1, <2>2 DEF Grants, GrantedIn
  <2> QED BY <2>1, <2>3 DEF Browser!Next, Browser!SignOut, Grants
<1>9. ASSUME NEW s \in Slot, SignIn(s) PROVE Browser!Next
  <2> DEFINE rest == [requests EXCEPT ![s] = Idle]
  <2>1. s \in GrantedIn(requests) /\ token' = requests[s].granted
    BY <1>9 DEF SignIn, GrantedIn
  <2>2. Grants(requests)' = Grants(rest)
    <3> HIDE DEF rest
    <3> QED BY <1>0, <1>9, SignInMoves, MovesKeepGrants DEF rest
  <2>3. GrantedIn(rest) = GrantedIn(requests) \ {s} /\ \A u \in GrantedIn(rest) : rest[u] = requests[u]
    BY <1>0 DEF GrantedIn, Idle
  <2>4. Browser!SignIn(s)
    BY <2>1, <2>2, <2>3 DEF Browser!SignIn, Browser!Only, Grants
  <2> QED BY <2>4 DEF Browser!Next
<1>10. CASE Tick \/ UNCHANGED vars
  BY <1>10 DEF Tick, vars, Grants, GrantedIn
<1> QED
  BY <1>1, <1>2, <1>3, <1>4, <1>5, <1>6, <1>7, <1>8, <1>9, <1>10 DEF Next, Load, Unload

\* Login.tsx:11-16, client.ts:4-19: whatever the tabs do and however late answers come,
\* signing in takes a login that the server granted, and none twice.
THEOREM Refinement == Spec => ImplementsSession
BY InitRefines, StepRefines, InductiveInvariant, PTL
   DEF Spec, ImplementsSession, Browser!Spec, Grants
=============================================================================
