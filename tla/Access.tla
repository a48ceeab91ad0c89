------------------------------- MODULE Access -------------------------------
(***************************************************************************)
(* The sessions of one user: login, refresh and logout of auth.service.ts  *)
(* behind the rate limit, and the tabs of one browser (auth-context.tsx),  *)
(* which share localStorage and keep a copy of the token each.  A session  *)
(* row and the refresh token whose hash it holds are one number.           *)
(***************************************************************************)
EXTENDS RateLimit, Sequences, SequencesExt

CONSTANTS
  Tabs,
  Home,         \* the user's tenant
  Lifetime,     \* of a session
  Errands,      \* bound: what one behaviour is about: "sessions", "limits"
  MaxCalls,     \* bound: calls of the tabs
  MaxSessionTime \* bound: the clock of a behaviour that is about sessions

ASSUME AccessConstants == Home \in Tenants /\ Lifetime \in Nat /\ MaxCalls \in Nat
                          /\ MaxSessionTime \in 0..MaxTime

VARIABLES
  errand,
  sessions,     \* Session rows; login is the row that the login created
  tab,          \* refreshToken of each tab's state, 0 when signed out
  store,        \* auth:refreshToken of localStorage
  calls,        \* what the tabs have asked and have no answer to
  asked,        \* history: how many calls there were
  overlapped,   \* history: logins with a refresh overtaken by another or by a logout
  ended,        \* history: logins whose session was logged out, no refresh under way
  disturbed     \* history: an answer was lost, or all sessions revoked from elsewhere

browser == <<tab, store>>
ghosts == <<asked, overlapped, ended, disturbed>>
vars == <<rate, errand, sessions, browser, calls, ghosts>>

-----------------------------------------------------------------------------
Live(s) == ~sessions[s].revoked

\* Faulty: revoked rows are found as well.
UsableTwice(s) == sessions[s].expiresAt >= now

\* A row that findFirst of refreshTokens accepts.
Usable(s) == Live(s) /\ sessions[s].expiresAt >= now

Moved(i, stage) == calls' = [calls EXCEPT ![i].stage = stage]
Over(i) == calls' = RemoveAt(calls, i)

\* Refreshes of a login that are past the lookup of their token.
Rotating(login) ==
  { i \in DOMAIN calls : /\ calls[i].kind = "refresh" /\ calls[i].stage \in {"found", "revoked"}
                         /\ sessions[calls[i].token].login = login }

-----------------------------------------------------------------------------
(* The tabs. *)

Ask(t, kind) ==
  /\ errand = "sessions"
  /\ asked < MaxCalls /\ asked' = asked + 1
  /\ calls' = Append(calls, [kind |-> kind, tab |-> t, token |-> tab[t], stage |-> "sent"])
  /\ UNCHANGED <<rate, errand, sessions, browser, overlapped, ended, disturbed>>

Login(t) == tab[t] = 0 /\ Ask(t, "login")
Refresh(t) == tab[t] # 0 /\ Ask(t, "refresh")
Logout(t) == tab[t] # 0 /\ Ask(t, "logout")

\* The effect of AuthProvider: a page is loaded, with nothing under way.
Mount(t) ==
  /\ \A i \in DOMAIN calls : calls[i].tab # t
  /\ tab' = [tab EXCEPT ![t] = store]
  /\ UNCHANGED <<rate, errand, sessions, store, calls, ghosts>>

\* Faulty: the tab forgets its session, the browser does not.
SignedOutHere(t) == tab' = [tab EXCEPT ![t] = 0] /\ UNCHANGED store

\* clearSession and the state of the tab.
SignedOut(t) == tab' = [tab EXCEPT ![t] = 0] /\ store' = 0

\* persistSession and the state of the tab.
SignedIn(t, s) == tab' = [tab EXCEPT ![t] = s] /\ store' = s

\* The Logout button of a tab that is signed out: nothing is asked, but the browser's
\* session is cleared.
LogoutHere(t) ==
  /\ errand = "sessions" /\ tab[t] = 0 /\ SignedOut(t)
  /\ UNCHANGED <<rate, errand, sessions, calls, ghosts>>

\* What login, refresh and logout do with their answer.
Deliver(i) ==
  LET call == calls[i] IN
  /\ \/ call.stage = "answered" /\ call.kind # "logout" /\ SignedIn(call.tab, call.token)
     \/ call.stage = "answered" /\ call.kind = "logout" /\ SignedOut(call.tab)
     \/ call.stage = "denied" /\ call.kind = "refresh" /\ SignedOut(call.tab)
     \/ call.stage = "denied" /\ call.kind = "login" /\ UNCHANGED browser
  /\ Over(i)
  /\ UNCHANGED <<rate, errand, sessions, ghosts>>

\* fetch rejects: the request or its answer is lost, or the API dies on the way.
Lose(i) ==
  /\ Over(i)
  /\ disturbed' = TRUE
  /\ UNCHANGED <<rate, errand, sessions, browser, asked, overlapped, ended>>

-----------------------------------------------------------------------------
(* The API. *)

\* The guard, and validateUser with a right or a wrong password.
Admit(i) ==
  /\ calls[i].kind = "login" /\ calls[i].stage = "sent"
  /\ CanActivate("login", Home)
  /\ \/ Allowed("login", Home) /\ Moved(i, "admitted")
     \/ Moved(i, "denied")
  /\ UNCHANGED <<errand, sessions, browser, ghosts>>

\* findFirst of refreshTokens.
FindSession(i) ==
  LET call == calls[i] login == sessions[call.token].login IN
  /\ call.kind = "refresh" /\ call.stage = "sent"
  /\ Moved(i, IF Usable(call.token) THEN "found" ELSE "denied")
  /\ overlapped' = IF Usable(call.token) /\ Rotating(login) # {}
                   THEN overlapped \cup {login} ELSE overlapped
  /\ UNCHANGED <<rate, errand, sessions, browser, asked, ended, disturbed>>

\* The old session, by its id.
RevokeOld(i) ==
  /\ calls[i].stage = "found"
  /\ sessions' = [sessions EXCEPT ![calls[i].token].revoked = TRUE]
  /\ Moved(i, "revoked")
  /\ UNCHANGED <<rate, errand, browser, ghosts>>

\* createRefreshToken, after a login or the revocation of the old session.
CreateSession(i) ==
  LET new == Len(sessions) + 1 IN
  /\ calls[i].stage \in {"admitted", "revoked"}
  /\ sessions' = Append(sessions,
       [login |-> IF calls[i].kind = "login" THEN new ELSE sessions[calls[i].token].login,
        revoked |-> FALSE, expiresAt |-> now + Lifetime])
  /\ calls' = [calls EXCEPT ![i] = [@ EXCEPT !.stage = "answered", !.token = new]]
  /\ UNCHANGED <<rate, errand, browser, ghosts>>

\* A statement throws, before or after the others: the answer is a 500, which the page
\* takes as a refusal.
Fail(i) ==
  /\ calls[i].kind # "logout" /\ calls[i].stage # "denied"
  /\ Moved(i, "denied")
  /\ UNCHANGED <<rate, errand, sessions, browser, ghosts>>

\* Logouts that meet a refresh, or that end a login.
Ending(logins) ==
  /\ overlapped' = overlapped \cup { l \in logins : Rotating(l) # {} }
  /\ ended' = ended \cup { l \in logins : Rotating(l) = {} /\ l \notin overlapped }

\* logout of the token that it is given; an access token that has expired is
\* refused by AuthGuard, and the tab signs out all the same.
RevokeToken(i) ==
  LET call == calls[i] login == sessions[call.token].login IN
  /\ call.kind = "logout" /\ call.stage = "sent"
  /\ Moved(i, "answered")
  /\ \/ /\ sessions' = [sessions EXCEPT ![call.token].revoked = TRUE]
        /\ Ending(IF Live(call.token) THEN {login} ELSE {})
     \/ UNCHANGED <<sessions, overlapped, ended>>
  /\ UNCHANGED <<rate, errand, browser, asked, disturbed>>

\* logout without a token, which a client other than the page may ask for.
RevokeAll ==
  /\ errand = "sessions" /\ \E s \in DOMAIN sessions : Live(s)
  /\ sessions' = [s \in DOMAIN sessions |-> [sessions[s] EXCEPT !.revoked = TRUE]]
  /\ Ending({ sessions[s].login : s \in DOMAIN sessions })
  /\ disturbed' = TRUE
  /\ UNCHANGED <<rate, errand, browser, calls, asked>>

\* A request of somebody else.
Elsewhere(route, tenant) ==
  /\ errand = "limits"
  /\ CanActivate(route, tenant)
  /\ UNCHANGED <<errand, sessions, browser, calls, ghosts>>

TimePasses ==
  /\ errand = "sessions" => now < MaxSessionTime
  /\ Tick
  /\ UNCHANGED <<errand, sessions, browser, calls, ghosts>>

-----------------------------------------------------------------------------
Init ==
  /\ RateInit
  /\ errand \in Errands
  /\ sessions = <<>>
  /\ tab = [t \in Tabs |-> 0] /\ store = 0
  /\ calls = <<>> /\ asked = 0
  /\ overlapped = {} /\ ended = {} /\ disturbed = FALSE

Next ==
  \/ \E t \in Tabs : Login(t) \/ Refresh(t) \/ Logout(t) \/ LogoutHere(t) \/ Mount(t)
  \/ \E i \in DOMAIN calls :
       \/ Deliver(i) \/ Lose(i) \/ Admit(i) \/ FindSession(i) \/ RevokeOld(i)
       \/ CreateSession(i) \/ Fail(i) \/ RevokeToken(i)
  \/ RevokeAll
  \/ \E route \in {"login", "command"}, t \in Tenants : Elsewhere(route, t)
  \/ TimePasses

Spec == Init /\ [][Next]_vars

-----------------------------------------------------------------------------
Sessions == DOMAIN sessions

\* Tokens are those of session rows, and every row descends from a login.
TypeOK ==
  /\ RateTypeOK
  /\ errand \in Errands
  /\ sessions \in Seq([login : Sessions, revoked : BOOLEAN, expiresAt : Nat])
  /\ tab \in [Tabs -> Sessions \cup {0}] /\ store \in Sessions \cup {0}
  /\ calls \in Seq([kind : {"login", "refresh", "logout"}, tab : Tabs,
                    token : Sessions \cup {0},
                    stage : {"sent", "admitted", "found", "revoked", "answered", "denied"}])
  /\ \A i \in DOMAIN calls : calls[i].token = 0 => calls[i].kind = "login"
  /\ overlapped \subseteq Sessions /\ ended \subseteq Sessions
  /\ asked \in 0..MaxCalls /\ disturbed \in BOOLEAN

LiveOf(login) == { s \in Sessions : sessions[s].login = login /\ Live(s) }

\* Rotation leaves one live session to a login, and logging out of it none: unless
\* two refreshes had both found their session before either revoked it, or a logout
\* came while one was between its lookup and its new session.
SessionsSingle ==
  \A l \in { sessions[s].login : s \in Sessions } \ overlapped :
    Cardinality(LiveOf(l)) <= IF l \in ended THEN 0 ELSE 1

\* When every call has been answered and none was lost, what localStorage holds is a
\* live session: whichever tab wrote last, no tab revokes the token that another
\* has left there without a later write of its own.
StoredLive ==
  store # 0 /\ ~disturbed /\ calls = <<>> => Live(store)
=============================================================================
