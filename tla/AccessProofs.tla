---------------------------- MODULE AccessProofs -----------------------------
(***************************************************************************)
(* Theorems about Access, for any number of tabs and calls and any limits: *)
(* the types, that rotation leaves a login one session, what localStorage  *)
(* holds, and what the windows of the rate limit let through.              *)
(***************************************************************************)
EXTENDS Access, FiniteSetTheorems, SequenceTheorems, TLAPS

Rows == [login : Nat, revoked : BOOLEAN, expiresAt : Nat]
Stages == {"sent", "admitted", "found", "revoked", "answered", "denied"}
CallRows == [kind : {"login", "refresh", "logout"}, tab : Tabs, token : Nat, stage : Stages]

\* A call, or a tab, speaks of a session that there is, or of none.
Known(token) == token \in DOMAIN sessions \cup {0}

\* Only logins have no token, only refreshes rotate and only logins are admitted.
Sensible(call) ==
  /\ Known(call.token)
  /\ call.token = 0 => call.kind = "login"
  /\ call.stage \in {"found", "revoked"} => call.kind = "refresh"
  /\ call.stage = "admitted" => call.kind = "login"

SessionsShaped ==
  /\ sessions \in Seq(Rows)
  /\ \A s \in DOMAIN sessions : sessions[s].login \in DOMAIN sessions
  /\ overlapped \subseteq DOMAIN sessions /\ ended \subseteq DOMAIN sessions

CallsShaped ==
  /\ calls \in Seq(CallRows)
  /\ \A i \in DOMAIN calls : Sensible(calls[i])

TabsShaped ==
  /\ tab \in [Tabs -> Nat]
  /\ \A t \in Tabs : Known(tab[t])
  /\ store \in Nat /\ Known(store)

Rotor(call) == call.kind = "refresh" /\ call.stage \in {"found", "revoked"}

\* The session s is a live one of login l.
Open(s, l) == s \in DOMAIN sessions /\ sessions[s].login = l /\ ~sessions[s].revoked

\* The refresh i is between its lookup and its new session, for login l.
Rotates(i, l) == i \in DOMAIN calls /\ Rotor(calls[i]) /\ sessions[calls[i].token].login = l

\* What holds of a login that is not overlapped: it has one live session and one
\* refresh under way at most; that refresh has found the live session or has revoked
\* it; and after a logout there is neither.
SingleOf(l) ==
  /\ \A s, t : Open(s, l) /\ Open(t, l) => s = t
  /\ \A i, j : Rotates(i, l) /\ Rotates(j, l) => i = j
  /\ \A i, s : Rotates(i, l) /\ Open(s, l) => calls[i].stage = "found" /\ calls[i].token = s
  /\ l \in ended => \A s : ~Open(s, l)
  /\ l \in ended => \A i : ~Rotates(i, l)

Single == \A l \in Nat \ overlapped : SingleOf(l)

Inv == now \in Nat /\ SessionsShaped /\ CallsShaped /\ TabsShaped /\ Single

------------------------------------------------------------------------------
(* Sequences of calls and of sessions *)

LEMMA Removing ==
  ASSUME NEW S, NEW s \in Seq(S), NEW i \in DOMAIN s, NEW t, t = RemoveAt(s, i)
  PROVE  /\ t \in Seq(S) /\ DOMAIN t = 1..(Len(s) - 1)
         /\ \A j \in DOMAIN t : /\ (IF j < i THEN j ELSE j + 1) \in DOMAIN s
                                /\ t[j] = s[IF j < i THEN j ELSE j + 1]
  <1>1. Len(s) \in Nat /\ DOMAIN s = 1..Len(s) /\ i \in 1..Len(s)
    OBVIOUS
  <1>2. /\ SubSeq(s, 1, i - 1) \in Seq(S) /\ Len(SubSeq(s, 1, i - 1)) = i - 1
        /\ \A j \in 1..(i - 1) : SubSeq(s, 1, i - 1)[j] = s[j]
    BY <1>1
  <1>3. /\ SubSeq(s, i + 1, Len(s)) \in Seq(S) /\ Len(SubSeq(s, i + 1, Len(s))) = Len(s) - i
        /\ \A j \in 1..(Len(s) - i) : SubSeq(s, i + 1, Len(s))[j] = s[i + j]
    BY <1>1
  <1>4. t = SubSeq(s, 1, i - 1) \o SubSeq(s, i + 1, Len(s))
    BY DEF RemoveAt
  <1>5. ASSUME NEW u \in Seq(S), NEW v \in Seq(S)
        PROVE  /\ u \o v \in Seq(S) /\ Len(u \o v) = Len(u) + Len(v)
               /\ \A j \in 1..(Len(u) + Len(v)) :
                    (u \o v)[j] = IF j <= Len(u) THEN u[j] ELSE v[j - Len(u)]
    BY ConcatProperties
  <1>6. PICK u \in Seq(S), v \in Seq(S) :
          /\ Len(u) = i - 1 /\ \A j \in 1..(i - 1) : u[j] = s[j]
          /\ Len(v) = Len(s) - i /\ \A j \in 1..(Len(s) - i) : v[j] = s[i + j]
          /\ t = u \o v
    <2> WITNESS SubSeq(s, 1, i - 1) \in Seq(S), SubSeq(s, i + 1, Len(s)) \in Seq(S)
    <2> QED
      BY <1>2, <1>3, <1>4, Zenon
  <1>7. /\ t \in Seq(S) /\ Len(t) = Len(u) + Len(v)
        /\ \A j \in 1..(Len(u) + Len(v)) : t[j] = IF j <= Len(u) THEN u[j] ELSE v[j - Len(u)]
    <2>1. t = u \o v
      BY <1>6
    <2>2. /\ u \o v \in Seq(S) /\ Len(u \o v) = Len(u) + Len(v)
          /\ \A j \in 1..(Len(u) + Len(v)) :
               (u \o v)[j] = IF j <= Len(u) THEN u[j] ELSE v[j - Len(u)]
      BY ONLY <1>5, u \in Seq(S), v \in Seq(S)
    <2> QED
      BY ONLY <2>1, <2>2
  <1>8. Len(u) + Len(v) = Len(s) - 1
    BY <1>1, <1>6
  <1>9. DOMAIN t = 1..(Len(s) - 1)
    BY <1>7, <1>8
  <1>10. ASSUME NEW j \in 1..(Len(s) - 1)
        PROVE  /\ (IF j < i THEN j ELSE j + 1) \in DOMAIN s
               /\ t[j] = s[IF j < i THEN j ELSE j + 1]
    <2>1. CASE j < i
      <3>1. j <= Len(u) /\ j \in 1..(i - 1)
        BY <1>1, <1>6, <2>1
      <3>2. t[j] = u[j]
        BY <1>7, <1>8, <3>1, <1>6
      <3> QED
        BY <1>1, <1>6, <2>1, <3>1, <3>2
    <2>2. CASE ~(j < i)
      <3>1. j - Len(u) \in 1..(Len(s) - i) /\ ~(j <= Len(u)) /\ i + (j - Len(u)) = j + 1
        BY <1>1, <1>6, <2>2
      <3>2. t[j] = v[j - Len(u)]
        BY <1>7, <1>8, <3>1, <1>6
      <3>3. t[j] = s[j + 1]
        BY <1>6, <3>1, <3>2
      <3> QED
        BY <1>1, <2>2, <3>3
    <2> QED
      BY <2>1, <2>2
  <1> QED
    BY <1>7, <1>9, <1>10

LEMMA Appending ==
  ASSUME NEW S, NEW s \in Seq(S), NEW x \in S, NEW t, t = Append(s, x)
  PROVE  /\ t \in Seq(S)
         /\ Len(s) \in Nat /\ DOMAIN s = 1..Len(s)
         /\ DOMAIN t = 1..(Len(s) + 1)
         /\ \A i \in 1..Len(s) : t[i] = s[i]
         /\ t[Len(s) + 1] = x
  OBVIOUS

\* A stage is set.
LEMMA Setting ==
  ASSUME NEW s \in Seq(CallRows), NEW i \in DOMAIN s, NEW stage \in Stages,
         NEW t, t = [s EXCEPT ![i].stage = stage]
  PROVE  /\ t \in Seq(CallRows) /\ DOMAIN t = DOMAIN s
         /\ \A j \in DOMAIN s : j # i => t[j] = s[j]
         /\ t[i].kind = s[i].kind /\ t[i].tab = s[i].tab /\ t[i].token = s[i].token
         /\ t[i].stage = stage
  <1>1. s[i] \in CallRows
    OBVIOUS
  <1>2. [s[i] EXCEPT !.stage = stage] \in CallRows
    BY <1>1 DEF CallRows
  <1> PICK x : x = [s[i] EXCEPT !.stage = stage]
    OBVIOUS
  <1>3. /\ x \in CallRows
        /\ x.kind = s[i].kind /\ x.tab = s[i].tab /\ x.token = s[i].token /\ x.stage = stage
    BY <1>1, <1>2 DEF CallRows
  <1>4. t = [s EXCEPT ![i] = x]
    OBVIOUS
  <1>5. /\ t \in Seq(CallRows) /\ DOMAIN t = DOMAIN s /\ t[i] = x
        /\ \A j \in DOMAIN s : j # i => t[j] = s[j]
    BY <1>3, <1>4
  <1> QED
    BY <1>3, <1>5

------------------------------------------------------------------------------
(* Calls that come and go *)

\* A step that touches no session, and in whose calls every rotating refresh is one
\* that was there: f says which.
LEMMA Carry ==
  ASSUME Single, UNCHANGED <<sessions, overlapped, ended>>, NEW f,
         \A j \in DOMAIN calls' :
           Rotor(calls'[j]) => f[j] \in DOMAIN calls /\ calls[f[j]] = calls'[j],
         \A j, k \in DOMAIN calls' : f[j] = f[k] => j = k
  PROVE  Single'
  <1> SUFFICES ASSUME NEW l \in Nat \ overlapped PROVE SingleOf(l)'
    BY DEF Single
  <1>1. \A s : Open(s, l)' <=> Open(s, l)
    BY DEF Open
  <1>2. ASSUME NEW i, Rotates(i, l)'
        PROVE  /\ i \in DOMAIN calls' /\ Rotates(f[i], l)
               /\ calls[f[i]] = calls'[i]
    BY <1>2 DEF Rotates
  <1>3. SingleOf(l) /\ ended' = ended
    BY DEF Single
  <1>4. \A i, j : Rotates(i, l)' /\ Rotates(j, l)' => i = j
    BY <1>2, <1>3 DEF SingleOf
  <1>5. \A i, s : Rotates(i, l)' /\ Open(s, l)' => calls'[i].stage = "found" /\ calls'[i].token = s
    BY <1>1, <1>2, <1>3 DEF SingleOf
  <1> QED
    BY <1>1, <1>2, <1>3, <1>4, <1>5 DEF SingleOf

LEMMA RotatingRotates == \A l : Rotating(l) = { i \in DOMAIN calls : Rotates(i, l) }
  BY DEF Rotating, Rotates, Rotor

\* A session is revoked.
LEMMA Revoking ==
  ASSUME Inv, NEW s \in DOMAIN sessions, sessions' = [sessions EXCEPT ![s].revoked = TRUE],
         overlapped' \subseteq DOMAIN sessions, ended' \subseteq DOMAIN sessions
  PROVE  /\ SessionsShaped' /\ DOMAIN sessions' = DOMAIN sessions
         /\ \A t \in DOMAIN sessions : /\ sessions'[t].login = sessions[t].login
                                       /\ ~sessions'[t].revoked => ~sessions[t].revoked
         /\ sessions'[s].revoked
  <1>1. sessions \in Seq(Rows) /\ sessions[s] \in Rows
    BY DEF Inv, SessionsShaped
  <1> PICK x : x = [sessions[s] EXCEPT !.revoked = TRUE]
    OBVIOUS
  <1>2. x \in Rows /\ x.login = sessions[s].login /\ x.revoked = TRUE
    BY <1>1 DEF Rows
  <1>3. sessions' = [sessions EXCEPT ![s] = x]
    OBVIOUS
  <1>4. /\ sessions' \in Seq(Rows) /\ DOMAIN sessions' = DOMAIN sessions
        /\ sessions'[s] = x /\ \A t \in DOMAIN sessions : t # s => sessions'[t] = sessions[t]
    BY <1>1, <1>2, <1>3
  <1>5. \A t \in DOMAIN sessions : /\ sessions'[t].login = sessions[t].login
                                   /\ ~sessions'[t].revoked => ~sessions[t].revoked
    BY <1>2, <1>4
  <1> QED
    BY <1>2, <1>4, <1>5 DEF Inv, SessionsShaped

\* A call in hand has its type; only a login has no session to speak of.
LEMMA CallInHand ==
  ASSUME Inv, NEW i \in DOMAIN calls
  PROVE  /\ calls[i] \in CallRows /\ Sensible(calls[i])
         /\ calls[i].kind # "login" => /\ calls[i].token \in DOMAIN sessions
                                       /\ sessions[calls[i].token] \in Rows
                                       /\ sessions[calls[i].token].login \in DOMAIN sessions
                                       /\ sessions[calls[i].token].login \in Nat
  <1>1. calls[i] \in CallRows /\ Sensible(calls[i])
    BY DEF Inv, CallsShaped
  <1>2. \A s \in DOMAIN sessions :
          sessions[s] \in Rows /\ sessions[s].login \in DOMAIN sessions /\ sessions[s].login \in Nat
    <2>1. sessions \in Seq(Rows) /\ \A s \in DOMAIN sessions : sessions[s].login \in DOMAIN sessions
      BY DEF Inv, SessionsShaped
    <2>2. \A s \in DOMAIN sessions : sessions[s] \in Rows
      BY <2>1
    <2> QED
      BY <2>1, <2>2 DEF Rows
  <1> QED
    BY <1>1, <1>2 DEF Sensible, Known

\* A call is removed: the others are where they were, or one place earlier.
LEMMA Leaving ==
  ASSUME Inv, NEW i \in DOMAIN calls, Over(i)
  PROVE  \E f : /\ \A j \in DOMAIN calls' : /\ f[j] \in DOMAIN calls /\ f[j] # i
                                           /\ calls'[j] = calls[f[j]]
                /\ \A j, k \in DOMAIN calls' : f[j] = f[k] => j = k
                /\ \A k \in DOMAIN calls : k # i => \E j \in DOMAIN calls' : calls'[j] = calls[k]
  <1>1. /\ calls \in Seq(CallRows) /\ calls' = RemoveAt(calls, i)
        /\ Len(calls) \in Nat /\ DOMAIN calls = 1..Len(calls) /\ i \in Nat
    BY DEF Inv, CallsShaped, Over
  <1> DEFINE f == [j \in Nat |-> IF j < i THEN j ELSE j + 1]
  <1> PICK t : t = calls'
    OBVIOUS
  <1>2. /\ DOMAIN t = 1..(Len(calls) - 1) /\ DOMAIN t \subseteq Nat
        /\ \A j \in DOMAIN t : f[j] \in DOMAIN calls /\ t[j] = calls[f[j]]
    <2>1. /\ DOMAIN t = 1..(Len(calls) - 1)
          /\ \A j \in DOMAIN t : /\ (IF j < i THEN j ELSE j + 1) \in DOMAIN calls
                                 /\ t[j] = calls[IF j < i THEN j ELSE j + 1]
      BY <1>1, Removing
    <2>2. DOMAIN t \subseteq Nat
      BY <1>1, <2>1
    <2> QED
      BY <2>1, <2>2
  <1>3. /\ \A j, k \in DOMAIN t : f[j] = f[k] => j = k
        /\ \A j \in DOMAIN t : f[j] # i
    <2>1. \A j, k \in Nat : (f[j] = f[k] => j = k) /\ f[j] # i
      BY <1>1
    <2> HIDE DEF f
    <2> QED
      BY <1>2, <2>1
  <1>4. \A k \in DOMAIN calls : k # i => \E j \in DOMAIN t : t[j] = calls[k]
    <2> SUFFICES ASSUME NEW k \in DOMAIN calls, k # i PROVE \E j \in DOMAIN t : t[j] = calls[k]
      OBVIOUS
    <2>1. CASE k < i
      <3>1. k \in DOMAIN t /\ f[k] = k
        BY <1>1, <1>2, <2>1
      <3> QED
        BY <1>2, <3>1
    <2>2. CASE ~(k < i)
      <3>1. k \in 1..Len(calls) /\ i < k /\ i \in 1..Len(calls)
        BY <1>1, <2>2
      <3>2. k - 1 \in 1..(Len(calls) - 1) /\ k - 1 \in Nat /\ ~(k - 1 < i) /\ (k - 1) + 1 = k
        BY <1>1, <3>1
      <3>3. k - 1 \in DOMAIN t /\ f[k - 1] = k
        BY <1>2, <3>2
      <3> QED
        BY <1>2, <3>3
    <2> QED
      BY <2>1, <2>2
  <1> HIDE DEF f
  <1> QED
    BY <1>2, <1>3, <1>4

\* A call is removed that is not between its lookup and its new session.
LEMMA CallGone ==
  ASSUME Inv, NEW i \in DOMAIN calls, Over(i), UNCHANGED <<sessions, overlapped, ended>>
  PROVE  CallsShaped' /\ Single'
  <1>1. calls \in Seq(CallRows) /\ calls' = RemoveAt(calls, i)
    BY DEF Inv, CallsShaped, Over
  <1>2. PICK f : /\ \A j \in DOMAIN calls' : /\ f[j] \in DOMAIN calls /\ f[j] # i
                                           /\ calls'[j] = calls[f[j]]
                 /\ \A j, k \in DOMAIN calls' : f[j] = f[k] => j = k
    BY Leaving
  <1>3. Single'
    BY <1>2, Carry DEF Inv
  <1>4. calls' \in Seq(CallRows)
    BY <1>1, Removing
  <1>5. CallsShaped'
    BY <1>2, <1>4 DEF Inv, CallsShaped, Sensible, Known
  <1> QED
    BY <1>3, <1>5

\* A call comes that has asked for nothing yet.
LEMMA CallCame ==
  ASSUME Inv, NEW call \in CallRows, Sensible(call), ~Rotor(call),
         calls' = Append(calls, call), UNCHANGED <<sessions, overlapped, ended>>
  PROVE  CallsShaped' /\ Single'
  <1>1. calls \in Seq(CallRows)
    BY DEF Inv, CallsShaped
  <1>2. PICK t : t = calls'
    OBVIOUS
  <1>3. /\ t \in Seq(CallRows)
        /\ Len(calls) \in Nat /\ DOMAIN calls = 1..Len(calls)
        /\ DOMAIN t = 1..(Len(calls) + 1)
        /\ \A i \in 1..Len(calls) : t[i] = calls[i]
        /\ t[Len(calls) + 1] = call
    BY <1>1, <1>2, Appending
  <1>4. \A j \in DOMAIN t : Rotor(t[j]) => j \in DOMAIN calls /\ calls[j] = t[j]
    BY <1>3
  <1> DEFINE f == [j \in Nat |-> j]
  <1>5. \A j \in DOMAIN t : f[j] = j
    BY <1>3
  <1> HIDE DEF f
  <1>6. Single'
    BY <1>2, <1>4, <1>5, Carry DEF Inv
  <1>7. CallsShaped'
    BY <1>2, <1>3 DEF Inv, CallsShaped, Sensible, Known
  <1> QED
    BY <1>6, <1>7

\* A call moves on, the sessions there are staying.
LEMMA CallMoves ==
  ASSUME Inv, NEW i \in DOMAIN calls, NEW stage \in Stages, Moved(i, stage),
         stage \in {"found", "revoked"} => calls[i].kind = "refresh",
         stage = "admitted" => calls[i].kind = "login",
         DOMAIN sessions' = DOMAIN sessions
  PROVE  /\ CallsShaped' /\ DOMAIN calls' = DOMAIN calls
         /\ \A j \in DOMAIN calls : j # i => calls'[j] = calls[j]
         /\ calls'[i].kind = calls[i].kind /\ calls'[i].token = calls[i].token
         /\ calls'[i].stage = stage
  <1>1. calls \in Seq(CallRows) /\ calls' = [calls EXCEPT ![i].stage = stage]
    BY DEF Inv, CallsShaped, Moved
  <1>2. /\ calls' \in Seq(CallRows) /\ DOMAIN calls' = DOMAIN calls
        /\ \A j \in DOMAIN calls : j # i => calls'[j] = calls[j]
        /\ calls'[i].kind = calls[i].kind /\ calls'[i].token = calls[i].token
        /\ calls'[i].stage = stage
    BY <1>1, Setting
  <1>3. Sensible(calls[i])'
    BY <1>2, CallInHand DEF Sensible, Known
  <1>4. \A j \in DOMAIN calls' : j # i => Sensible(calls[j])'
    BY <1>2, CallInHand DEF Sensible, Known
  <1> QED
    BY <1>2, <1>3, <1>4 DEF CallsShaped

\* A call moves on past no session.
LEMMA CallMovesAside ==
  ASSUME Inv, NEW i \in DOMAIN calls, NEW stage \in {"admitted", "denied", "answered"},
         Moved(i, stage), stage = "admitted" => calls[i].kind = "login",
         UNCHANGED <<sessions, overlapped, ended>>
  PROVE  CallsShaped' /\ Single'
  <1>1. /\ CallsShaped' /\ DOMAIN calls' = DOMAIN calls
        /\ \A j \in DOMAIN calls : j # i => calls'[j] = calls[j]
        /\ calls'[i].stage = stage
    BY CallMoves DEF Stages
  <1>2. DOMAIN calls \subseteq Nat
    BY DEF Inv, CallsShaped
  <1>3. \A j \in DOMAIN calls' : Rotor(calls'[j]) => j \in DOMAIN calls /\ calls[j] = calls'[j]
    BY <1>1 DEF Rotor
  <1> DEFINE f == [j \in Nat |-> j]
  <1>4. \A j \in DOMAIN calls' : f[j] = j
    BY <1>1, <1>2
  <1> HIDE DEF f
  <1> QED
    BY <1>1, <1>3, <1>4, Carry DEF Inv

------------------------------------------------------------------------------
(* The tabs *)

LEMMA TabsKept ==
  ASSUME Inv, UNCHANGED browser, DOMAIN sessions \subseteq DOMAIN sessions'
  PROVE  TabsShaped'
  BY DEF Inv, TabsShaped, Known, browser

LEMMA SessionsKept ==
  ASSUME Inv, UNCHANGED <<sessions, overlapped, ended>>
  PROVE  SessionsShaped'
  BY DEF Inv, SessionsShaped

\* A step of the browser alone.
LEMMA BrowserKeeps ==
  ASSUME Inv, TabsShaped', UNCHANGED <<now, sessions, calls, overlapped, ended>>
  PROVE  Inv'
  BY SessionsKept DEF Inv, CallsShaped, Sensible, Known, Single, SingleOf, Open, Rotates

LEMMA AskKeeps ==
  ASSUME Inv, NEW t \in Tabs, NEW kind \in {"login", "refresh", "logout"},
         tab[t] = 0 => kind = "login", Ask(t, kind)
  PROVE  Inv'
  <1> PICK call : call = [kind |-> kind, tab |-> t, token |-> tab[t], stage |-> "sent"]
    OBVIOUS
  <1>1. tab[t] \in Nat /\ Known(tab[t])
    BY DEF Inv, TabsShaped
  <1>2. call \in CallRows /\ Sensible(call) /\ ~Rotor(call)
    BY <1>1 DEF CallRows, Stages, Sensible, Rotor
  <1>3. /\ calls' = Append(calls, call)
        /\ UNCHANGED <<now, sessions, browser, overlapped, ended>>
    BY DEF Ask, rate
  <1>4. CallsShaped' /\ Single'
    BY <1>2, <1>3, CallCame
  <1> QED
    BY <1>3, <1>4, TabsKept, SessionsKept DEF Inv

LEMMA MountKeeps ==
  ASSUME Inv, NEW t \in Tabs, Mount(t)
  PROVE  Inv'
  <1>1. tab' = [tab EXCEPT ![t] = store] /\ store' = store
        /\ UNCHANGED <<now, sessions, calls, overlapped, ended>>
    BY DEF Mount, rate, ghosts
  <1>2. TabsShaped'
    BY <1>1 DEF Inv, TabsShaped, Known
  <1> QED
    BY <1>1, <1>2, BrowserKeeps

LEMMA LogoutHereKeeps ==
  ASSUME Inv, NEW t \in Tabs, LogoutHere(t)
  PROVE  Inv'
  <1>1. tab' = [tab EXCEPT ![t] = 0] /\ store' = 0
        /\ UNCHANGED <<now, sessions, calls, overlapped, ended>>
    BY DEF LogoutHere, SignedOut, rate, ghosts
  <1>2. TabsShaped'
    BY <1>1 DEF Inv, TabsShaped, Known
  <1> QED
    BY <1>1, <1>2, BrowserKeeps

LEMMA DeliverKeeps ==
  ASSUME Inv, NEW i \in DOMAIN calls, Deliver(i)
  PROVE  Inv'
  <1>1. /\ calls[i].stage \in {"answered", "denied"} /\ Over(i)
        /\ UNCHANGED <<now, sessions, overlapped, ended>>
    BY DEF Deliver, rate, ghosts
  <1>2. CallsShaped' /\ Single'
    BY <1>1, CallGone DEF Rotor
  <1>3. /\ calls[i].tab \in Tabs /\ calls[i].token \in Nat /\ Known(calls[i].token)
    BY CallInHand DEF CallRows, Sensible
  <1>4. TabsShaped'
    <2>1. \/ tab' = [tab EXCEPT ![calls[i].tab] = calls[i].token] /\ store' = calls[i].token
          \/ tab' = [tab EXCEPT ![calls[i].tab] = 0] /\ store' = 0
          \/ tab' = tab /\ store' = store
      BY DEF Deliver, SignedIn, SignedOut, browser
    <2> QED
      BY <1>1, <1>3, <2>1 DEF Inv, TabsShaped, Known
  <1> QED
    BY <1>1, <1>2, <1>4, SessionsKept DEF Inv

LEMMA LoseKeeps ==
  ASSUME Inv, NEW i \in DOMAIN calls, Lose(i)
  PROVE  Inv'
  <1>1. Over(i) /\ UNCHANGED <<now, sessions, browser, overlapped, ended>>
    BY DEF Lose, rate
  <1>2. CallsShaped' /\ Single'
    BY <1>1, CallGone
  <1> QED
    BY <1>1, <1>2, TabsKept, SessionsKept DEF Inv

------------------------------------------------------------------------------
(* The API *)

LEMMA AdmitKeeps ==
  ASSUME Inv, NEW i \in DOMAIN calls, Admit(i)
  PROVE  Inv'
  <1>1. now' = now
    BY DEF Admit, CanActivate
  <1>2. /\ calls[i].kind = "login" /\ (Moved(i, "admitted") \/ Moved(i, "denied"))
        /\ UNCHANGED <<sessions, browser, overlapped, ended>>
    BY DEF Admit, ghosts
  <1>3. CallsShaped' /\ Single'
    BY <1>2, CallMovesAside
  <1> QED
    BY <1>1, <1>2, <1>3, TabsKept, SessionsKept DEF Inv

LEMMA FailKeeps ==
  ASSUME Inv, NEW i \in DOMAIN calls, Fail(i)
  PROVE  Inv'
  <1>1. Moved(i, "denied") /\ UNCHANGED <<now, sessions, browser, overlapped, ended>>
    BY DEF Fail, rate, ghosts
  <1>2. CallsShaped' /\ Single'
    BY <1>1, CallMovesAside
  <1> QED
    BY <1>1, <1>2, TabsKept, SessionsKept DEF Inv

LEMMA FindSessionKeeps ==
  ASSUME Inv, NEW i \in DOMAIN calls, FindSession(i)
  PROVE  Inv'
  <1>1. /\ calls[i].kind = "refresh" /\ calls[i].stage = "sent"
        /\ UNCHANGED <<now, sessions, browser, ended>>
    BY DEF FindSession, rate
  <1>2. CASE ~Usable(calls[i].token)
    <2>1. Moved(i, "denied") /\ overlapped' = overlapped
      BY <1>2 DEF FindSession
    <2>2. CallsShaped' /\ Single'
      BY <1>1, <2>1, CallMovesAside
    <2> QED
      BY <1>1, <2>1, <2>2, TabsKept, SessionsKept DEF Inv
  <1>3. CASE Usable(calls[i].token)
    <2> PICK token : token = calls[i].token
      OBVIOUS
    <2> PICK login : login = sessions[token].login
      OBVIOUS
    <2>1. /\ Moved(i, "found")
          /\ overlapped' = IF Rotating(login) # {} THEN overlapped \cup {login} ELSE overlapped
      BY <1>3 DEF FindSession
    <2>2. /\ CallsShaped' /\ DOMAIN calls' = DOMAIN calls
          /\ \A j \in DOMAIN calls : j # i => calls'[j] = calls[j]
          /\ calls'[i].kind = "refresh" /\ calls'[i].token = token
          /\ calls'[i].stage = "found"
      BY <1>1, <2>1, CallMoves DEF Stages
    <2>3. token \in DOMAIN sessions /\ login \in DOMAIN sessions /\ Open(token, login)
      BY <1>1, <1>3, CallInHand DEF Open, Usable, Live
    <2>4. SessionsShaped'
      BY <1>1, <2>1, <2>3 DEF Inv, SessionsShaped
    <2>5. Single'
      <3> SUFFICES ASSUME NEW l \in Nat \ overlapped' PROVE SingleOf(l)'
        BY DEF Single
      <3>1. \A s : Open(s, l)' <=> Open(s, l)
        BY <1>1 DEF Open
      <3>2. \A j : j # i => (Rotates(j, l)' <=> Rotates(j, l))
        BY <1>1, <2>2 DEF Rotates
      <3>3. Rotates(i, l)' <=> l = login
        BY <1>1, <2>2 DEF Rotates, Rotor
      <3>4. l \notin overlapped /\ (l = login => \A j : ~Rotates(j, l))
        BY <2>1, RotatingRotates DEF Rotates
      <3>5. SingleOf(l)
        BY <3>4 DEF Inv, Single
      <3>6. CASE l = login
        BY <1>1, <2>2, <2>3, <3>1, <3>2, <3>4, <3>5, <3>6 DEF SingleOf
      <3>7. CASE l # login
        <4>1. \A j : Rotates(j, l)' => j # i /\ j \in DOMAIN calls /\ Rotates(j, l)
          BY <3>2, <3>3, <3>7 DEF Rotates
        <4> QED
          BY <1>1, <2>2, <3>1, <3>5, <4>1 DEF SingleOf
      <3> QED
        BY <3>6, <3>7
    <2> QED
      BY <1>1, <2>2, <2>4, <2>5, TabsKept DEF Inv
  <1> QED
    BY <1>2, <1>3

LEMMA RevokeOldKeeps ==
  ASSUME Inv, NEW i \in DOMAIN calls, RevokeOld(i)
  PROVE  Inv'
  <1> PICK token : token = calls[i].token
    OBVIOUS
  <1> PICK login : login = sessions[token].login
    OBVIOUS
  <1>1. /\ calls[i].stage = "found" /\ Moved(i, "revoked")
        /\ sessions' = [sessions EXCEPT ![token].revoked = TRUE]
        /\ UNCHANGED <<now, browser, overlapped, ended>>
    BY DEF RevokeOld, rate, ghosts
  <1>2. calls[i].kind = "refresh" /\ token \in DOMAIN sessions /\ Rotates(i, login)
    BY <1>1, CallInHand DEF Sensible, Rotates, Rotor
  <1>3. /\ SessionsShaped' /\ DOMAIN sessions' = DOMAIN sessions
        /\ \A s \in DOMAIN sessions : /\ sessions'[s].login = sessions[s].login
                                      /\ ~sessions'[s].revoked => ~sessions[s].revoked
        /\ sessions'[token].revoked
    <2>1. overlapped' \subseteq DOMAIN sessions /\ ended' \subseteq DOMAIN sessions
      BY <1>1 DEF Inv, SessionsShaped
    <2> QED
      BY <1>1, <1>2, <2>1, Revoking
  <1>4. /\ CallsShaped' /\ DOMAIN calls' = DOMAIN calls
        /\ \A j \in DOMAIN calls : j # i => calls'[j] = calls[j]
        /\ calls'[i].kind = "refresh" /\ calls'[i].token = token
        /\ calls'[i].stage = "revoked"
    BY <1>1, <1>2, <1>3, CallMoves DEF Stages
  <1>5. Single'
    <2> SUFFICES ASSUME NEW l \in Nat \ overlapped PROVE SingleOf(l)'
      BY <1>1 DEF Single
    <2>1. SingleOf(l)
      BY DEF Inv, Single
    <2>2. \A s : Open(s, l)' => Open(s, l) /\ s # token
      BY <1>3 DEF Open
    <2>3. \A j : Rotates(j, l)' => /\ j \in DOMAIN calls /\ Rotates(j, l)
                                   /\ (j = i => l = login)
      BY <1>1, <1>2, <1>3, <1>4, CallInHand DEF Rotates, Rotor
    <2>4. \A s : l = login => ~Open(s, l)'
      BY <1>2, <2>1, <2>2 DEF SingleOf
    <2> QED
      BY <1>1, <1>4, <2>1, <2>2, <2>3, <2>4 DEF SingleOf
  <1> QED
    BY <1>1, <1>3, <1>4, <1>5, TabsKept DEF Inv

LEMMA CreateSessionKeeps ==
  ASSUME Inv, NEW i \in DOMAIN calls, CreateSession(i)
  PROVE  Inv'
  <1> PICK new : new = Len(sessions) + 1
    OBVIOUS
  <1> PICK login : login = IF calls[i].kind = "login" THEN new ELSE sessions[calls[i].token].login
    OBVIOUS
  <1> PICK row : row = [login |-> login, revoked |-> FALSE, expiresAt |-> now + Lifetime]
    OBVIOUS
  <1> PICK call : call = [calls[i] EXCEPT !.stage = "answered", !.token = new]
    OBVIOUS
  <1>1. /\ calls[i].stage \in {"admitted", "revoked"}
        /\ sessions' = Append(sessions, row)
        /\ calls' = [calls EXCEPT ![i] = call]
        /\ UNCHANGED <<now, browser, overlapped, ended>>
    BY DEF CreateSession, rate, ghosts
  <1>2. /\ calls[i] \in CallRows
        /\ calls[i].stage = "admitted" => calls[i].kind = "login"
        /\ calls[i].stage = "revoked" =>
             /\ calls[i].kind = "refresh" /\ login \in DOMAIN sessions /\ Rotates(i, login)
    BY <1>1, CallInHand DEF Sensible, Rotates, Rotor
  <1>3. /\ sessions \in Seq(Rows) /\ Len(sessions) \in Nat /\ DOMAIN sessions = 1..Len(sessions)
        /\ now \in Nat /\ calls \in Seq(CallRows)
    BY DEF Inv, SessionsShaped, CallsShaped
  <1>4. new \in Nat /\ new # 0 /\ login \in 1..new
    BY <1>1, <1>2, <1>3
  <1>5. row \in Rows /\ row.login = login /\ row.revoked = FALSE
    BY <1>3, <1>4, AccessConstants DEF Rows
  <1>6. /\ sessions' \in Seq(Rows) /\ DOMAIN sessions' = 1..new
        /\ \A s \in DOMAIN sessions : sessions'[s] = sessions[s]
        /\ sessions'[new] = row
    <2> PICK t : t = sessions'
      OBVIOUS
    <2>1. /\ t \in Seq(Rows) /\ DOMAIN t = 1..(Len(sessions) + 1)
          /\ \A s \in 1..Len(sessions) : t[s] = sessions[s]
          /\ t[Len(sessions) + 1] = row
      BY <1>1, <1>3, <1>5, Appending
    <2> QED
      BY <1>3, <2>1
  <1>7. /\ call \in CallRows /\ call.kind = calls[i].kind /\ call.token = new
        /\ call.stage = "answered"
    BY <1>2, <1>4 DEF CallRows, Stages
  <1>8. /\ calls' \in Seq(CallRows) /\ DOMAIN calls' = DOMAIN calls /\ calls'[i] = call
        /\ \A j \in DOMAIN calls : j # i => calls'[j] = calls[j]
    BY <1>1, <1>3, <1>7
  <1>9. DOMAIN sessions \subseteq DOMAIN sessions' /\ new \notin DOMAIN sessions
    BY <1>3, <1>4, <1>6
  <1>10. SessionsShaped'
    <2>1. \A s \in DOMAIN sessions' : s \in DOMAIN sessions \/ s = new
      BY <1>3, <1>4, <1>6
    <2>2. \A s \in DOMAIN sessions' : sessions'[s].login \in DOMAIN sessions'
      BY <1>4, <1>5, <1>6, <1>9, <2>1 DEF Inv, SessionsShaped
    <2> QED
      BY <1>1, <1>6, <1>9, <2>2 DEF Inv, SessionsShaped
  <1>11. CallsShaped'
    <2>1. Sensible(calls[i])'
      BY <1>4, <1>6, <1>7, <1>8 DEF Sensible, Known
    <2>2. \A j \in DOMAIN calls' : j # i => Sensible(calls[j])'
      BY <1>8, <1>9, CallInHand DEF Sensible, Known
    <2> QED
      BY <1>8, <2>1, <2>2 DEF CallsShaped
  <1>12. Single'
    <2> SUFFICES ASSUME NEW l \in Nat \ overlapped PROVE SingleOf(l)'
      BY <1>1 DEF Single
    <2>1. SingleOf(l)
      BY DEF Inv, Single
    <2>2. \A s : Open(s, l)' => Open(s, l) \/ (s = new /\ l = login)
      BY <1>3, <1>4, <1>5, <1>6 DEF Open
    <2>3. \A j : Rotates(j, l)' => j # i /\ Rotates(j, l)
      <3>1. ASSUME NEW j, Rotates(j, l)'
            PROVE  j # i /\ j \in DOMAIN calls /\ Rotor(calls[j])
                   /\ sessions'[calls[j].token].login = l
        BY <1>7, <1>8, <3>1 DEF Rotates, Rotor
      <3>2. \A j \in DOMAIN calls : Rotor(calls[j]) => calls[j].token \in DOMAIN sessions
        BY CallInHand DEF Rotor
      <3> QED
        BY <1>6, <3>1, <3>2 DEF Rotates
    <2>4. CASE l # login
      BY <1>1, <1>8, <2>1, <2>2, <2>3, <2>4 DEF SingleOf
    <2>5. CASE l = login
      <3>1. CASE calls[i].stage = "admitted"
        <4>1. l \notin DOMAIN sessions
          BY <1>2, <1>9, <2>5, <3>1
        <4>2. \A s : ~Open(s, l)
          BY <4>1 DEF Open, Inv, SessionsShaped
        <4>3. \A j : ~Rotates(j, l)
          BY <4>1, CallInHand DEF Rotates, Rotor
        <4>4. l \notin ended
          BY <4>1 DEF Inv, SessionsShaped
        <4> QED
          BY <1>1, <2>2, <2>3, <4>2, <4>3, <4>4 DEF SingleOf
      <3>2. CASE calls[i].stage = "revoked"
        <4>1. /\ \A s : ~Open(s, l)
              /\ \A j : Rotates(j, l) => j = i
              /\ l \notin ended
          BY <1>2, <2>1, <2>5, <3>2 DEF SingleOf
        <4> QED
          BY <1>1, <2>2, <2>3, <4>1 DEF SingleOf
      <3> QED
        BY <1>1, <3>1, <3>2
    <2> QED
      BY <2>4, <2>5
  <1> QED
    BY <1>1, <1>9, <1>10, <1>11, <1>12, TabsKept DEF Inv

\* What logouts leave to say of a login.
LEMMA EndingSays ==
  ASSUME NEW logins, Ending(logins), NEW l, l \notin overlapped'
  PROVE  /\ l \notin overlapped
         /\ l \in logins => \A i : ~Rotates(i, l)
         /\ l \in ended' => l \in ended \/ l \in logins
  BY RotatingRotates DEF Ending, Rotates

LEMMA RevokeTokenKeeps ==
  ASSUME Inv, NEW i \in DOMAIN calls, RevokeToken(i)
  PROVE  Inv'
  <1> PICK token : token = calls[i].token
    OBVIOUS
  <1> PICK login : login = sessions[token].login
    OBVIOUS
  <1>1. /\ calls[i].kind = "logout" /\ calls[i].stage = "sent" /\ Moved(i, "answered")
        /\ UNCHANGED <<now, browser>>
    BY DEF RevokeToken, rate
  <1>2. CASE UNCHANGED <<sessions, overlapped, ended>>
    <2>1. CallsShaped' /\ Single'
      BY <1>1, <1>2, CallMovesAside
    <2> QED
      BY <1>1, <1>2, <2>1, TabsKept, SessionsKept DEF Inv
  <1>3. CASE /\ sessions' = [sessions EXCEPT ![token].revoked = TRUE]
             /\ Ending(IF Live(token) THEN {login} ELSE {})
    <2> PICK logins : logins = IF Live(token) THEN {login} ELSE {}
      OBVIOUS
    <2>1. token \in DOMAIN sessions /\ login \in DOMAIN sessions
      BY <1>1, CallInHand
    <2>2. Ending(logins) /\ (login \in logins <=> Live(token)) /\ logins \subseteq {login}
      BY <1>3
    <2>3. overlapped' \subseteq DOMAIN sessions /\ ended' \subseteq DOMAIN sessions
      BY <2>1, <2>2 DEF Ending, Inv, SessionsShaped
    <2>4. /\ SessionsShaped' /\ DOMAIN sessions' = DOMAIN sessions
          /\ \A s \in DOMAIN sessions : /\ sessions'[s].login = sessions[s].login
                                        /\ ~sessions'[s].revoked => ~sessions[s].revoked
          /\ sessions'[token].revoked
      BY <1>3, <2>1, <2>3, Revoking
    <2>5. /\ CallsShaped' /\ DOMAIN calls' = DOMAIN calls
          /\ \A j \in DOMAIN calls : j # i => calls'[j] = calls[j]
          /\ calls'[i].stage = "answered"
      BY <1>1, <2>4, CallMoves DEF Stages
    <2>6. Single'
      <3> SUFFICES ASSUME NEW l \in Nat \ overlapped' PROVE SingleOf(l)'
        BY DEF Single
      <3>1. /\ l \notin overlapped
            /\ l \in ended' => l \in ended \/ (l = login /\ Live(token))
            /\ l \in logins => \A j : ~Rotates(j, l)
        BY <2>2, EndingSays
      <3>2. SingleOf(l)
        BY <3>1 DEF Inv, Single
      <3>3. \A s : Open(s, l)' => Open(s, l) /\ s # token
        BY <2>4 DEF Open
      <3>4. \A j : Rotates(j, l)' => Rotates(j, l) /\ calls'[j] = calls[j]
        <4>1. ASSUME NEW j, Rotates(j, l)'
              PROVE  /\ j # i /\ j \in DOMAIN calls /\ Rotor(calls[j]) /\ calls'[j] = calls[j]
                     /\ sessions'[calls[j].token].login = l
          BY <2>5, <4>1 DEF Rotates, Rotor
        <4>2. \A j \in DOMAIN calls : Rotor(calls[j]) => calls[j].token \in DOMAIN sessions
          BY CallInHand DEF Rotor
        <4> QED
          BY <2>4, <4>1, <4>2 DEF Rotates
      <3>5. l = login /\ Live(token) => /\ \A s : ~Open(s, l)'
                                        /\ \A j : ~Rotates(j, l)'
        <4>1. l = login /\ Live(token) => Open(token, l)
          BY <2>1 DEF Open, Live
        <4> QED
          BY <2>2, <3>1, <3>2, <3>3, <3>4, <4>1 DEF SingleOf
      <3> QED
        BY <3>1, <3>2, <3>3, <3>4, <3>5 DEF SingleOf
    <2> QED
      BY <1>1, <2>4, <2>5, <2>6, TabsKept DEF Inv
  <1> QED
    BY <1>2, <1>3 DEF RevokeToken

LEMMA RevokeAllKeeps ==
  ASSUME Inv, RevokeAll
  PROVE  Inv'
  <1> PICK logins : logins = { sessions[s].login : s \in DOMAIN sessions }
    OBVIOUS
  <1>1. /\ sessions' = [s \in DOMAIN sessions |-> [sessions[s] EXCEPT !.revoked = TRUE]]
        /\ Ending(logins) /\ UNCHANGED <<now, browser, calls>>
    BY DEF RevokeAll, rate
  <1>2. /\ sessions \in Seq(Rows) /\ logins \subseteq DOMAIN sessions
        /\ overlapped' \subseteq DOMAIN sessions /\ ended' \subseteq DOMAIN sessions
    BY <1>1 DEF Inv, SessionsShaped, Ending
  <1>3. \A s \in DOMAIN sessions : /\ [sessions[s] EXCEPT !.revoked = TRUE] \in Rows
                                   /\ [sessions[s] EXCEPT !.revoked = TRUE].login = sessions[s].login
                                   /\ [sessions[s] EXCEPT !.revoked = TRUE].revoked = TRUE
    <2>1. \A s \in DOMAIN sessions : sessions[s] \in Rows
      BY <1>2
    <2> QED
      BY <2>1 DEF Rows
  <1>4. /\ DOMAIN sessions' = DOMAIN sessions
        /\ \A s \in DOMAIN sessions : /\ sessions'[s] \in Rows
                                      /\ sessions'[s].login = sessions[s].login
                                      /\ sessions'[s].revoked
    BY <1>1, <1>3
  <1>5. SessionsShaped'
    <2>1. sessions' \in Seq(Rows)
      <3>1. Len(sessions) \in Nat /\ DOMAIN sessions = 1..Len(sessions)
        BY <1>2
      <3>2. sessions' \in [1..Len(sessions) -> Rows]
        BY <1>1, <1>3, <3>1
      <3> QED
        BY <3>1, <3>2
    <2> QED
      BY <1>2, <1>4, <2>1 DEF Inv, SessionsShaped
  <1>6. CallsShaped'
    BY <1>1, <1>4 DEF Inv, CallsShaped, Sensible, Known
  <1>7. Single'
    <2> SUFFICES ASSUME NEW l \in Nat \ overlapped' PROVE SingleOf(l)'
      BY DEF Single
    <2>1. /\ l \notin overlapped
          /\ l \in ended' => l \in ended \/ l \in logins
          /\ l \in logins => \A j : ~Rotates(j, l)
      BY <1>1, EndingSays
    <2>2. SingleOf(l)
      BY <2>1 DEF Inv, Single
    <2>3. \A s : ~Open(s, l)'
      BY <1>4 DEF Open
    <2>4. \A j : Rotates(j, l)' => Rotates(j, l)
      <3>1. \A j \in DOMAIN calls : Rotor(calls[j]) => calls[j].token \in DOMAIN sessions
        BY CallInHand DEF Rotor
      <3> QED
        BY <1>1, <1>4, <3>1 DEF Rotates
    <2> QED
      BY <2>1, <2>2, <2>3, <2>4 DEF SingleOf
  <1> QED
    BY <1>1, <1>4, <1>5, <1>6, <1>7, TabsKept DEF Inv

------------------------------------------------------------------------------
(* The invariant *)

LEMMA InitInv ==
  ASSUME Init
  PROVE  Inv
  <1>1. /\ now = 0 /\ sessions = <<>> /\ calls = <<>>
        /\ tab = [t \in Tabs |-> 0] /\ store = 0 /\ overlapped = {} /\ ended = {}
    BY DEF Init, RateInit
  <1>2. SessionsShaped /\ CallsShaped
    BY <1>1 DEF SessionsShaped, CallsShaped
  <1>3. TabsShaped
    BY <1>1 DEF TabsShaped, Known
  <1>4. Single
    BY <1>1 DEF Single, SingleOf, Open, Rotates
  <1> QED
    BY <1>1, <1>2, <1>3, <1>4 DEF Inv

LEMMA StillKeeps ==
  ASSUME Inv, now' \in Nat, UNCHANGED <<sessions, browser, calls, overlapped, ended>>
  PROVE  Inv'
  BY TabsKept, SessionsKept DEF Inv, CallsShaped, Sensible, Known, Single, SingleOf, Open, Rotates

LEMMA StepInv ==
  ASSUME Inv, [Next]_vars
  PROVE  Inv'
  <1>1. ASSUME NEW t \in Tabs, Login(t) \/ Refresh(t) \/ Logout(t)
        PROVE  Inv'
    BY <1>1, AskKeeps DEF Login, Refresh, Logout
  <1>2. ASSUME NEW t \in Tabs, LogoutHere(t) \/ Mount(t)
        PROVE  Inv'
    BY <1>2, LogoutHereKeeps, MountKeeps
  <1>3. ASSUME NEW i \in DOMAIN calls,
               \/ Deliver(i) \/ Lose(i) \/ Admit(i) \/ FindSession(i) \/ RevokeOld(i)
               \/ CreateSession(i) \/ Fail(i) \/ RevokeToken(i)
        PROVE  Inv'
    BY <1>3, DeliverKeeps, LoseKeeps, AdmitKeeps, FindSessionKeeps, RevokeOldKeeps,
       CreateSessionKeeps, FailKeeps, RevokeTokenKeeps
  <1>4. ASSUME RevokeAll
        PROVE  Inv'
    BY <1>4, RevokeAllKeeps
  <1>5. ASSUME NEW route \in {"login", "command"}, NEW tenant \in Tenants,
               Elsewhere(route, tenant)
        PROVE  Inv'
    <2>1. now' = now /\ UNCHANGED <<sessions, browser, calls, overlapped, ended>>
      BY <1>5 DEF Elsewhere, CanActivate, ghosts
    <2> QED
      BY <2>1, StillKeeps DEF Inv
  <1>6. ASSUME TimePasses
        PROVE  Inv'
    <2>1. now' = now + 1 /\ UNCHANGED <<sessions, browser, calls, overlapped, ended>>
      BY <1>6 DEF TimePasses, Tick, ghosts
    <2> QED
      BY <2>1, StillKeeps DEF Inv
  <1>7. ASSUME UNCHANGED vars
        PROVE  Inv'
    BY <1>7, StillKeeps DEF Inv, vars, rate, ghosts
  <1> QED
    BY <1>1, <1>2, <1>3, <1>4, <1>5, <1>6, <1>7 DEF Next

THEOREM Invariance == Spec => []Inv
  BY InitInv, StepInv, PTL DEF Spec

\* Rotation leaves one live session to a login, and a logout none, for any number of
\* tabs and calls, but for the logins that overlapping calls have touched.
THEOREM SessionsSingleHolds == Spec => []SessionsSingle
  <1>1. ASSUME Inv
        PROVE  SessionsSingle
    <2> SUFFICES ASSUME NEW l \in Nat \ overlapped
                 PROVE  Cardinality(LiveOf(l)) <= IF l \in ended THEN 0 ELSE 1
      <3>1. { sessions[s].login : s \in Sessions } \subseteq Nat
        BY <1>1 DEF Inv, SessionsShaped, Sessions
      <3> QED
        BY <3>1 DEF SessionsSingle
    <2>1. SingleOf(l)
      BY <1>1 DEF Inv, Single
    <2>2. \A s : s \in LiveOf(l) <=> Open(s, l)
      BY DEF LiveOf, Open, Live, Sessions
    <2>3. CASE LiveOf(l) = {}
      BY <2>3, FS_EmptySet
    <2>4. CASE LiveOf(l) # {}
      <3>1. PICK s : s \in LiveOf(l)
        BY <2>4
      <3>2. LiveOf(l) = {s} /\ l \notin ended
        BY <2>1, <2>2, <3>1 DEF SingleOf
      <3>3. Cardinality({s}) = 1
        BY FS_Singleton
      <3> QED
        BY <3>2, <3>3
    <2> QED
      BY <2>3, <2>4
  <1> QED
    BY <1>1, Invariance, PTL

------------------------------------------------------------------------------
(* Types *)

Passes == [at : 0..MaxTime, until : Nat]

\* A bucket counts no more requests than came.
RateShaped ==
  /\ now \in 0..MaxTime /\ asks \in 0..MaxAsks
  /\ DOMAIN buckets \subseteq Keys
  /\ \A k \in DOMAIN buckets :
       buckets[k] \in [resetTime : Nat, count : Nat] /\ buckets[k].count \in 1..asks
  /\ passed \in [Keys -> Seq(Passes)]

TypeInv ==
  /\ Inv /\ RateShaped
  /\ errand \in Errands /\ asked \in 0..MaxCalls /\ disturbed \in BOOLEAN

LEMMA CountedType ==
  ASSUME RateShaped, NEW k
  PROVE  /\ Counted(k) \in [resetTime : Nat, count : Nat]
         /\ Counted(k).count \in 1..(asks + 1)
  <1>1. now \in Nat /\ Window \in Nat /\ asks \in Nat
    BY RateConstants DEF RateShaped
  <1> DEFINE bucket == Updated(IF k \in DOMAIN buckets THEN buckets[k] ELSE NewBucket)
  <1>2. NewBucket \in [resetTime : Nat, count : Nat] /\ NewBucket.count = 0
    BY <1>1 DEF NewBucket
  <1>3. bucket \in [resetTime : Nat, count : Nat] /\ bucket.count \in 0..asks
    BY <1>1, <1>2 DEF Updated, RateShaped
  <1>4. Counted(k) = [bucket EXCEPT !.count = @ + 1]
    BY DEF Counted
  <1> HIDE DEF bucket
  <1> QED
    BY <1>1, <1>3, <1>4

LEMMA CanActivateType ==
  ASSUME RateShaped, NEW route \in {"login", "command"}, NEW tenant \in Tenants,
         CanActivate(route, tenant)
  PROVE  RateShaped'
  <1> DEFINE ks == BucketsOf(route, tenant)
  <1>1. asks \in Nat /\ asks' = asks + 1 /\ asks' \in 0..MaxAsks /\ now' = now /\ now \in 0..MaxTime
    BY RateConstants DEF CanActivate, RateShaped
  <1>2. ks \subseteq Keys
    BY DEF BucketsOf, Keys
  <1>3. buckets' = [k \in DOMAIN buckets \cup ks |-> IF k \in ks THEN Counted(k) ELSE buckets[k]]
    BY DEF CanActivate
  <1>4. passed' \in [Keys -> Seq(Passes)]
    <2>1. passed \in [Keys -> Seq(Passes)]
      BY DEF RateShaped
    <2>2. ASSUME NEW k \in Keys
          PROVE  Append(passed[k], [at |-> now, until |-> Counted(k).resetTime]) \in Seq(Passes)
      <3>1. [at |-> now, until |-> Counted(k).resetTime] \in Passes
        BY <1>1, CountedType DEF Passes
      <3>2. passed[k] \in Seq(Passes)
        BY <2>1
      <3> QED
        BY <3>1, <3>2, Appending
    <2>3. \/ passed' = passed
          \/ passed' = [k \in Keys |->
                          IF k \in ks
                          THEN Append(passed[k], [at |-> now, until |-> Counted(k).resetTime])
                          ELSE passed[k]]
      BY DEF CanActivate
    <2> HIDE DEF ks
    <2> QED
      BY <2>1, <2>2, <2>3
  <1> HIDE DEF ks
  <1>5. /\ DOMAIN buckets' \subseteq Keys
        /\ \A k \in DOMAIN buckets' : /\ buckets'[k] \in [resetTime : Nat, count : Nat]
                                      /\ buckets'[k].count \in 1..(asks + 1)
    <2>1. \A k \in DOMAIN buckets : /\ buckets[k] \in [resetTime : Nat, count : Nat]
                                    /\ buckets[k].count \in 1..(asks + 1)
      BY <1>1 DEF RateShaped
    <2> QED
      BY <1>2, <1>3, <2>1, CountedType DEF RateShaped
  <1> QED
    BY <1>1, <1>4, <1>5 DEF RateShaped

LEMMA Retyped ==
  ASSUME NEW S, NEW T, NEW s \in Seq(S), \A i \in DOMAIN s : s[i] \in T
  PROVE  s \in Seq(T)
  <1>1. Len(s) \in Nat /\ DOMAIN s = 1..Len(s)
    OBVIOUS
  <1>2. s \in [1..Len(s) -> T]
    BY <1>1
  <1> QED
    BY <1>1, <1>2

\* The rate limit moves by the guard and the clock alone.
LEMMA RateSteps ==
  ASSUME [Next]_vars
  PROVE  \/ UNCHANGED rate
         \/ \E route \in {"login", "command"}, tenant \in Tenants : CanActivate(route, tenant)
         \/ Tick
  BY AccessConstants
     DEF Next, Login, Refresh, Logout, Ask, LogoutHere, Mount, Deliver, Lose, Admit,
         FindSession, RevokeOld, CreateSession, Fail, RevokeToken, RevokeAll, Elsewhere, TimePasses,
         vars

LEMMA StepType ==
  ASSUME TypeInv, [Next]_vars
  PROVE  TypeInv'
  <1>1. Inv'
    BY StepInv DEF TypeInv
  <1>2. errand' \in Errands /\ disturbed' \in BOOLEAN
    BY DEF TypeInv, Next, Login, Refresh, Logout, Ask, LogoutHere, Mount, Deliver, Lose, Admit,
           FindSession, RevokeOld, CreateSession, Fail, RevokeToken, RevokeAll, Elsewhere, TimePasses,
           vars, ghosts
  <1>3. asked' \in 0..MaxCalls
    <2>1. asked' = asked \/ (asked < MaxCalls /\ asked' = asked + 1)
      BY DEF Next, Login, Refresh, Logout, Ask, LogoutHere, Mount, Deliver, Lose, Admit,
             FindSession, RevokeOld, CreateSession, Fail, RevokeToken, RevokeAll, Elsewhere, TimePasses,
             vars, ghosts
    <2> QED
      BY <2>1, AccessConstants DEF TypeInv
  <1>4. RateShaped'
    <2>1. \/ UNCHANGED rate
          \/ \E route \in {"login", "command"}, tenant \in Tenants : CanActivate(route, tenant)
          \/ Tick
      BY RateSteps
    <2>2. CASE UNCHANGED rate
      BY <2>2 DEF rate, TypeInv, RateShaped
    <2>3. CASE \E route \in {"login", "command"}, tenant \in Tenants : CanActivate(route, tenant)
      BY <2>3, CanActivateType DEF TypeInv
    <2>4. CASE Tick
      <3>1. now' \in 0..MaxTime /\ UNCHANGED <<buckets, passed, asks>>
        BY <2>4, RateConstants DEF Tick, TypeInv, RateShaped
      <3> QED
        BY <3>1 DEF TypeInv, RateShaped
    <2> QED
      BY <2>1, <2>2, <2>3, <2>4
  <1> QED
    BY <1>1, <1>2, <1>3, <1>4 DEF TypeInv

LEMMA InitType ==
  ASSUME Init
  PROVE  TypeInv
  <1>1. RateShaped
    <2>1. /\ now = 0 /\ asks = 0 /\ buckets = <<>>
          /\ passed = [k \in Keys |-> <<>>]
      BY DEF Init, RateInit
    <2> QED
      BY <2>1, RateConstants DEF RateShaped
  <1>2. errand \in Errands /\ asked \in 0..MaxCalls /\ disturbed \in BOOLEAN
    <2>1. errand \in Errands /\ asked = 0 /\ disturbed = FALSE
      BY DEF Init
    <2>2. asked \in 0..MaxCalls
      BY <2>1, AccessConstants
    <2> QED
      BY <2>1, <2>2, Zenon
  <1> QED
    BY <1>1, <1>2, InitInv DEF TypeInv

\* The buckets and clocks of the rate limit, the sessions, the tabs and the calls keep
\* their types.
THEOREM TypeCorrect == Spec => []TypeOK
  <1>1. Init => TypeInv
    BY InitType
  <1>2. ASSUME TypeInv
        PROVE  TypeOK
    <2>1. RateTypeOK
      <3>1. passed \in [Keys -> Seq(Passes)]
        BY <1>2 DEF TypeInv, RateShaped
      <3>2. passed \in [Keys -> Seq([at : 0..MaxTime, until : Nat])]
        BY <3>1, Zenon DEF Passes
      <3> QED
        <4>1. /\ now \in 0..MaxTime /\ asks \in 0..MaxAsks /\ DOMAIN buckets \subseteq Keys
              /\ \A k \in DOMAIN buckets : /\ buckets[k].resetTime \in Nat
                                            /\ buckets[k].count \in 1..MaxAsks
          BY <1>2, RateConstants DEF TypeInv, RateShaped
        <4> QED
          BY <3>2, <4>1, Zenon DEF RateTypeOK
    <2>2. sessions \in Seq([login : Sessions, revoked : BOOLEAN, expiresAt : Nat])
      <3>1. sessions \in Seq(Rows) /\ Len(sessions) \in Nat /\ DOMAIN sessions = 1..Len(sessions)
        BY <1>2 DEF TypeInv, Inv, SessionsShaped
      <3>2. \A s \in DOMAIN sessions : sessions[s] \in [login : Sessions, revoked : BOOLEAN,
                                                        expiresAt : Nat]
        <4>1. \A s \in DOMAIN sessions : sessions[s] \in Rows /\ sessions[s].login \in Sessions
          BY <1>2, <3>1 DEF TypeInv, Inv, SessionsShaped, Sessions
        <4> QED
          BY <4>1 DEF Rows
      <3> QED
        BY <3>1, <3>2, Retyped
    <2>3. calls \in Seq([kind : {"login", "refresh", "logout"}, tab : Tabs,
                         token : Sessions \cup {0},
                         stage : {"sent", "admitted", "found", "revoked", "answered", "denied"}])
      <3>1. calls \in Seq(CallRows) /\ Len(calls) \in Nat /\ DOMAIN calls = 1..Len(calls)
        BY <1>2 DEF TypeInv, Inv, CallsShaped
      <3>2. \A i \in DOMAIN calls :
              calls[i] \in [kind : {"login", "refresh", "logout"}, tab : Tabs,
                            token : Sessions \cup {0},
                            stage : {"sent", "admitted", "found", "revoked", "answered", "denied"}]
        <4>1. \A i \in DOMAIN calls : calls[i] \in CallRows /\ calls[i].token \in Sessions \cup {0}
          BY <1>2, CallInHand DEF TypeInv, Sensible, Known, Sessions
        <4> QED
          BY <4>1 DEF CallRows, Stages
      <3> QED
        BY <3>1, <3>2, Retyped
    <2>4. /\ tab \in [Tabs -> Sessions \cup {0}] /\ store \in Sessions \cup {0}
          /\ overlapped \subseteq Sessions /\ ended \subseteq Sessions
      BY <1>2 DEF TypeInv, Inv, TabsShaped, SessionsShaped, Known, Sessions
    <2>5. \A i \in DOMAIN calls : calls[i].token = 0 => calls[i].kind = "login"
      BY <1>2, CallInHand DEF TypeInv, Sensible
    <2> QED
      BY <1>2, <2>1, <2>2, <2>3, <2>4, <2>5 DEF TypeInv, TypeOK
  <1> QED
    BY <1>1, <1>2, StepType, PTL DEF Spec

------------------------------------------------------------------------------
(* The windows of the rate limit *)

\* What p, the requests of a bucket that were let through, says of the windows: each
\* request lies in its own, windows are disjoint and more than their length apart, and
\* a window holds fewer than lim + 1.
Spaced(p, lim) ==
  /\ \A i \in DOMAIN p : p[i].at <= p[i].until /\ p[i].until <= p[i].at + Window
  /\ \A i, j \in DOMAIN p :
       i < j => p[j].until = p[i].until \/ p[j].until > p[i].until + Window
  /\ \A i, j \in DOMAIN p : j >= i + lim => p[j].until # p[i].until

\* The bucket has counted at least those of its own window; the others were before it.
CountedIn(p, bucket) ==
  \A i \in DOMAIN p :
    \/ bucket.resetTime = p[i].until /\ Len(p) - i < bucket.count
    \/ bucket.resetTime > p[i].until + Window

Windowed(k) ==
  /\ Spaced(passed[k], Limit(k))
  /\ k \in DOMAIN buckets => /\ CountedIn(passed[k], buckets[k])
                             /\ buckets[k].resetTime <= now + Window
  /\ k \notin DOMAIN buckets => passed[k] = <<>>

WindowInv == TypeInv /\ \A k \in Keys : Windowed(k)

\* A bucket c that follows b at time t, by a request in b's window or by one after it.
Follows(c, b, t) ==
  \/ t <= b.resetTime /\ c.resetTime = b.resetTime /\ c.count = b.count + 1
  \/ t > b.resetTime /\ c.resetTime = t + Window /\ c.count = 1

LEMMA LimitNat ==
  ASSUME NEW k \in Keys
  PROVE  Limit(k) \in Nat
  BY RateConstants DEF Limit

\* A refused request is counted, too.
LEMMA CountsOn ==
  ASSUME NEW p \in Seq(Passes), NEW t \in Nat,
         NEW b \in [resetTime : Nat, count : Nat], NEW c \in [resetTime : Nat, count : Nat],
         CountedIn(p, b), Follows(c, b, t)
  PROVE  CountedIn(p, c)
  <1> SUFFICES ASSUME NEW i \in DOMAIN p
               PROVE  \/ c.resetTime = p[i].until /\ Len(p) - i < c.count
                      \/ c.resetTime > p[i].until + Window
    BY DEF CountedIn
  <1>1. i \in Nat /\ Len(p) \in Nat /\ p[i] \in Passes
    OBVIOUS
  <1>2. p[i].until \in Nat /\ Window \in Nat
    BY <1>1, RateConstants DEF Passes
  <1>3. \/ b.resetTime = p[i].until /\ Len(p) - i < b.count
        \/ b.resetTime > p[i].until + Window
    BY DEF CountedIn
  <1> QED
    BY <1>1, <1>2, <1>3 DEF Follows

\* A request that is let through is the last of its window, and one of its limit.
LEMMA LetsThrough ==
  ASSUME NEW p \in Seq(Passes), NEW t \in 0..MaxTime, NEW lim \in Nat,
         NEW b \in [resetTime : Nat, count : Nat], NEW c \in [resetTime : Nat, count : Nat],
         Spaced(p, lim), CountedIn(p, b), Follows(c, b, t),
         b.resetTime <= t + Window, c.count <= lim, c.count >= 1,
         NEW q, q = Append(p, [at |-> t, until |-> c.resetTime])
  PROVE  Spaced(q, lim) /\ CountedIn(q, c)
  <1> DEFINE x == [at |-> t, until |-> c.resetTime]
             n == Len(p) + 1
  <1>1. x \in Passes /\ x.at = t /\ x.until = c.resetTime /\ t \in Nat
    BY RateConstants DEF Passes
  <1>2. /\ Len(p) \in Nat /\ DOMAIN p = 1..Len(p) /\ Len(q) = n /\ DOMAIN q = 1..n
        /\ \A i \in DOMAIN p : q[i] = p[i]
        /\ q[n] = x
    BY <1>1
  <1> HIDE DEF x
  <1>3. Window \in Nat /\ \A i \in DOMAIN p : p[i].until \in Nat /\ p[i].at \in Nat
    <2>1. \A i \in DOMAIN p : p[i] \in Passes
      OBVIOUS
    <2> QED
      BY <2>1, RateConstants DEF Passes
  <1>4. t <= x.until /\ x.until <= t + Window
    BY <1>1, <1>3 DEF Follows
  <1>5. \A i \in DOMAIN p : \/ x.until = p[i].until /\ n - i < c.count
                            \/ x.until > p[i].until + Window
    <2> SUFFICES ASSUME NEW i \in DOMAIN p
                 PROVE  \/ x.until = p[i].until /\ n - i < c.count
                        \/ x.until > p[i].until + Window
      OBVIOUS
    <2>1. i \in Nat /\ p[i].until \in Nat
      BY <1>2, <1>3
    <2>2. \/ b.resetTime = p[i].until /\ Len(p) - i < b.count
          \/ b.resetTime > p[i].until + Window
      BY DEF CountedIn
    <2>3. CASE t <= b.resetTime /\ c.resetTime = b.resetTime /\ c.count = b.count + 1
      BY <1>1, <1>2, <1>3, <2>1, <2>2, <2>3
    <2>4. CASE t > b.resetTime /\ c.resetTime = t + Window /\ c.count = 1
      BY <1>1, <1>2, <1>3, <2>1, <2>2, <2>4
    <2> QED
      BY <2>3, <2>4 DEF Follows
  <1>6. CountedIn(q, c)
    <2> SUFFICES ASSUME NEW i \in DOMAIN q
                 PROVE  \/ c.resetTime = q[i].until /\ Len(q) - i < c.count
                        \/ c.resetTime > q[i].until + Window
      BY DEF CountedIn
    <2>1. CASE i = n
      BY <1>1, <1>2, <2>1
    <2>2. CASE i \in DOMAIN p
      BY <1>1, <1>2, <1>5, <2>2
    <2> QED
      BY <1>2, <2>1, <2>2
  <1>7. \A i \in DOMAIN q : q[i].at <= q[i].until /\ q[i].until <= q[i].at + Window
    BY <1>1, <1>2, <1>4 DEF Spaced
  <1>8. ASSUME NEW i \in DOMAIN q, NEW j \in DOMAIN q, i < j
        PROVE  q[j].until = q[i].until \/ q[j].until > q[i].until + Window
    <2>1. i \in DOMAIN p
      BY <1>2, <1>8
    <2>2. CASE j \in DOMAIN p
      BY <1>2, <1>8, <2>1, <2>2 DEF Spaced
    <2>3. CASE j = n
      BY <1>2, <1>5, <2>1, <2>3
    <2> QED
      BY <1>2, <2>2, <2>3
  <1>9. ASSUME NEW i \in DOMAIN q, NEW j \in DOMAIN q, j >= i + lim
        PROVE  q[j].until # q[i].until
    <2>1. i \in Nat /\ j \in Nat /\ lim >= 1
      BY <1>2
    <2>2. i \in DOMAIN p
      BY <1>2, <1>9, <2>1
    <2>3. CASE j \in DOMAIN p
      BY <1>2, <1>9, <2>2, <2>3 DEF Spaced
    <2>4. CASE j = n
      <3>1. ~ (n - i < c.count)
        BY <1>2, <1>9, <2>1, <2>4
      <3>2. x.until > p[i].until + Window
        BY <1>5, <2>2, <3>1
      <3> QED
        BY <1>1, <1>2, <1>3, <2>2, <2>4, <3>2
    <2> QED
      BY <1>2, <2>3, <2>4
  <1> HIDE DEF n
  <1> QED
    BY <1>6, <1>7, <1>8, <1>9 DEF Spaced

\* What the guard counts follows what it found, or a new bucket.
LEMMA CountedFollows ==
  ASSUME TypeInv, NEW k \in Keys
  PROVE  LET b == IF k \in DOMAIN buckets THEN buckets[k] ELSE [resetTime |-> now + Window, count |-> 0]
         IN  b \in [resetTime : Nat, count : Nat] /\ Follows(Counted(k), b, now)
  <1> DEFINE b == IF k \in DOMAIN buckets THEN buckets[k]
                  ELSE [resetTime |-> now + Window, count |-> 0]
             u == Updated(b)
  <1>1. now \in Nat /\ Window \in Nat
    BY RateConstants DEF TypeInv, RateShaped
  <1>2. b \in [resetTime : Nat, count : Nat]
    BY <1>1 DEF TypeInv, RateShaped
  <1>3. Counted(k) = [u EXCEPT !.count = @ + 1]
    BY DEF Counted, NewBucket
  <1> HIDE DEF b
  <1>4. /\ u \in [resetTime : Nat, count : Nat]
        /\ u = IF now > b.resetTime THEN [resetTime |-> now + Window, count |-> 0] ELSE b
    BY <1>1, <1>2 DEF Updated, NewBucket
  <1> HIDE DEF u
  <1>5. Counted(k).resetTime = u.resetTime /\ Counted(k).count = u.count + 1
    BY <1>3, <1>4
  <1>6. Follows(Counted(k), b, now)
    BY <1>1, <1>2, <1>4, <1>5 DEF Follows
  <1> QED
    BY <1>2, <1>6 DEF b

LEMMA CanActivateWindows ==
  ASSUME WindowInv, NEW route \in {"login", "command"}, NEW tenant \in Tenants,
         CanActivate(route, tenant)
  PROVE  \A k \in Keys : Windowed(k)'
  <1> DEFINE ks == BucketsOf(route, tenant)
  <1>1. /\ now' = now /\ now \in Nat /\ now \in 0..MaxTime /\ Window \in Nat
        /\ DOMAIN buckets \subseteq Keys /\ passed \in [Keys -> Seq(Passes)]
    BY RateConstants DEF CanActivate, WindowInv, TypeInv, RateShaped
  <1>2. ks \subseteq Keys
    BY DEF BucketsOf, Keys
  <1>3. /\ DOMAIN buckets' = DOMAIN buckets \cup ks
        /\ \A k \in ks : buckets'[k] = Counted(k)
        /\ \A k \in DOMAIN buckets \ ks : buckets'[k] = buckets[k]
    BY DEF CanActivate
  <1>4. ASSUME NEW k \in Keys
        PROVE  \/ passed'[k] = passed[k]
               \/ /\ k \in ks /\ Counted(k).count <= Limit(k)
                  /\ passed'[k] = Append(passed[k], [at |-> now, until |-> Counted(k).resetTime])
    <2>1. \/ passed' = passed
          \/ /\ Allowed(route, tenant)
             /\ passed' = [j \in Keys |->
                            IF j \in ks
                            THEN Append(passed[j], [at |-> now, until |-> Counted(j).resetTime])
                            ELSE passed[j]]
      BY DEF CanActivate
    <2>2. Allowed(route, tenant) => \A j \in ks : Counted(j).count <= Limit(j)
      BY DEF Allowed
    <2> HIDE DEF ks
    <2> QED
      BY <2>1, <2>2
  <1> HIDE DEF ks
  <1> SUFFICES ASSUME NEW k \in Keys
               PROVE  Windowed(k)'
    OBVIOUS
  <1>5. Limit(k) \in Nat /\ Limit(k)' = Limit(k)
    BY LimitNat DEF Limit, Global, Key
  <1>6. Windowed(k)
    BY DEF WindowInv
  <1>7. passed[k] \in Seq(Passes)
    BY <1>1
  <1>8. CASE k \notin ks
    <2>1. passed'[k] = passed[k]
      BY <1>4, <1>8
    <2>2. k \in DOMAIN buckets' <=> k \in DOMAIN buckets
      BY <1>3, <1>8
    <2>3. k \in DOMAIN buckets => buckets'[k] = buckets[k]
      BY <1>3, <1>8
    <2> QED
      BY <1>1, <1>5, <1>6, <2>1, <2>2, <2>3 DEF Windowed
  <1>9. CASE k \in ks
    <2> DEFINE b == IF k \in DOMAIN buckets THEN buckets[k]
                    ELSE [resetTime |-> now + Window, count |-> 0]
               c == Counted(k)
    <2>1. b \in [resetTime : Nat, count : Nat] /\ Follows(c, b, now)
      BY CountedFollows DEF WindowInv
    <2>2. c \in [resetTime : Nat, count : Nat] /\ c.count >= 1
      BY CountedType DEF WindowInv, TypeInv
    <2>3. b.resetTime <= now + Window
      BY <1>1, <1>6 DEF Windowed
    <2>4. Spaced(passed[k], Limit(k)) /\ CountedIn(passed[k], b)
      <3>1. CASE k \in DOMAIN buckets
        BY <1>6, <3>1 DEF Windowed
      <3>2. CASE k \notin DOMAIN buckets
        BY <1>6, <3>2 DEF Windowed, CountedIn
      <3> QED
        BY <3>1, <3>2
    <2>5. buckets'[k] = c /\ k \in DOMAIN buckets'
      BY <1>3, <1>9
    <2>6. c.resetTime <= now + Window
      <3> HIDE DEF b, c
      <3> QED
        BY <1>1, <2>1, <2>3 DEF Follows
    <2> HIDE DEF b, c
    <2>7. Spaced(passed'[k], Limit(k)) /\ CountedIn(passed'[k], c)
      <3>1. CASE passed'[k] = passed[k]
        <4>1. CountedIn(passed[k], c)
          BY <1>1, <1>7, <2>1, <2>2, <2>4, CountsOn
        <4> QED
          BY <2>4, <3>1, <4>1
      <3>2. CASE /\ c.count <= Limit(k)
                 /\ passed'[k] = Append(passed[k], [at |-> now, until |-> c.resetTime])
        <4> DEFINE p == passed[k]
                   q == passed'[k]
        <4> HIDE DEF p, q
        <4>1. q = Append(p, [at |-> now, until |-> c.resetTime]) /\ p \in Seq(Passes)
          BY <1>7, <3>2 DEF p, q
        <4>2. Spaced(p, Limit(k)) /\ CountedIn(p, b)
          BY <2>4 DEF p
        <4>3. Spaced(q, Limit(k)) /\ CountedIn(q, c)
          BY ONLY <1>1, <1>5, <2>1, <2>2, <2>3, <3>2, <4>1, <4>2, LetsThrough
        <4> QED
          BY <4>3 DEF q
      <3> QED
        BY <1>4, <3>1, <3>2 DEF c
    <2>8. Spaced(passed[k], Limit(k))' /\ (k \in DOMAIN buckets => CountedIn(passed[k], buckets[k]))'
      BY <1>5, <2>5, <2>7
    <2> QED
      BY <1>1, <2>5, <2>6, <2>8 DEF Windowed
  <1> QED
    BY <1>8, <1>9

\* Any 2n + 1 requests in a row that a bucket of limit n lets through take longer than
\* a window, however they fall on its edges.
THEOREM WindowsBoundedHolds == Spec => []WindowsBounded
  <1>1. ASSUME Init
        PROVE  WindowInv
    <2>1. TypeInv
      BY <1>1, InitType
    <2>2. buckets = <<>> /\ passed = [k \in Keys |-> <<>>]
      BY <1>1 DEF Init, RateInit
    <2>3. \A k \in Keys : Windowed(k)
      BY <2>2 DEF Windowed, Spaced, CountedIn
    <2> QED
      BY <2>1, <2>3 DEF WindowInv
  <1>2. ASSUME WindowInv, [Next]_vars
        PROVE  WindowInv'
    <2>1. TypeInv'
      BY <1>2, StepType DEF WindowInv
    <2>2. \/ UNCHANGED rate
          \/ \E route \in {"login", "command"}, tenant \in Tenants : CanActivate(route, tenant)
          \/ Tick
      BY <1>2, RateSteps
    <2>3. CASE UNCHANGED rate
      <3>1. UNCHANGED <<now, buckets, passed>>
        BY <2>3 DEF rate
      <3>2. \A k \in Keys : Windowed(k)'
        BY <1>2, <3>1 DEF WindowInv, Windowed, Spaced, CountedIn, Limit, Global, Key
      <3> QED
        BY <2>1, <3>2 DEF WindowInv, Keys, Key, Global
    <2>4. CASE \E route \in {"login", "command"}, tenant \in Tenants : CanActivate(route, tenant)
      <3>1. \A k \in Keys : Windowed(k)'
        BY <1>2, <2>4, CanActivateWindows
      <3> QED
        BY <2>1, <3>1 DEF WindowInv, Keys, Key, Global
    <2>5. CASE Tick
      <3>1. now' = now + 1 /\ UNCHANGED <<buckets, passed>>
        BY <2>5 DEF Tick
      <3>2. ASSUME NEW k \in Keys
            PROVE  Windowed(k)'
        <4>1. k \in DOMAIN buckets => buckets[k].resetTime <= now' + Window
          <5>1. k \in DOMAIN buckets => buckets[k].resetTime \in Nat
            BY <1>2 DEF WindowInv, TypeInv, RateShaped
          <5>2. now \in Nat /\ Window \in Nat
            BY <1>2, RateConstants DEF WindowInv, TypeInv, RateShaped
          <5>3. k \in DOMAIN buckets => buckets[k].resetTime <= now + Window
            BY <1>2 DEF WindowInv, Windowed
          <5> QED
            BY <3>1, <5>1, <5>2, <5>3
        <4>2. Windowed(k)
          BY <1>2 DEF WindowInv
        <4> QED
          BY <3>1, <4>1, <4>2 DEF Windowed, Spaced, CountedIn, Limit, Global, Key
      <3> QED
        BY <2>1, <3>2 DEF WindowInv, Keys, Key, Global
    <2> QED
      BY <2>2, <2>3, <2>4, <2>5
  <1>3. ASSUME WindowInv
        PROVE  WindowsBounded
    <2> SUFFICES ASSUME NEW k \in Keys, NEW i \in DOMAIN passed[k], NEW j \in DOMAIN passed[k],
                        j >= i + 2 * Limit(k)
                 PROVE  passed[k][j].at > passed[k][i].at + Window
      BY DEF WindowsBounded
    <2>1. passed[k] \in Seq(Passes)
      BY <1>3 DEF WindowInv, TypeInv, RateShaped
    <2> DEFINE p == passed[k]
               m == i + Limit(k)
    <2>2. Limit(k) \in Nat /\ Window \in Nat
      BY LimitNat, RateConstants
    <2>3. Spaced(p, Limit(k))
      BY <1>3 DEF WindowInv, Windowed
    <2> HIDE DEF p
    <2>4. p \in Seq(Passes) /\ i \in DOMAIN p /\ j \in DOMAIN p
      BY <2>1 DEF p
    <2>5. DOMAIN p = 1..Len(p) /\ Len(p) \in Nat /\ i \in Nat /\ j \in Nat
      BY <2>4
    <2>6. m \in DOMAIN p /\ j >= m + Limit(k) /\ m >= i
      BY <2>2, <2>4, <2>5
    <2> HIDE DEF m
    <2>7. \A n \in DOMAIN p : p[n].at \in Nat /\ p[n].until \in Nat
      <3>1. \A n \in DOMAIN p : p[n] \in Passes
        BY <2>4
      <3> QED
        BY <3>1, RateConstants DEF Passes
    <2>8. /\ p[m].until # p[i].until /\ p[j].until # p[m].until
          /\ m # i /\ m # j
      BY <2>3, <2>4, <2>6 DEF Spaced, m
    <2>9. p[m].until > p[i].until + Window
      <3>1. i < m
        BY <2>5, <2>6, <2>8
      <3> QED
        BY <2>3, <2>4, <2>6, <2>8, <3>1 DEF Spaced
    <2>10. p[j].until > p[m].until + Window
      <3>1. m < j
        BY <2>2, <2>5, <2>6, <2>8
      <3> QED
        BY <2>3, <2>4, <2>6, <2>8, <3>1 DEF Spaced
    <2>11. p[i].at <= p[i].until /\ p[j].until <= p[j].at + Window
      BY <2>3, <2>4 DEF Spaced
    <2>12. p[j].at > p[i].at + Window
      <3>1. /\ p[i].at \in Nat /\ p[i].until \in Nat /\ p[m].until \in Nat
            /\ p[j].at \in Nat /\ p[j].until \in Nat
        BY <2>4, <2>6, <2>7
      <3> QED
        BY ONLY <2>2, <2>9, <2>10, <2>11, <3>1
    <2> QED
      BY <2>12 DEF p
  <1> QED
    BY <1>1, <1>2, <1>3, PTL DEF Spec

------------------------------------------------------------------------------
(* What localStorage holds *)

\* A login or a refresh has its answer, a session that only the answer names.
Given(i) == i \in DOMAIN calls /\ calls[i].kind # "logout" /\ calls[i].stage = "answered"

Fresh ==
  \A i : Given(i) =>
    /\ calls[i].token # 0 /\ store # calls[i].token
    /\ \A t \in Tabs : tab[t] # calls[i].token
    /\ \A j \in DOMAIN calls : j # i => calls[j].token # calls[i].token
    /\ ~disturbed => ~sessions[calls[i].token].revoked

\* Where the stored session is revoked, a call is under way that writes another or none.
Backed ==
  ~disturbed /\ store # 0 =>
    \/ ~sessions[store].revoked
    \/ \E i \in DOMAIN calls : calls[i].kind # "login"

StoreInv == Inv /\ Fresh /\ Backed

\* A call has moved on, and is no answer with a session.
LEMMA MovesFresh ==
  ASSUME StoreInv, NEW i \in DOMAIN calls, NEW stage, Moved(i, stage),
         stage # "answered" \/ calls[i].kind = "logout", stage \in Stages,
         UNCHANGED <<sessions, browser, disturbed>>
  PROVE  Fresh' /\ Backed'
  <1>1. /\ DOMAIN calls' = DOMAIN calls
        /\ \A j \in DOMAIN calls : calls'[j].kind = calls[j].kind /\ calls'[j].token = calls[j].token
        /\ \A j \in DOMAIN calls : j # i => calls'[j] = calls[j]
        /\ calls'[i].stage = stage
    <2>1. calls \in Seq(CallRows) /\ calls' = [calls EXCEPT ![i].stage = stage]
      BY DEF StoreInv, Inv, CallsShaped, Moved
    <2>2. /\ DOMAIN calls' = DOMAIN calls
          /\ \A j \in DOMAIN calls : j # i => calls'[j] = calls[j]
          /\ calls'[i].kind = calls[i].kind /\ calls'[i].token = calls[i].token
          /\ calls'[i].stage = stage
      BY <2>1, Setting
    <2> QED
      BY <2>2
  <1>2. \A j : Given(j)' => Given(j)
    BY <1>1 DEF Given
  <1>3. Fresh'
    <2> SUFFICES ASSUME NEW j, Given(j)'
                 PROVE  /\ calls'[j].token # 0 /\ store # calls'[j].token
                        /\ \A t \in Tabs : tab[t] # calls'[j].token
                        /\ \A k \in DOMAIN calls' : k # j => calls'[k].token # calls'[j].token
                        /\ ~disturbed => ~sessions[calls'[j].token].revoked
      BY DEF Fresh, browser
    <2> QED
      BY <1>1, <1>2 DEF StoreInv, Fresh, Given
  <1>4. Backed'
    BY <1>1 DEF StoreInv, Backed, browser
  <1> QED
    BY <1>3, <1>4

\* A call has left, and no tab has taken its session.
LEMMA GoneFresh ==
  ASSUME StoreInv, NEW i \in DOMAIN calls, Over(i), UNCHANGED <<sessions, browser>>,
         \/ disturbed'
         \/ calls[i].kind = "login" /\ disturbed' = disturbed
  PROVE  Fresh' /\ Backed'
  <1>1. PICK f : /\ \A j \in DOMAIN calls' : /\ f[j] \in DOMAIN calls /\ f[j] # i
                                           /\ calls'[j] = calls[f[j]]
                 /\ \A j, k \in DOMAIN calls' : f[j] = f[k] => j = k
                 /\ \A k \in DOMAIN calls : k # i => \E j \in DOMAIN calls' : calls'[j] = calls[k]
    BY Leaving DEF StoreInv
  <1>2. Fresh'
    <2> SUFFICES ASSUME NEW j, Given(j)'
                 PROVE  /\ calls'[j].token # 0 /\ store # calls'[j].token
                        /\ \A t \in Tabs : tab[t] # calls'[j].token
                        /\ \A k \in DOMAIN calls' : k # j => calls'[k].token # calls'[j].token
                        /\ ~disturbed' => ~sessions[calls'[j].token].revoked
      BY DEF Fresh, browser
    <2>1. j \in DOMAIN calls' /\ Given(f[j]) /\ calls'[j] = calls[f[j]]
      BY <1>1 DEF Given
    <2>2. ~disturbed' => ~disturbed
      OBVIOUS
    <2> QED
      BY <1>1, <2>1, <2>2 DEF StoreInv, Fresh
  <1>3. Backed'
    BY <1>1 DEF StoreInv, Backed, browser
  <1> QED
    BY <1>2, <1>3

\* The answer of a call has reached its tab.
LEMMA DeliveredFresh ==
  ASSUME StoreInv, NEW i \in DOMAIN calls, Deliver(i)
  PROVE  Fresh' /\ Backed'
  <1>1. /\ Over(i) /\ UNCHANGED <<sessions, disturbed>> /\ calls[i].tab \in Tabs
        /\ DOMAIN tab = Tabs
    BY CallInHand DEF Deliver, ghosts, StoreInv, Inv, CallRows, TabsShaped
  <1>2. CASE calls[i].kind = "login" /\ UNCHANGED browser
    BY <1>1, <1>2, GoneFresh
  <1>3. CASE \/ SignedOut(calls[i].tab)
             \/ Given(i) /\ SignedIn(calls[i].tab, calls[i].token)
    <2> PICK token : token = store'
      OBVIOUS
    <2>1. /\ tab' = [tab EXCEPT ![calls[i].tab] = token] /\ store' = token
          /\ token = 0 \/ (Given(i) /\ token = calls[i].token)
      BY <1>3 DEF SignedOut, SignedIn
    <2>2. PICK f : /\ \A j \in DOMAIN calls' : /\ f[j] \in DOMAIN calls /\ f[j] # i
                                             /\ calls'[j] = calls[f[j]]
                   /\ \A j, k \in DOMAIN calls' : f[j] = f[k] => j = k
      BY <1>1, Leaving DEF StoreInv
    <2>3. Fresh'
      <3> SUFFICES ASSUME NEW j, Given(j)'
                   PROVE  /\ calls'[j].token # 0 /\ token # calls'[j].token
                          /\ \A t \in Tabs : tab'[t] # calls'[j].token
                          /\ \A k \in DOMAIN calls' : k # j => calls'[k].token # calls'[j].token
                          /\ ~disturbed => ~sessions[calls'[j].token].revoked
        BY <1>1, <2>1 DEF Fresh
      <3>1. j \in DOMAIN calls' /\ Given(f[j]) /\ calls'[j] = calls[f[j]] /\ f[j] # i
        BY <2>2 DEF Given
      <3>2. token # calls'[j].token
        BY <2>1, <3>1 DEF StoreInv, Fresh
      <3>3. \A t \in Tabs : tab'[t] = tab[t] \/ tab'[t] = token
        BY <1>1, <2>1
      <3> QED
        BY <2>2, <3>1, <3>2, <3>3 DEF StoreInv, Fresh
    <2>4. Backed'
      BY <1>1, <2>1 DEF StoreInv, Fresh, Backed
    <2> QED
      BY <2>3, <2>4
  <1> QED
    BY <1>2, <1>3 DEF Deliver, Given

LEMMA AskedFresh ==
  ASSUME StoreInv, NEW t \in Tabs, NEW kind \in {"login", "refresh", "logout"}, Ask(t, kind)
  PROVE  Fresh' /\ Backed'
  <1> PICK call : call = [kind |-> kind, tab |-> t, token |-> tab[t], stage |-> "sent"]
    OBVIOUS
  <1> PICK cs : cs = calls'
    OBVIOUS
  <1>1. /\ cs = Append(calls, call) /\ UNCHANGED <<sessions, browser, disturbed>>
        /\ call.token = tab[t] /\ call.stage = "sent"
    BY DEF Ask, ghosts
  <1>2. calls \in Seq(CallRows) /\ call \in CallRows
    BY DEF StoreInv, Inv, CallsShaped, TabsShaped, CallRows, Stages
  <1>3. /\ Len(calls) \in Nat /\ DOMAIN calls = 1..Len(calls)
        /\ DOMAIN cs = 1..(Len(calls) + 1)
        /\ \A j \in 1..Len(calls) : cs[j] = calls[j]
        /\ cs[Len(calls) + 1] = call
    BY <1>1, <1>2, Appending
  <1>4. /\ \A j \in DOMAIN calls : j \in DOMAIN cs /\ cs[j] = calls[j]
        /\ \A j \in DOMAIN cs : j \in DOMAIN calls \/ cs[j] = call
    BY <1>3
  <1>5. Fresh'
    <2> SUFFICES ASSUME NEW j, Given(j)'
                 PROVE  /\ cs[j].token # 0 /\ store # cs[j].token
                        /\ \A u \in Tabs : tab[u] # cs[j].token
                        /\ \A k \in DOMAIN cs : k # j => cs[k].token # cs[j].token
                        /\ ~disturbed => ~sessions[cs[j].token].revoked
      BY <1>1 DEF Fresh, browser
    <2>1. Given(j) /\ cs[j] = calls[j]
      BY <1>1, <1>4 DEF Given
    <2>2. /\ cs[j].token # 0 /\ store # cs[j].token
          /\ \A u \in Tabs : tab[u] # cs[j].token
          /\ \A k \in DOMAIN calls : k # j => calls[k].token # cs[j].token
          /\ ~disturbed => ~sessions[cs[j].token].revoked
      BY <2>1 DEF StoreInv, Fresh
    <2>3. \A k \in DOMAIN cs : k # j => cs[k].token # cs[j].token
      BY <1>1, <1>4, <2>2
    <2> QED
      BY <2>2, <2>3
  <1>6. Backed'
    BY <1>1, <1>4 DEF StoreInv, Backed, browser
  <1> QED
    BY <1>5, <1>6

\* A tab reads what is stored, or clears it.
LEMMA TabFresh ==
  ASSUME StoreInv, NEW t \in Tabs, UNCHANGED <<sessions, calls, disturbed>>,
         tab' = [tab EXCEPT ![t] = store'], store' \in {store, 0}
  PROVE  Fresh' /\ Backed'
  <1>1. \A u \in Tabs : tab'[u] \in {tab[u], store, 0}
    BY DEF StoreInv, Inv, TabsShaped
  <1>2. \A i : Given(i)' <=> Given(i)
    BY DEF Given
  <1>3. Fresh'
    BY <1>1, <1>2 DEF StoreInv, Fresh
  <1>4. Backed'
    BY DEF StoreInv, Backed
  <1> QED
    BY <1>3, <1>4

\* A session is revoked, by the refresh or the logout that names it.
LEMMA RevokedFresh ==
  ASSUME StoreInv, NEW i \in DOMAIN calls, NEW stage \in {"revoked", "answered"},
         calls[i].kind = IF stage = "revoked" THEN "refresh" ELSE "logout",
         sessions' = [sessions EXCEPT ![calls[i].token].revoked = TRUE],
         Moved(i, stage), UNCHANGED <<browser, disturbed>>
  PROVE  Fresh' /\ Backed'
  <1>1. calls \in Seq(CallRows) /\ calls' = [calls EXCEPT ![i].stage = stage]
    BY DEF StoreInv, Inv, CallsShaped, Moved
  <1>2. /\ DOMAIN calls' = DOMAIN calls
        /\ \A j \in DOMAIN calls : j # i => calls'[j] = calls[j]
        /\ calls'[i].kind = calls[i].kind /\ calls'[i].token = calls[i].token
        /\ calls'[i].stage = stage
    BY <1>1, Setting DEF Stages
  <1>3. \A s \in DOMAIN sessions : s # calls[i].token => sessions'[s] = sessions[s]
    OBVIOUS
  <1>4. \A j : Given(j)' => Given(j) /\ j # i /\ calls'[j] = calls[j]
    BY <1>2 DEF Given
  <1>5. \A j : Given(j) => calls[j].token \in DOMAIN sessions
    <2>1. \A j : Given(j) => calls[j].token # 0
      BY DEF StoreInv, Fresh
    <2> QED
      BY <2>1, CallInHand DEF StoreInv, Given, Sensible, Known
  <1>6. Fresh'
    <2> SUFFICES ASSUME NEW j, Given(j)'
                 PROVE  /\ calls'[j].token # 0 /\ store # calls'[j].token
                        /\ \A t \in Tabs : tab[t] # calls'[j].token
                        /\ \A k \in DOMAIN calls' : k # j => calls'[k].token # calls'[j].token
                        /\ ~disturbed => ~sessions'[calls'[j].token].revoked
      BY DEF Fresh, browser
    <2>1. /\ Given(j) /\ j # i /\ calls'[j] = calls[j]
          /\ calls[j].token # calls[i].token /\ calls[j].token \in DOMAIN sessions
      BY <1>4, <1>5 DEF StoreInv, Fresh
    <2>2. \A k \in DOMAIN calls : calls'[k].token = calls[k].token
      BY <1>2
    <2> QED
      BY <1>2, <1>3, <2>1, <2>2 DEF StoreInv, Fresh
  <1>7. Backed'
    BY <1>2 DEF Backed
  <1> QED
    BY <1>6, <1>7

\* A session is created, and only the answer of this call names it.
LEMMA CreatedFresh ==
  ASSUME StoreInv, NEW i \in DOMAIN calls, CreateSession(i)
  PROVE  Fresh' /\ Backed'
  <1> PICK new : new = Len(sessions) + 1
    OBVIOUS
  <1> PICK call : call = [calls[i] EXCEPT !.stage = "answered", !.token = new]
    OBVIOUS
  <1> PICK row : row = [login |-> IF calls[i].kind = "login" THEN new
                                  ELSE sessions[calls[i].token].login,
                        revoked |-> FALSE, expiresAt |-> now + Lifetime]
    OBVIOUS
  <1>1. /\ calls[i].stage \in {"admitted", "revoked"}
        /\ sessions' = Append(sessions, row)
        /\ calls' = [calls EXCEPT ![i] = call]
        /\ UNCHANGED <<browser, disturbed>>
    BY DEF CreateSession, ghosts
  <1>2. /\ calls \in Seq(CallRows) /\ calls[i] \in CallRows /\ sessions \in Seq(Rows)
        /\ Len(sessions) \in Nat /\ DOMAIN sessions = 1..Len(sessions) /\ new \in Nat
    BY CallInHand DEF StoreInv, Inv, CallsShaped, SessionsShaped
  <1>3. call.kind = calls[i].kind /\ call.token = new /\ call.stage = "answered"
    BY <1>2 DEF CallRows
  <1>4. row.revoked = FALSE
    OBVIOUS
  <1>5. /\ DOMAIN calls' = DOMAIN calls /\ calls'[i] = call
        /\ \A j \in DOMAIN calls : j # i => calls'[j] = calls[j]
    BY <1>1, <1>2
  <1>6. /\ new \notin DOMAIN sessions /\ new # 0
        /\ \A s \in DOMAIN sessions : sessions'[s] = sessions[s]
        /\ sessions'[new] = row
    BY <1>1, <1>2
  <1>7. /\ \A j \in DOMAIN calls : calls[j].token \in DOMAIN sessions \cup {0}
        /\ store \in DOMAIN sessions \cup {0}
        /\ \A t \in Tabs : tab[t] \in DOMAIN sessions \cup {0}
    BY CallInHand DEF StoreInv, Inv, TabsShaped, Sensible, Known
  <1>8. /\ \A j \in DOMAIN calls : calls[j].token # new
        /\ store # new
        /\ \A t \in Tabs : tab[t] # new
    BY <1>6, <1>7
  <1>9. \A j \in DOMAIN calls' : j # i => calls'[j].token = calls[j].token /\ j \in DOMAIN calls
    BY <1>5
  <1>10. Fresh'
    <2> SUFFICES ASSUME NEW j, Given(j)'
                 PROVE  /\ calls'[j].token # 0 /\ store # calls'[j].token
                        /\ \A t \in Tabs : tab[t] # calls'[j].token
                        /\ \A k \in DOMAIN calls' : k # j => calls'[k].token # calls'[j].token
                        /\ ~disturbed => ~sessions'[calls'[j].token].revoked
      BY <1>1 DEF Fresh, browser
    <2>1. CASE j = i
      <3>1. calls'[j].token = new /\ new # 0 /\ ~sessions'[new].revoked
        BY <1>3, <1>4, <1>5, <1>6, <2>1
      <3> QED
        BY <1>8, <1>9, <2>1, <3>1
    <2>2. CASE j # i
      <3>1. Given(j) /\ calls'[j] = calls[j]
        BY <1>5, <2>2 DEF Given
      <3>2. /\ calls[j].token # 0 /\ store # calls[j].token
            /\ \A t \in Tabs : tab[t] # calls[j].token
            /\ \A k \in DOMAIN calls : k # j => calls[k].token # calls[j].token
            /\ ~disturbed => ~sessions[calls[j].token].revoked
        BY <3>1 DEF StoreInv, Fresh
      <3>3. calls[j].token \in DOMAIN sessions
        BY <1>7, <3>1, <3>2 DEF Given
      <3>4. \A k \in DOMAIN calls' : k # j => calls'[k].token # calls[j].token
        <4>1. calls'[i].token # calls[j].token
          BY <1>3, <1>5, <1>6, <3>3
        <4> QED
          BY <1>9, <3>2, <4>1
      <3> QED
        BY <1>6, <3>1, <3>2, <3>3, <3>4
    <2> QED
      BY <2>1, <2>2
  <1>11. Backed'
    <2>1. \A j \in DOMAIN calls : calls'[j].kind = calls[j].kind
      BY <1>3, <1>5
    <2> QED
      BY <1>1, <1>5, <1>6, <1>7, <2>1 DEF StoreInv, Backed, browser
  <1> QED
    BY <1>10, <1>11

\* A step that leaves calls and browser alone, and the sessions unless it is disturbed.
LEMMA StillFresh ==
  ASSUME StoreInv, UNCHANGED <<calls, browser>>,
         disturbed' \/ UNCHANGED <<sessions, disturbed>>
  PROVE  Fresh' /\ Backed'
  <1>1. \A i : Given(i)' <=> Given(i)
    BY DEF Given
  <1> QED
    BY <1>1 DEF StoreInv, Fresh, Backed, browser

LEMMA StepStore ==
  ASSUME StoreInv, [Next]_vars
  PROVE  StoreInv'
  <1>1. Inv'
    BY StepInv DEF StoreInv
  <1>2. ASSUME NEW t \in Tabs, Login(t) \/ Refresh(t) \/ Logout(t)
        PROVE  Fresh' /\ Backed'
    BY <1>2, AskedFresh DEF Login, Refresh, Logout
  <1>3. ASSUME NEW t \in Tabs, LogoutHere(t) \/ Mount(t)
        PROVE  Fresh' /\ Backed'
    <2>1. /\ tab' = [tab EXCEPT ![t] = store'] /\ store' \in {store, 0}
          /\ UNCHANGED <<sessions, calls, disturbed>>
      BY <1>3 DEF LogoutHere, Mount, SignedOut, ghosts
    <2> QED
      BY <2>1, TabFresh
  <1>4. ASSUME NEW i \in DOMAIN calls,
               \/ Deliver(i) \/ Lose(i) \/ Admit(i) \/ FindSession(i) \/ RevokeOld(i)
               \/ CreateSession(i) \/ Fail(i) \/ RevokeToken(i)
        PROVE  Fresh' /\ Backed'
    <2>1. CASE Deliver(i)
      BY <2>1, DeliveredFresh
    <2>2. CASE Lose(i)
      BY <2>2, GoneFresh DEF Lose
    <2>3. CASE Admit(i) \/ FindSession(i) \/ Fail(i)
      <3>1. /\ Moved(i, "admitted") \/ Moved(i, "denied") \/ Moved(i, "found")
            /\ UNCHANGED <<sessions, browser, disturbed>>
        BY <2>3 DEF Admit, FindSession, Fail, ghosts
      <3> QED
        BY <3>1, MovesFresh DEF Stages
    <2>4. CASE RevokeOld(i)
      <3>1. calls[i].kind = "refresh"
        BY <2>4, CallInHand DEF RevokeOld, StoreInv, Sensible
      <3> QED
        BY <2>4, <3>1, RevokedFresh DEF RevokeOld, ghosts
    <2>5. CASE CreateSession(i)
      BY <2>5, CreatedFresh
    <2>6. CASE RevokeToken(i)
      <3>1. /\ calls[i].kind = "logout" /\ Moved(i, "answered") /\ UNCHANGED <<browser, disturbed>>
            /\ \/ sessions' = [sessions EXCEPT ![calls[i].token].revoked = TRUE]
               \/ UNCHANGED sessions
        BY <2>6 DEF RevokeToken
      <3> QED
        BY <3>1, RevokedFresh, MovesFresh DEF Stages
    <2> QED
      BY <1>4, <2>1, <2>2, <2>3, <2>4, <2>5, <2>6
  <1>5. ASSUME \/ RevokeAll
               \/ \E route \in {"login", "command"}, t \in Tenants : Elsewhere(route, t)
               \/ TimePasses
               \/ UNCHANGED vars
        PROVE  Fresh' /\ Backed'
    <2>1. UNCHANGED <<calls, browser>> /\ (disturbed' \/ UNCHANGED <<sessions, disturbed>>)
      BY <1>5 DEF RevokeAll, Elsewhere, TimePasses, vars, ghosts
    <2> QED
      BY <2>1, StillFresh
  <1> QED
    BY <1>1, <1>2, <1>3, <1>4, <1>5 DEF Next, StoreInv

\* When every call has been answered and none was lost, what localStorage holds is a
\* live session, for any number of tabs and calls.
THEOREM StoredLiveHolds == Spec => []StoredLive
  <1>1. ASSUME Init
        PROVE  StoreInv
    <2>1. calls = <<>> /\ store = 0
      BY <1>1 DEF Init
    <2> QED
      BY <1>1, <2>1, InitInv DEF StoreInv, Fresh, Given, Backed
  <1>2. StoreInv => StoredLive
    BY DEF StoreInv, Backed, StoredLive, Live
  <1> QED
    BY <1>1, <1>2, StepStore, PTL DEF Spec
==============================================================================
