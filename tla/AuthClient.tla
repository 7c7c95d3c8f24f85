----------------------------- MODULE AuthClient -----------------------------
(***************************************************************************)
(* One tab of the frontend against the auth service: the auth store, the   *)
(* calls apiClient makes, its refresh queue and its refresh timer.         *)
(*                                                                         *)
(* A call is a request and its response; the server handles it in one step *)
(* except for a refresh, which AuthService takes apart, and a logout, whose*)
(* reply is a step of its own.  Tokens survive a reload in localStorage;   *)
(* nothing else of the tab does.                                           *)
(***************************************************************************)
EXTENDS AuthService

CONSTANTS Call      \* slots for concurrent apiClient calls

VARIABLES
    pair,       \* accessToken and refreshToken, set and cleared together
    auth,       \* isAuthenticated
    timer,      \* refreshTimer is armed
    call,       \* the calls under way
    sender,     \* who waits for a refresh: "queue" (refreshPromise), "timer"
    lost,       \* history: two refreshes sent one token, or one came to
                \* nothing, or the page was left on a logout's way back
    out         \* history: a logout ended, with no answer to come that signs
                \* in again, and no login has since

tab == <<pair, auth, timer, call, sender>>
vars == <<server, tab, lost, out>>

CallRecord == [pc    : {"idle", "sent", "wait", "replied"},
               kind  : {"none", "api", "me", "login", "logout"},
               token : Pair \cup {NoPair},      \* the Authorization header
               body  : Pair \cup {NoPair},      \* the token to log out
               retry : BOOLEAN]

NoCall == [pc |-> "idle", kind |-> "none", token |-> NoPair, body |-> NoPair,
           retry |-> FALSE]

TypeOK ==
    /\ ServerTypeOK
    /\ pair \in Pair \cup {NoPair}
    /\ auth \in BOOLEAN /\ timer \in BOOLEAN
    /\ call \in [Call -> CallRecord]
    /\ \A c \in Call : call[c].pc = "replied" => call[c].kind = "logout"
    /\ sender \in [Flight -> {"none", "queue", "timer"}]
    /\ lost \in BOOLEAN /\ out \in BOOLEAN

Init ==
    /\ ServerInit
    /\ pair = NoPair
    /\ auth = FALSE /\ timer = FALSE
    /\ call = [c \in Call |-> NoCall]
    /\ sender = [f \in Flight |-> "none"]
    /\ lost = FALSE /\ out = FALSE

-----------------------------------------------------------------------------
\* Helpers.

\* uuid4 repeats nothing that the tab still holds.
Unheld(k) ==
    /\ k # pair
    /\ \A c \in Call : k \notin {call[c].token, call[c].body}

Outstanding == {f \in Flight : sender[f] # "none"}

\* clearAuth(), or the end of logout().
Clear ==
    /\ pair' = NoPair
    /\ auth' = FALSE
    /\ timer' = FALSE

\* refreshTokens() posts the token the store holds.
StartRefresh(f, who) ==
    /\ Receive(f, pair)
    /\ sender' = [sender EXCEPT ![f] = who]
    /\ lost' = (lost \/ \E g \in Flight : flight[g].old = pair)
    /\ UNCHANGED <<stored, fresh>>

\* The answer to another call, or to a refresh, may still set the user or
\* the tokens, whatever these calls do.
Late(cs) == Outstanding # {} \/ \E c \in Call \ cs : call[c].kind = "me"

\* The promises of some calls are rejected: validateToken() and logout()
\* clear the store, and logout() the timer with it.
Fail(cs) ==
    LET kinds == {call[c].kind : c \in cs} IN
    /\ call' = [c \in Call |-> IF c \in cs THEN NoCall ELSE call[c]]
    /\ IF kinds \cap {"me", "logout"} # {}
       THEN pair' = NoPair /\ auth' = FALSE
       ELSE UNCHANGED <<pair, auth>>
    /\ timer' = (timer /\ "logout" \notin kinds)
    /\ out' = (out \/ ("logout" \in kinds /\ ~Late(cs)))

Waiting == {c \in Call : call[c].pc = "wait"}

-----------------------------------------------------------------------------
\* Calls.

Start(c, kind, k) ==
    call' = [call EXCEPT ![c] = [NoCall EXCEPT !.pc = "sent", !.kind = kind,
                                              !.token = k, !.body = k]]

\* The login page is shown, a page calls the API, ProtectedRoute validates
\* the token, or the settings page logs out.
Send(c, kind) ==
    /\ call[c].pc = "idle"
    /\ CASE kind = "login"  -> ~auth
         [] kind = "me"     -> pair # NoPair
         [] kind = "api"    -> auth
         [] kind = "logout" -> auth
    /\ Start(c, kind, pair)
    /\ UNCHANGED <<server, pair, auth, timer, sender, lost, out>>

Answered(c, kind) ==
    /\ call[c].pc = "sent"
    /\ call[c].kind = kind
    /\ call' = [call EXCEPT ![c] = NoCall]

ApiAccepted(c) ==
    /\ Answered(c, "api")
    /\ call[c].token \in fresh
    /\ UNCHANGED <<server, pair, auth, timer, sender, lost, out>>

\* validateToken() sets the user.
MeAccepted(c) ==
    /\ Answered(c, "me")
    /\ call[c].token \in fresh
    /\ auth' = TRUE
    /\ UNCHANGED <<server, pair, timer, sender, lost, out>>

\* login() stores the pair, arms the timer and asks for the user at once.
LoginAccepted(c, k) ==
    /\ call[c].pc = "sent" /\ call[c].kind = "login"
    /\ Unheld(k)
    /\ Login(k)
    /\ pair' = k
    /\ auth' = TRUE
    /\ timer' = TRUE
    /\ Start(c, "me", k)
    /\ out' = FALSE
    /\ UNCHANGED <<sender, lost>>

\* The server has deleted the refresh token; its reply is on its way.
LogoutServed(c) ==
    /\ call[c].pc = "sent" /\ call[c].kind = "logout"
    /\ call[c].token \in fresh
    /\ Logout(call[c].body)
    /\ call' = [call EXCEPT ![c].pc = "replied"]
    /\ UNCHANGED <<pair, auth, timer, sender, lost, out>>

\* The reply has come: logout() clears the store and the timer.
LogoutAccepted(c) ==
    /\ call[c].pc = "replied"
    /\ call' = [call EXCEPT ![c] = NoCall]
    /\ Clear
    /\ out' = (out \/ ~Late({c}))
    /\ UNCHANGED <<server, sender, lost>>

\* A 401: an access token that has expired, or a wrong password.
Unauthorized(c) ==
    /\ call[c].pc = "sent"
    /\ call[c].kind = "login" \/ call[c].token \notin fresh

\* ensureRefreshed(): the call joins the refresh of another one, ...
JoinRefresh(c) ==
    /\ Unauthorized(c)
    /\ ~call[c].retry
    /\ \E f \in Flight : sender[f] = "queue"
    /\ call' = [call EXCEPT ![c].pc = "wait"]
    /\ UNCHANGED <<server, pair, auth, timer, sender, lost, out>>

\* Mutant of Refresh: the pair that the refused call was sent with is used
\* when the store has none.
RefreshOfCall(c, f) ==
    /\ Unauthorized(c)
    /\ ~call[c].retry
    /\ \A g \in Flight : sender[g] # "queue"
    /\ call[c].token # NoPair
    /\ Receive(f, call[c].token)
    /\ sender' = [sender EXCEPT ![f] = "queue"]
    /\ call' = [call EXCEPT ![c].pc = "wait"]
    /\ UNCHANGED <<stored, fresh, pair, auth, timer, lost, out>>

\* ... or starts one, ...
Refresh(c, f) ==
    /\ Unauthorized(c)
    /\ ~call[c].retry
    /\ \A g \in Flight : sender[g] # "queue"
    /\ pair # NoPair
    /\ StartRefresh(f, "queue")
    /\ call' = [call EXCEPT ![c].pc = "wait"]
    /\ UNCHANGED <<pair, auth, timer, out>>

\* ... or fails, without a token or on its second 401, or for whatever
\* other reason: a network error, an error response, a reply that is lost.
CallFails(c) ==
    /\ call[c].pc \in {"sent", "replied"}
    /\ Fail({c})
    /\ UNCHANGED <<server, sender, lost>>

-----------------------------------------------------------------------------
\* Refreshes.

\* Mutant of TimerFires: it does not look whether there is a token.
TimerFiresBlindly(f) ==
    /\ timer
    /\ timer' = FALSE
    /\ StartRefresh(f, "timer")
    /\ UNCHANGED <<pair, auth, call, out>>

\* The timer sends a refresh of its own.
TimerFires(f) ==
    /\ timer
    /\ timer' = FALSE
    /\ IF pair = NoPair
       THEN UNCHANGED <<server, sender, lost>>
       ELSE StartRefresh(f, "timer")
    /\ UNCHANGED <<pair, auth, call, out>>

Rotate(f) ==
    \/ (Get(f) \/ Delete(f)) /\ UNCHANGED <<tab, lost, out>>
    \/ \E k \in Pair : Unheld(k) /\ Store(f, k) /\ UNCHANGED <<tab, lost, out>>

RotateBreaks(f) ==
    /\ Breaks(f)
    /\ lost' = TRUE
    /\ UNCHANGED <<tab, out>>

\* Mutant of Refreshed: the access token is taken, the refresh token kept.
RefreshedInPart(f) ==
    /\ flight[f].pc = "ok"
    /\ sender[f] # "none"
    /\ auth' = TRUE
    /\ timer' = TRUE
    /\ call' = [c \in Call |->
                  IF c \in Waiting /\ sender[f] = "queue"
                  THEN [call[c] EXCEPT !.pc = "sent", !.token = flight[f].new, !.retry = TRUE]
                  ELSE call[c]]
    /\ sender' = [sender EXCEPT ![f] = "none"]
    /\ Done(f)
    /\ UNCHANGED <<pair, stored, fresh, lost, out>>

\* The new pair is set, the timer starts again, and the calls that waited
\* are sent once more.
Refreshed(f) ==
    /\ flight[f].pc = "ok"
    /\ sender[f] # "none"
    /\ pair' = flight[f].new
    /\ auth' = TRUE
    /\ timer' = TRUE
    /\ call' = [c \in Call |->
                  IF c \in Waiting /\ sender[f] = "queue"
                  THEN [call[c] EXCEPT !.pc = "sent", !.token = pair', !.retry = TRUE]
                  ELSE call[c]]
    /\ sender' = [sender EXCEPT ![f] = "none"]
    /\ Done(f)
    /\ UNCHANGED <<stored, fresh, lost, out>>

\* The refresh is refused: the store is cleared and the page is left, and
\* with it everything that was under way.
Refused(f) ==
    /\ flight[f].pc = "denied"
    /\ sender[f] # "none"
    /\ Clear
    /\ call' = [c \in Call |-> NoCall]
    /\ sender' = [g \in Flight |-> "none"]
    /\ lost' = (lost \/ Outstanding # {f})
    /\ Done(f)
    /\ UNCHANGED <<stored, fresh, out>>

\* Mutant of Unreachable: the promise of the queue is never settled.
UnreachableForgotten(f) ==
    /\ sender[f] # "none"
    /\ sender' = [sender EXCEPT ![f] = "none"]
    /\ lost' = TRUE
    /\ UNCHANGED <<server, pair, auth, timer, call, out>>

\* fetch() rejects: the calls that waited fail; the server may go on.
Unreachable(f) ==
    /\ sender[f] # "none"
    /\ sender' = [sender EXCEPT ![f] = "none"]
    /\ lost' = TRUE
    /\ IF sender[f] = "queue"
       THEN Fail(Waiting)
       ELSE UNCHANGED <<pair, auth, timer, call, out>>
    /\ UNCHANGED server

\* A response that nobody waits for any more.
Dropped(f) ==
    /\ flight[f].pc \in {"ok", "denied"}
    /\ sender[f] = "none"
    /\ Done(f)
    /\ UNCHANGED <<stored, fresh, tab, lost, out>>

\* The page is reloaded: the tokens come back from localStorage, also those
\* of a logout that was served.
Reload ==
    /\ auth' = FALSE
    /\ timer' = FALSE
    /\ call' = [c \in Call |-> NoCall]
    /\ sender' = [f \in Flight |-> "none"]
    /\ lost' = (lost \/ Outstanding # {} \/ \E c \in Call : call[c].pc = "replied")
    /\ UNCHANGED <<server, pair, out>>

Expiry(k) ==
    \/ AccessExpires(k) /\ UNCHANGED <<tab, lost, out>>
    \/ RefreshExpires(k) /\ lost' = TRUE /\ UNCHANGED <<tab, out>>

-----------------------------------------------------------------------------
Tab(c) ==
    \/ ApiAccepted(c) \/ MeAccepted(c) \/ LogoutServed(c) \/ LogoutAccepted(c)
    \/ JoinRefresh(c) \/ CallFails(c)
    \/ \E k \in Pair : LoginAccepted(c, k)
    \/ \E f \in Flight : Refresh(c, f)

Exchange(f) ==
    \/ Rotate(f) \/ RotateBreaks(f) \/ Refreshed(f) \/ Refused(f)
    \/ Unreachable(f) \/ Dropped(f)

Next ==
    \/ \E c \in Call : Tab(c) \/ \E kind \in {"api", "me", "login", "logout"} : Send(c, kind)
    \/ \E f \in Flight : Exchange(f) \/ TimerFires(f)
    \/ \E k \in Pair : Expiry(k)
    \/ Reload

Spec == Init /\ [][Next]_vars

\* fetch() settles in the end, and so does what the server does with it.
Fairness ==
    /\ \A c \in Call : WF_vars(Tab(c))
    /\ \A f \in Flight : WF_vars(Exchange(f))

FairSpec == Spec /\ Fairness

-----------------------------------------------------------------------------
\* Properties.

\* The refresh token the tab holds can be exchanged, unless an exchange is
\* under way or one went wrong, or the server has served the logout that
\* names it: neither a rotation, nor a reload between two, nor a logout whose
\* access token expired costs a user the session (AUTH-03: the session
\* persists through token refresh).
SessionAlive ==
    /\ ~lost /\ pair # NoPair /\ Outstanding = {}
    /\ \A c \in Call : call[c].pc = "replied" => call[c].body # pair
    => pair \in stored

\* Every call ends, also one that waits for the refresh of another.
CallsSettle == \A c \in Call : call[c].pc # "idle" ~> call[c].pc = "idle"

\* "Logout endpoint may fail, still clear local state" (auth-store.ts:83):
\* after a logout the user is out until the next login, also when calls of
\* other pages are refused afterwards, for want of a token to refresh with.
LoggedOutStaysOut == out => ~auth /\ pair = NoPair
=============================================================================
