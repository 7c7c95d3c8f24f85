-------------------------- MODULE AuthClient_proof --------------------------
(***************************************************************************)
(* Proofs about AuthService and AuthClient: types, the invalidation of     *)
(* rotated tokens under any clients, that a tab is one of those clients,   *)
(* that the session of a tab is not lost, and that a logout is final.      *)
(***************************************************************************)
EXTENDS AuthClient, TLAPS

-----------------------------------------------------------------------------
\* The service.

\* No step of the service, whoever calls it, leaves the types.
LEMMA ServerTypeStep ==
    ServerTypeOK /\ [ServerNext]_server => ServerTypeOK'
<1> SUFFICES ASSUME ServerTypeOK, [ServerNext]_server PROVE ServerTypeOK'
    OBVIOUS
<1> USE PairAssumption DEF ServerTypeOK, FlightRecord, NoFlight
<1>1. CASE UNCHANGED server
    BY <1>1 DEF server
<1>2. ASSUME NEW k \in Pair,
             Login(k) \/ Logout(k) \/ AccessExpires(k) \/ RefreshExpires(k)
      PROVE  ServerTypeOK'
    BY <1>2 DEF Login, Issue, Logout, AccessExpires, RefreshExpires
<1>3. ASSUME NEW k \in Pair, NEW f \in Flight, Receive(f, k), UNCHANGED <<stored, fresh>>
      PROVE  ServerTypeOK'
    BY <1>3 DEF Receive
<1>4. ASSUME NEW k \in Pair, NEW f \in Flight, Store(f, k)
      PROVE  ServerTypeOK'
    BY <1>4 DEF Store, Issue
<1>5. ASSUME NEW f \in Flight, Get(f) \/ Delete(f) \/ Breaks(f)
      PROVE  ServerTypeOK'
    BY <1>5 DEF Get, Delete, Breaks
<1>6. ASSUME NEW f \in Flight, Done(f), UNCHANGED <<stored, fresh>>
      PROVE  ServerTypeOK'
    BY <1>6 DEF Done
<1> QED
    BY <1>1, <1>2, <1>3, <1>4, <1>5, <1>6 DEF ServerNext

\* The service keeps its types, whoever calls it.
THEOREM ServerTypeCorrect == ServerSpec => []ServerTypeOK
<1>1. ServerInit => ServerTypeOK
    BY DEF ServerInit, ServerTypeOK, FlightRecord
<1> QED
    BY <1>1, ServerTypeStep, PTL DEF ServerSpec

\* A new pair is no pair of a request under way, and a delete deletes: so
\* no step of the service brings back a token that was rotated away.
LEMMA InvalidatedStep ==
    ServerTypeOK /\ OldInvalidated /\ [ServerNext]_server => OldInvalidated'
<1> SUFFICES ASSUME ServerTypeOK, OldInvalidated, [ServerNext]_server
             PROVE  OldInvalidated'
    OBVIOUS
<1> USE PairAssumption DEF OldInvalidated, ServerTypeOK, FlightRecord, NoFlight
<1>1. CASE UNCHANGED server
    BY <1>1 DEF server
<1>2. ASSUME NEW k \in Pair,
             Login(k) \/ Logout(k) \/ AccessExpires(k) \/ RefreshExpires(k)
      PROVE  OldInvalidated'
    BY <1>2 DEF Login, Issue, Unissued, Logout, AccessExpires, RefreshExpires
<1>3. ASSUME NEW k \in Pair, NEW f \in Flight, Receive(f, k), UNCHANGED <<stored, fresh>>
      PROVE  OldInvalidated'
    BY <1>3 DEF Receive
<1>4. ASSUME NEW k \in Pair, NEW f \in Flight, Store(f, k)
      PROVE  OldInvalidated'
    BY <1>4 DEF Store, Issue, Unissued
<1>5. ASSUME NEW f \in Flight, Get(f) \/ Delete(f) \/ Breaks(f)
      PROVE  OldInvalidated'
    BY <1>5 DEF Get, Delete, Breaks
<1>6. ASSUME NEW f \in Flight, Done(f), UNCHANGED <<stored, fresh>>
      PROVE  OldInvalidated'
    BY <1>6 DEF Done
<1> QED
    BY <1>1, <1>2, <1>3, <1>4, <1>5, <1>6 DEF ServerNext

\* Whatever the clients send and however the requests interleave, once one
\* request is past its delete the token is stored for no request that looks
\* it up later.  A request that has found it before is not covered.
THEOREM RotationInvalidates == ServerSpec => []OldInvalidated
<1>1. ServerInit => OldInvalidated
    BY DEF ServerInit, OldInvalidated, NoFlight
<1> QED
    BY <1>1, InvalidatedStep, ServerTypeCorrect, PTL DEF ServerSpec

-----------------------------------------------------------------------------
\* The tab as a client of the service, and its types.

\* Init is typed, and an initial state of the service.
LEMMA Initial == Init => TypeOK /\ ServerInit
<1> SUFFICES ASSUME Init PROVE TypeOK /\ ServerInit
    OBVIOUS
<1>1. ServerTypeOK
    BY DEF Init, ServerInit, ServerTypeOK, FlightRecord
<1>2. call \in [Call -> CallRecord]
    BY DEF Init, CallRecord, NoCall
<1> QED
    BY <1>1, <1>2 DEF Init, TypeOK, NoCall

\* What a tab does to the service is what the service allows a client.
LEMMA TabIsClient == TypeOK /\ [Next]_vars => [ServerNext]_server
<1> SUFFICES ASSUME TypeOK, [Next]_vars PROVE [ServerNext]_server
    OBVIOUS
<1> USE PairAssumption DEF TypeOK, ServerTypeOK, server
<1>1. CASE UNCHANGED vars
    BY <1>1 DEF vars
<1>2. ASSUME NEW c \in Call, Tab(c) PROVE [ServerNext]_server
  <2>1. CASE \/ ApiAccepted(c) \/ MeAccepted(c) \/ LogoutAccepted(c)
             \/ JoinRefresh(c) \/ CallFails(c)
      BY <2>1 DEF ApiAccepted, MeAccepted, LogoutAccepted, JoinRefresh, CallFails
  <2>2. CASE LogoutServed(c)
      BY <2>2 DEF LogoutServed, Logout, CallRecord, ServerNext
  <2>3. ASSUME NEW k \in Pair, LoginAccepted(c, k) PROVE ServerNext
      BY <2>3 DEF LoginAccepted, ServerNext
  <2>4. ASSUME NEW f \in Flight, Refresh(c, f) PROVE ServerNext
      BY <2>4 DEF Refresh, StartRefresh, ServerNext
  <2> QED
      BY <1>2, <2>1, <2>2, <2>3, <2>4 DEF Tab
<1>3. ASSUME NEW f \in Flight, Exchange(f) PROVE [ServerNext]_server
  <2>1. CASE Rotate(f) \/ RotateBreaks(f)
      BY <2>1 DEF Rotate, RotateBreaks, ServerNext
  <2>2. CASE Refreshed(f) \/ Refused(f) \/ Dropped(f)
      BY <2>2 DEF Refreshed, Refused, Dropped, ServerNext
  <2>3. CASE Unreachable(f)
      BY <2>3 DEF Unreachable
  <2> QED
      BY <1>3, <2>1, <2>2, <2>3 DEF Exchange
<1>4. ASSUME NEW f \in Flight, TimerFires(f) PROVE [ServerNext]_server
    BY <1>4 DEF TimerFires, StartRefresh, ServerNext
<1>5. ASSUME NEW k \in Pair, Expiry(k) PROVE [ServerNext]_server
    BY <1>5 DEF Expiry, ServerNext
<1>6. ASSUME NEW c \in Call, NEW kind, Send(c, kind) PROVE [ServerNext]_server
    BY <1>6 DEF Send
<1>7. CASE Reload
    BY <1>7 DEF Reload
<1> QED
    BY <1>1, <1>2, <1>3, <1>4, <1>5, <1>6, <1>7 DEF Next

\* No step of the tab leaves the types.
LEMMA TypeStep == TypeOK /\ [Next]_vars => TypeOK'
<1> SUFFICES ASSUME TypeOK, [Next]_vars PROVE TypeOK'
    OBVIOUS
<1>0. ServerTypeOK'
    BY TabIsClient, ServerTypeStep DEF TypeOK
<1> USE PairAssumption DEF TypeOK, CallRecord, NoCall
<1>1. CASE UNCHANGED vars
    BY <1>0, <1>1 DEF vars, tab
<1>2. ASSUME NEW c \in Call, Tab(c) PROVE TypeOK'
  <2>1. CASE ApiAccepted(c)
      BY <1>0, <2>1 DEF ApiAccepted, Answered
  <2>2. CASE MeAccepted(c)
      BY <1>0, <2>2 DEF MeAccepted, Answered
  <2>3. CASE LogoutServed(c)
      BY <1>0, <2>3 DEF LogoutServed
  <2>8. CASE LogoutAccepted(c)
      BY <1>0, <2>8 DEF LogoutAccepted, Clear
  <2>4. CASE JoinRefresh(c)
      BY <1>0, <2>4 DEF JoinRefresh
  <2>5. CASE CallFails(c)
      BY <1>0, <2>5 DEF CallFails, Fail
  <2>6. ASSUME NEW k \in Pair, LoginAccepted(c, k) PROVE TypeOK'
      BY <1>0, <2>6 DEF LoginAccepted, Start
  <2>7. ASSUME NEW f \in Flight, Refresh(c, f) PROVE TypeOK'
      BY <1>0, <2>7 DEF Refresh, StartRefresh
  <2> QED
      BY <1>2, <2>1, <2>2, <2>3, <2>4, <2>5, <2>6, <2>7, <2>8 DEF Tab
<1>3. ASSUME NEW f \in Flight, Exchange(f) PROVE TypeOK'
  <2>1. CASE Rotate(f) \/ RotateBreaks(f) \/ Dropped(f)
      BY <1>0, <2>1 DEF Rotate, RotateBreaks, Dropped, tab
  <2>2. CASE Refreshed(f)
    <3>1. flight[f] \in FlightRecord /\ flight[f].pc = "ok"
        BY <2>2 DEF Refreshed, ServerTypeOK
    <3>2. flight[f].new \in Pair
        BY <3>1 DEF FlightRecord, NoFlight
    <3>3. pair' \in Pair /\ auth' \in BOOLEAN /\ timer' \in BOOLEAN
        BY <2>2, <3>2 DEF Refreshed
    <3>4. call' \in [Call -> CallRecord]
      <4>1. ASSUME NEW c \in Call
            PROVE  [call[c] EXCEPT !.pc = "sent", !.token = pair', !.retry = TRUE] \in CallRecord
          BY <3>3
      <4> QED
          BY <2>2, <4>1 DEF Refreshed
    <3> QED
        BY <1>0, <2>2, <3>3, <3>4 DEF Refreshed
  <2>3. CASE Refused(f)
      BY <1>0, <2>3 DEF Refused, Clear
  <2>4. CASE Unreachable(f)
    <3>1. call' \in [Call -> CallRecord]
      <4>1. NoCall \in CallRecord
          OBVIOUS
      <4>2. CASE Fail(Waiting)
          BY <4>1, <4>2 DEF Fail
      <4> QED
          BY <2>4, <4>2 DEF Unreachable
    <3>3. \A c \in Call : call'[c].pc = "replied" => call'[c].kind = "logout"
        BY <2>4 DEF Unreachable, Fail
    <3>2. pair' \in Pair \cup {NoPair} /\ auth' \in BOOLEAN /\ timer' \in BOOLEAN
             /\ out' \in BOOLEAN
        BY <2>4 DEF Unreachable, Fail
    <3> QED
        BY <1>0, <2>4, <3>1, <3>2, <3>3 DEF Unreachable
  <2> QED
      BY <1>3, <2>1, <2>2, <2>3, <2>4 DEF Exchange
<1>4. ASSUME NEW f \in Flight, TimerFires(f) PROVE TypeOK'
    BY <1>0, <1>4 DEF TimerFires, StartRefresh
<1>5. ASSUME NEW k \in Pair, Expiry(k) PROVE TypeOK'
    BY <1>0, <1>5 DEF Expiry, tab
<1>6. ASSUME NEW c \in Call, NEW kind \in {"api", "me", "login", "logout"}, Send(c, kind)
      PROVE  TypeOK'
    BY <1>0, <1>6 DEF Send, Start
<1>7. CASE Reload
    BY <1>0, <1>7 DEF Reload
<1> QED
    BY <1>1, <1>2, <1>3, <1>4, <1>5, <1>6, <1>7 DEF Next

\* The tab and the service keep their types.
THEOREM TypeCorrect == Spec => []TypeOK
<1> QED
    BY Initial, TypeStep, PTL DEF Spec

\* The tab and the service together behave as the service under arbitrary
\* clients does, which carries RotationInvalidates over.
THEOREM TabImplementsClient == Spec => ServerSpec
<1> QED
    BY Initial, TabIsClient, TypeCorrect, PTL DEF Spec, ServerSpec

-----------------------------------------------------------------------------
\* The session.  SessionAlive is not inductive: a granted pair has to stay
\* redeemable until the tab has taken it, and no request may be under way
\* that the tab does not wait for.

\* As long as no refresh was lost, the tab waits for every request.
Attended == \A f \in Flight : sender[f] = "none" => flight[f] = NoFlight

\* A granted pair is stored, and nobody else knows it yet.
Granted ==
    \A f \in Flight : flight[f].pc = "ok" =>
        /\ flight[f].new \in stored
        /\ flight[f].new # pair
        /\ \A c \in Call : call[c].body # flight[f].new
        /\ \A g \in Flight : flight[g].old # flight[f].new
        /\ \A g \in Flight \ {f} : flight[g].new # flight[f].new

SInv == ~lost => Attended /\ Granted /\ SessionAlive

\* What the types say of a request.
LEMMA FlightFacts ==
    ASSUME ServerTypeOK, NEW f \in Flight
    PROVE  /\ flight[f].pc = "ok" => flight[f].old \in Pair /\ flight[f].new \in Pair
           /\ flight[f] = NoFlight <=> flight[f].pc = "idle"
<1>1. flight[f] \in FlightRecord
    BY DEF ServerTypeOK
<1> QED
    BY <1>1 DEF FlightRecord, NoFlight

\* A step that touches no request and at most forgets pairs; it forgets a
\* logout that was served with the pair.
LEMMA SessionForgets ==
    ASSUME TypeOK, SInv,
           flight' = flight, stored' = stored, sender' = sender, lost' = lost,
           pair' \in {pair, NoPair},
           \A d \in Call : call'[d].body \in {call[d].body, NoPair},
           pair' = NoPair \/ \A d \in Call : call[d].pc = "replied" => call'[d] = call[d]
    PROVE  SInv'
<1>1. Outstanding' = Outstanding
    BY DEF Outstanding
<1>2. \A f \in Flight : flight[f].pc = "ok" => flight[f].new # NoPair
    BY PairAssumption, FlightFacts DEF TypeOK
<1> QED
    BY <1>1, <1>2 DEF SInv, Attended, Granted, SessionAlive, NoFlight

\* Calls: a login brings a stored pair, everything else takes pairs away
\* from the tab, and no request is touched.
LEMMA SessionTab ==
    ASSUME TypeOK, SInv, NEW c \in Call, Tab(c)
    PROVE  SInv'
<1> SUFFICES ASSUME ~lost' PROVE Attended' /\ Granted' /\ SessionAlive'
    BY DEF SInv
<1> USE PairAssumption, FlightFacts
        DEF TypeOK, ServerTypeOK, NoFlight, NoCall, Outstanding
<1>1. CASE ApiAccepted(c) \/ MeAccepted(c)
  <2>1. \A d \in Call : call'[d].body \in {call[d].body, NoPair}
      BY <1>1 DEF ApiAccepted, MeAccepted, Answered
  <2>2. \A d \in Call : call[d].pc = "replied" => call'[d] = call[d]
      BY <1>1 DEF ApiAccepted, MeAccepted, Answered
  <2> QED
      BY <1>1, <2>1, <2>2, SessionForgets DEF ApiAccepted, MeAccepted, SInv, server
<1>2. CASE LogoutServed(c)
  <2>1. /\ stored' = stored \ {call[c].body} /\ flight' = flight
        /\ pair' = pair /\ sender' = sender /\ ~lost
      BY <1>2 DEF LogoutServed, Logout
  <2>2. \A d \in Call : call'[d].body = call[d].body
      BY <1>2 DEF LogoutServed
  <2>3. call'[c].pc = "replied" /\ \A d \in Call \ {c} : call'[d] = call[d]
      BY <1>2 DEF LogoutServed
  <2>4. call[c].pc # "replied"
      BY <1>2 DEF LogoutServed
  <2>5. Attended'
      BY <2>1 DEF SInv, Attended
  <2>6. Granted'
      BY <2>1, <2>2 DEF SInv, Granted
  <2>7. SessionAlive'
      BY <2>1, <2>2, <2>3, <2>4 DEF SInv, SessionAlive
  <2> QED
      BY <2>5, <2>6, <2>7
<1>3. CASE LogoutAccepted(c)
  <2>1. \A d \in Call : call'[d].body \in {call[d].body, NoPair}
      BY <1>3 DEF LogoutAccepted
  <2> QED
      BY <1>3, <2>1, SessionForgets DEF LogoutAccepted, Clear, SInv, server
<1>4. CASE JoinRefresh(c)
  <2>1. \A d \in Call : call'[d].body \in {call[d].body, NoPair}
      BY <1>4 DEF JoinRefresh
  <2>2. \A d \in Call : call[d].pc = "replied" => call'[d] = call[d]
      BY <1>4 DEF JoinRefresh, Unauthorized
  <2> QED
      BY <1>4, <2>1, <2>2, SessionForgets DEF JoinRefresh, SInv, server
<1>5. CASE CallFails(c)
  <2>3. pair' = NoPair \/ \A d \in Call : call[d].pc = "replied" => call'[d] = call[d]
      BY <1>5 DEF CallFails, Fail
  <2>1. \A d \in Call : call'[d].body \in {call[d].body, NoPair}
      BY <1>5 DEF CallFails, Fail
  <2>2. pair' \in {pair, NoPair}
      BY <1>5 DEF CallFails, Fail
  <2> QED
      BY <1>5, <2>1, <2>2, <2>3, SessionForgets DEF CallFails, SInv, server
<1>6. ASSUME NEW k \in Pair, LoginAccepted(c, k)
      PROVE  Attended' /\ Granted' /\ SessionAlive'
    BY <1>6 DEF SInv, Attended, Granted, SessionAlive, LoginAccepted, Login, Issue, Unissued,
                Start, CallRecord
<1>7. ASSUME NEW f \in Flight, Refresh(c, f)
      PROVE  Attended' /\ Granted' /\ SessionAlive'
    BY <1>7 DEF SInv, Attended, Granted, SessionAlive, Refresh, StartRefresh, Receive,
                CallRecord
<1> QED
    BY <1>1, <1>2, <1>3, <1>4, <1>5, <1>6, <1>7 DEF Tab

\* Requests: a request that is granted hands its pair to the tab; every
\* other end of one is a loss or clears the tab.
LEMMA SessionExchange ==
    ASSUME TypeOK, SInv, NEW f \in Flight, Exchange(f)
    PROVE  SInv'
<1> SUFFICES ASSUME ~lost' PROVE Attended' /\ Granted' /\ SessionAlive'
    BY DEF SInv
<1> USE PairAssumption, FlightFacts
        DEF TypeOK, ServerTypeOK, NoFlight, Outstanding
<1>1. CASE Get(f) /\ UNCHANGED <<tab, lost, out>>
    BY <1>1 DEF SInv, Attended, Granted, SessionAlive, Get, tab
<1>2. CASE Delete(f) /\ UNCHANGED <<tab, lost, out>>
    BY <1>2 DEF SInv, Attended, Granted, SessionAlive, Delete, tab
<1>3. ASSUME NEW k \in Pair, Unheld(k), Store(f, k), UNCHANGED <<tab, lost, out>>
      PROVE  Attended' /\ Granted' /\ SessionAlive'
    BY <1>3 DEF SInv, Attended, Granted, SessionAlive, Store, Issue, Unissued, Unheld, tab
<1>4. CASE RotateBreaks(f)
    BY <1>4 DEF RotateBreaks
<1>5. CASE Refreshed(f)
  <2>1. \A d \in Call : call'[d].body = call[d].body
    <3>1. ASSUME NEW d \in Call
          PROVE  [call[d] EXCEPT !.pc = "sent", !.token = pair', !.retry = TRUE].body
                    = call[d].body
        BY DEF CallRecord
    <3> QED
        BY <1>5, <3>1 DEF Refreshed
  <2>2. flight[f].pc = "ok" /\ ~lost /\ stored' = stored /\ pair' = flight[f].new
      BY <1>5 DEF Refreshed
  <2>3. \A g \in Flight \ {f} : flight'[g] = flight[g] /\ sender'[g] = sender[g]
      BY <1>5 DEF Refreshed, Done
  <2>4. flight'[f] = NoFlight
      BY <1>5 DEF Refreshed, Done
  <2>5. Attended'
      BY <2>2, <2>3, <2>4 DEF SInv, Attended
  <2>6. Granted'
      BY <2>1, <2>2, <2>3, <2>4 DEF SInv, Granted
  <2>7. SessionAlive'
      BY <2>2 DEF SInv, Granted, SessionAlive
  <2> QED
      BY <2>5, <2>6, <2>7
<1>6. CASE Refused(f)
    BY <1>6 DEF SInv, Attended, Granted, SessionAlive, Refused, Clear, Done
<1>7. CASE Unreachable(f)
    BY <1>7 DEF Unreachable
<1>8. CASE Dropped(f)
    BY <1>8 DEF SInv, Attended, Dropped
<1> QED
    BY <1>1, <1>2, <1>3, <1>4, <1>5, <1>6, <1>7, <1>8 DEF Exchange, Rotate

LEMMA SessionStep == TypeOK /\ SInv /\ [Next]_vars => SInv'
<1> SUFFICES ASSUME TypeOK, SInv, [Next]_vars PROVE SInv'
    OBVIOUS
<1> USE PairAssumption, FlightFacts
        DEF TypeOK, ServerTypeOK, NoFlight, NoCall, Outstanding
<1>1. CASE UNCHANGED vars
    BY <1>1 DEF vars, tab, server, SInv, Attended, Granted, SessionAlive
<1>2. ASSUME NEW f \in Flight, TimerFires(f) PROVE SInv'
  <2>1. CASE pair = NoPair
      BY <1>2, <2>1 DEF SInv, Attended, Granted, SessionAlive, TimerFires, server
  <2>2. CASE pair # NoPair
    <3> SUFFICES ASSUME ~lost' PROVE SInv'
        BY DEF SInv
    <3>1. ~lost /\ Attended /\ Granted /\ flight[f].pc = "idle"
        BY <1>2, <2>2 DEF SInv, TimerFires, StartRefresh, Receive
    <3>2. /\ flight' = [flight EXCEPT ![f] = [NoFlight EXCEPT !.pc = "get", !.old = pair]]
          /\ sender' = [sender EXCEPT ![f] = "timer"]
          /\ stored' = stored /\ pair' = pair /\ call' = call
        BY <1>2, <2>2 DEF TimerFires, StartRefresh, Receive
    <3>3. flight'[f].pc = "get" /\ flight'[f].old = pair /\ flight'[f].new = NoPair
          /\ sender'[f] = "timer"
        BY <3>2
    <3>4. \A g \in Flight \ {f} : flight'[g] = flight[g] /\ sender'[g] = sender[g]
        BY <3>2
    <3>5. Attended'
        BY <3>1, <3>3, <3>4 DEF Attended
    <3>6. Granted'
        BY <3>1, <3>2, <3>3, <3>4 DEF Granted
    <3>7. SessionAlive'
        BY <3>3 DEF SessionAlive
    <3> QED
        BY <3>5, <3>6, <3>7 DEF SInv
  <2> QED
      BY <2>1, <2>2
<1>3. ASSUME NEW k \in Pair, Expiry(k) PROVE SInv'
    BY <1>3 DEF SInv, Attended, Granted, SessionAlive, Expiry, AccessExpires, RefreshExpires,
                tab
<1>4. ASSUME NEW c \in Call, NEW kind, Send(c, kind) PROVE SInv'
    BY <1>4 DEF SInv, Attended, Granted, SessionAlive, Send, Start, server
<1>5. CASE Reload
    BY <1>5 DEF SInv, Attended, Granted, SessionAlive, Reload, server
<1> QED
    BY <1>1, <1>2, <1>3, <1>4, <1>5, SessionTab, SessionExchange DEF Next

\* For any number of calls, requests and pairs: unless a refresh itself
\* fails, the refresh token the tab holds is one the service will take.
THEOREM SessionKept == Spec => []SessionAlive
<1>1. Init => SInv
    BY DEF Init, ServerInit, SInv, Attended, Granted, SessionAlive, NoFlight
<1>2. SInv => SessionAlive
    BY DEF SInv, SessionAlive
<1> QED
    BY <1>1, <1>2, SessionStep, TypeCorrect, PTL DEF Spec
-----------------------------------------------------------------------------
\* The logout.  LoggedOutStaysOut is not inductive: a late answer to a
\* refresh or to validateToken() would sign the user in again.

\* Once a user is out nothing is under way that could sign in, and without
\* a pair nothing of the kind can start.
OutInv ==
    out => /\ ~auth /\ pair = NoPair
           /\ Outstanding = {}
           /\ \A c \in Call : call[c].kind # "me"

\* A rejected logout puts the user out only when no answer is to come that
\* signs in again; any other rejection signs nobody in.
LEMMA FailKeepsOut ==
    ASSUME TypeOK, OutInv, NEW cs \in SUBSET Call, Fail(cs), sender' = sender
    PROVE  OutInv'
<1>1. Outstanding' = Outstanding
    BY DEF Outstanding
<1>2. \A c \in Call : call'[c].kind = IF c \in cs THEN "none" ELSE call[c].kind
    BY DEF TypeOK, Fail, NoCall
<1>3. CASE out
    BY <1>1, <1>2, <1>3 DEF OutInv, Fail
<1>4. CASE ~out /\ out'
  <2>1. "logout" \in {call[c].kind : c \in cs} /\ ~Late(cs)
      BY <1>4 DEF Fail
  <2>2. ~auth' /\ pair' = NoPair
      BY <2>1 DEF Fail
  <2> QED
      BY <1>1, <1>2, <2>1, <2>2 DEF OutInv, Late
<1> QED
    BY <1>3, <1>4 DEF OutInv

\* Calls: only a login signs in, and it ends the claim.
LEMMA OutTab ==
    ASSUME TypeOK, OutInv, NEW c \in Call, Tab(c)
    PROVE  OutInv'
<1> USE DEF TypeOK
<1>1. CASE ApiAccepted(c)
    BY <1>1 DEF OutInv, Outstanding, ApiAccepted, Answered, NoCall
<1>2. CASE MeAccepted(c)
    BY <1>2 DEF OutInv, Outstanding, MeAccepted, Answered, NoCall
<1>3. CASE LogoutAccepted(c)
    BY <1>3 DEF OutInv, Outstanding, Late, LogoutAccepted, Clear, NoCall
<1>8. CASE LogoutServed(c)
  <2>1. \A d \in Call : call'[d].kind = call[d].kind
      BY <1>8 DEF LogoutServed, CallRecord
  <2> QED
      BY <1>8, <2>1 DEF OutInv, Outstanding, LogoutServed
<1>4. CASE JoinRefresh(c)
    BY <1>4 DEF OutInv, Outstanding, JoinRefresh, CallRecord
<1>5. CASE CallFails(c)
    BY <1>5, FailKeepsOut DEF CallFails
<1>6. ASSUME NEW k \in Pair, LoginAccepted(c, k) PROVE OutInv'
    BY <1>6 DEF OutInv, LoginAccepted
<1>7. ASSUME NEW f \in Flight, Refresh(c, f) PROVE OutInv'
    BY <1>7 DEF OutInv, Refresh
<1> QED
    BY <1>1, <1>2, <1>3, <1>4, <1>5, <1>6, <1>7, <1>8 DEF Tab

\* Requests: when a user is out the tab waits for none.
LEMMA OutExchange ==
    ASSUME TypeOK, OutInv, NEW f \in Flight, Exchange(f)
    PROVE  OutInv'
<1>1. CASE Rotate(f) \/ RotateBreaks(f) \/ Dropped(f)
    BY <1>1 DEF OutInv, Outstanding, Rotate, RotateBreaks, Dropped, tab
<1>2. CASE Refreshed(f) \/ Refused(f)
    BY <1>2 DEF OutInv, Outstanding, Refreshed, Refused
<1>3. CASE Unreachable(f)
  <2>1. ~out /\ Outstanding # {}
      BY <1>3 DEF OutInv, Outstanding, Unreachable
  <2>2. ~out'
      BY <1>3, <2>1 DEF Unreachable, Fail, Late
  <2> QED
      BY <2>2 DEF OutInv
<1> QED
    BY <1>1, <1>2, <1>3 DEF Exchange

LEMMA OutStep == TypeOK /\ OutInv /\ [Next]_vars => OutInv'
<1> SUFFICES ASSUME TypeOK, OutInv, [Next]_vars PROVE OutInv'
    OBVIOUS
<1>1. CASE UNCHANGED vars
    BY <1>1 DEF OutInv, Outstanding, vars, tab
<1>2. ASSUME NEW f \in Flight, TimerFires(f) PROVE OutInv'
    BY <1>2 DEF OutInv, Outstanding, TimerFires
<1>3. ASSUME NEW k \in Pair, Expiry(k) PROVE OutInv'
    BY <1>3 DEF OutInv, Outstanding, Expiry, tab
<1>4. ASSUME NEW c \in Call, NEW kind \in {"api", "me", "login", "logout"}, Send(c, kind)
      PROVE  OutInv'
    BY <1>4 DEF TypeOK, OutInv, Outstanding, Send, Start, NoCall
<1>5. CASE Reload
    BY <1>5 DEF OutInv, Outstanding, Reload, NoCall
<1> QED
    BY <1>1, <1>2, <1>3, <1>4, <1>5, OutTab, OutExchange DEF Next

\* After a logout with nothing under way the user is out until the next
\* login, however many calls of other pages are refused or fail.
THEOREM LogoutFinal == Spec => []LoggedOutStaysOut
<1>1. Init => OutInv
    BY DEF Init, OutInv
<1>2. OutInv => LoggedOutStaysOut
    BY DEF OutInv, LoggedOutStaysOut
<1> QED
    BY <1>1, <1>2, OutStep, TypeCorrect, PTL DEF Spec
=============================================================================
