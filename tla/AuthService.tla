----------------------------- MODULE AuthService -----------------------------
(***************************************************************************)
(* The token side of the auth service: the refresh tokens Redis holds, and *)
(* the requests that rotate them.  An access token and a refresh token are *)
(* issued together and are one pair here; the pair is its jti.  An access  *)
(* token is never stored: it is good until it expires.                     *)
(*                                                                         *)
(* A rotation is several awaits long, a step each, and several may be      *)
(* under way for one token.  Passwords and signatures are left out.        *)
(***************************************************************************)
EXTENDS Naturals, FiniteSets

CONSTANTS
    Pair,       \* pairs of tokens that can be about at once
    Flight,     \* slots for concurrent POST /auth/refresh
    NoPair

ASSUME PairAssumption == NoPair \notin Pair

VARIABLES
    stored,     \* pairs whose refresh token is in Redis
    fresh,      \* pairs whose access token has not expired
    flight      \* the refresh requests

server == <<stored, fresh, flight>>

NoFlight == [pc |-> "idle", old |-> NoPair, new |-> NoPair]

\* A request carries a token from the start and a new pair at the end.
FlightRecord ==
    {NoFlight}
    \cup [pc : {"get", "delete", "store", "denied"}, old : Pair, new : {NoPair}]
    \cup [pc : {"ok"}, old : Pair, new : Pair]

ServerTypeOK ==
    /\ stored \subseteq Pair
    /\ fresh \subseteq Pair
    /\ flight \in [Flight -> FlightRecord]

ServerInit ==
    /\ stored = {}
    /\ fresh = {}
    /\ flight = [f \in Flight |-> NoFlight]

-----------------------------------------------------------------------------
\* A pair nobody has seen yet, as uuid4 makes them.
Unissued(k) ==
    /\ k \notin stored \cup fresh
    /\ \A f \in Flight : k \notin {flight[f].old, flight[f].new}

\* create_access_token(), create_refresh_token() and the setex.
Issue(k) ==
    /\ Unissued(k)
    /\ stored' = stored \cup {k}
    /\ fresh' = fresh \cup {k}

\* POST /auth/login with the right password.
Login(k) == Issue(k) /\ UNCHANGED flight

\* POST /auth/logout deletes the refresh token it was given.
Logout(k) == stored' = stored \ {k} /\ UNCHANGED <<fresh, flight>>

\* POST /auth/refresh with a token of ours arrives.
Receive(f, k) ==
    /\ flight[f].pc = "idle"
    /\ flight' = [flight EXCEPT ![f] = [NoFlight EXCEPT !.pc = "get", !.old = k]]

\* Redis tells whether the token is still there.
Get(f) ==
    /\ flight[f].pc = "get"
    /\ flight' = [flight EXCEPT ![f].pc =
                    IF flight[f].old \in stored THEN "delete" ELSE "denied"]
    /\ UNCHANGED <<stored, fresh>>

\* The old token is deleted, whether or not it was still there.
Delete(f) ==
    /\ flight[f].pc = "delete"
    /\ stored' = stored \ {flight[f].old}
    /\ flight' = [flight EXCEPT ![f].pc = "store"]
    /\ UNCHANGED fresh

\* The user is there, for users are never deleted: a new pair is issued.
Store(f, k) ==
    /\ flight[f].pc = "store"
    /\ Issue(k)
    /\ flight' = [flight EXCEPT ![f].pc = "ok", ![f].new = k]

\* Redis or the database fails halfway: an error response.
Breaks(f) ==
    /\ flight[f].pc \in {"get", "delete", "store"}
    /\ flight' = [flight EXCEPT ![f].pc = "denied"]
    /\ UNCHANGED <<stored, fresh>>

\* The response is on its way and the slot is free.
Done(f) == flight' = [flight EXCEPT ![f] = NoFlight]

AccessExpires(k) ==
    /\ k \in fresh
    /\ fresh' = fresh \ {k}
    /\ UNCHANGED <<stored, flight>>

RefreshExpires(k) ==
    /\ k \in stored \ fresh
    /\ stored' = stored \ {k}
    /\ UNCHANGED <<fresh, flight>>

-----------------------------------------------------------------------------
\* The service under clients that may send any token at any time.

ServerNext ==
    \/ \E k \in Pair :
          \/ Login(k) \/ Logout(k) \/ AccessExpires(k) \/ RefreshExpires(k)
          \/ \E f \in Flight : \/ Receive(f, k) /\ UNCHANGED <<stored, fresh>>
                               \/ Store(f, k)
    \/ \E f \in Flight :
          \/ Get(f) \/ Delete(f) \/ Breaks(f)
          \/ /\ flight[f].pc \in {"ok", "denied"}
             /\ Done(f)
             /\ UNCHANGED <<stored, fresh>>

ServerSpec == ServerInit /\ [][ServerNext]_server

-----------------------------------------------------------------------------
\* Properties.

\* Rotation invalidates (D-16): once a request is past its delete, one that
\* looks up the same token from then on is refused, whatever runs at the
\* same time.  One that has already found the token is not: RotatedOnce.
OldInvalidated ==
    \A f \in Flight : flight[f].pc \in {"store", "ok"} => flight[f].old \notin stored

\* refresh() "[r]aises UnauthorizedException if the token [...] has already
\* been used (rotation)" (auth_service.py:91-92), and "[u]sing the same
\* refresh token twice returns 401 on the second attempt" (test_auth.py:158):
\* of two requests with one token, at most one is granted.
RotatedOnce ==
    \A f, g \in Flight :
       f # g /\ flight[f].pc = "ok" /\ flight[g].pc = "ok"
         => flight[f].old # flight[g].old
=============================================================================
