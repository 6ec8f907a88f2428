------------------------------ MODULE Sessions ------------------------------
(***************************************************************************)
(* internal/auth: sessions in memory, their expiry and refresh, and the    *)
(* cookies of the browsers, whose requests may be on their way while       *)
(* others log out or the server restarts.                                  *)
(***************************************************************************)
EXTENDS Integers

CONSTANTS
  Tokens,   \* what rand.Read yields, each once
  Browsers,
  NoToken,  \* no cookie, no request
  TTL,      \* sessionTTL, and the MaxAge of the cookie
  MaxTime   \* bound of the clock

VARIABLES
  now,
  sessions, \* Manager.sessions: token -> expiry, or 0
  cookie,   \* the cookie of a browser, and when it is dropped
  request,  \* the token of a request that is on its way
  minted,   \* the tokens there were
  used      \* when a token was last accepted or made; MaxTime + 1: logged out

avars == <<now, sessions, cookie, request, minted, used>>

NoCookie  == [token |-> NoToken, until |-> 0]
LoggedOut == MaxTime + 1

SessionsTypeOK ==
  /\ now \in 1 .. MaxTime
  /\ sessions \in [Tokens -> 0 .. MaxTime + TTL]
  /\ cookie \in [Browsers -> [token : Tokens \cup {NoToken}, until : 0 .. MaxTime + TTL]]
  /\ request \in [Browsers -> Tokens \cup {NoToken}]
  /\ minted \subseteq Tokens

(* postLogin: CreateSession and SetCookie.                                 *)
Login(b, t) ==
  /\ t \notin minted
  /\ minted' = minted \cup {t}
  /\ sessions' = [sessions EXCEPT ![t] = now + TTL]
  /\ cookie' = [cookie EXCEPT ![b] = [token |-> t, until |-> now + TTL]]
  /\ used' = [used EXCEPT ![t] = now]
  /\ UNCHANGED <<now, request>>

(* A browser sends its cookie; the answer may come late.                   *)
Send(b) ==
  /\ request[b] = NoToken /\ cookie[b].token # NoToken
  /\ request' = [request EXCEPT ![b] = cookie[b].token]
  /\ UNCHANGED <<now, sessions, cookie, minted, used>>

\* Mutant: the expiry is refreshed before it is looked at.
ValidAlways(t) == sessions[t] # 0

Valid(t) == sessions[t] # 0 /\ now <= sessions[t]

(* Middleware: ValidateSession; the cookie is not sent again.              *)
ValidateSession(b) ==
  /\ request[b] # NoToken
  /\ request' = [request EXCEPT ![b] = NoToken]
  /\ IF Valid(request[b])
     THEN /\ sessions' = [sessions EXCEPT ![request[b]] = now + TTL]
          /\ used' = [used EXCEPT ![request[b]] = now]
     ELSE /\ sessions' = [sessions EXCEPT ![request[b]] = 0]
          /\ UNCHANGED used
  /\ UNCHANGED <<now, cookie, minted>>

\* Mutant: only the cookie is cleared.
DeleteNothing(t) == sessions

DeleteSession(t) == [sessions EXCEPT ![t] = 0]

(* getLogout.                                                              *)
Logout(b) ==
  /\ cookie[b].token # NoToken
  /\ sessions' = DeleteSession(cookie[b].token)
  /\ cookie' = [cookie EXCEPT ![b] = NoCookie]
  /\ used' = [used EXCEPT ![cookie[b].token] = LoggedOut]
  /\ UNCHANGED <<now, request, minted>>

(* A browser drops a cookie when its MaxAge is over.                       *)
Pass ==
  /\ now < MaxTime
  /\ now' = now + 1
  /\ cookie' = [b \in Browsers |-> IF cookie[b].until <= now THEN NoCookie
                                                             ELSE cookie[b]]
  /\ UNCHANGED <<sessions, request, minted, used>>

ServerRestart ==
  /\ sessions' = [t \in Tokens |-> 0]
  /\ UNCHANGED <<now, cookie, request, minted, used>>

SessionsInit ==
  /\ now = 1
  /\ sessions = [t \in Tokens |-> 0]
  /\ cookie = [b \in Browsers |-> NoCookie]
  /\ request = [b \in Browsers |-> NoToken]
  /\ minted = {}
  /\ used = [t \in Tokens |-> 0]

SessionsNext ==
  \/ \E b \in Browsers :
       \/ Send(b) \/ ValidateSession(b) \/ Logout(b)
       \/ \E t \in Tokens : Login(b, t)
  \/ Pass \/ ServerRestart

SessionsSpec == SessionsInit /\ [][SessionsNext]_avars

-----------------------------------------------------------------------------
(* A session that is valid was made or used within the last TTL, and has   *)
(* not been logged out since it was made: neither a request that was on    *)
(* its way nor one that comes late brings it back (auth.go:44-63).         *)
ValidIsRecent ==
  \A t \in Tokens : Valid(t) => used[t] <= now /\ now - used[t] <= TTL
=============================================================================
