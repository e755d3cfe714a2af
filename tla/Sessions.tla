------------------------------ MODULE Sessions ------------------------------
(***************************************************************************)
(* A user's session with the REST API: login, the rotation of the refresh   *)
(* token, logout and the blacklist in Redis, while the account may be       *)
(* disabled, deleted or given another password, Redis may be down and an    *)
(* answer may get lost, after which the client tries again although its     *)
(* first request is still being served.                                    *)
(***************************************************************************)
EXTENDS Naturals, FiniteSets

CONSTANTS RefreshToken, \* tokens there may be at one time
          NoRefresh,
          Call,         \* refresh requests being served
          RefreshTTL    \* refreshTokenTTL, in ticks; an access token lives one

ASSUME SessionAssumption ==
  RefreshTTL \in Nat \ {0} /\ NoRefresh \notin RefreshToken

VARIABLES
  account,  \* the row of the user: "absent", "active", "disabled"
  password, \* the client knows the password
  redis,    \* Redis answers
  left,     \* ticks until each refresh token expires
  black,    \* ticks until its entry in the blacklist expires
  revoked,  \* tokens a RevokeToken has succeeded for (history)
  access,   \* the access token: [left, black]
  held,     \* the refresh token the client keeps
  sure,     \* no answer to a refresh of the held token got lost
  call      \* requests being served

acctVars == <<account, password>>
tokenVars == <<left, black, revoked, access>>
clientVars == <<held, sure>>
sesVars == <<acctVars, redis, tokenVars, clientVars, call>>

NoCall == [at |-> "idle", old |-> NoRefresh, new |-> NoRefresh, waited |-> FALSE]
NoAccess == [left |-> 0, black |-> 0]

SesInit ==
  /\ account = "active" /\ password = TRUE /\ redis = TRUE
  /\ left = [t \in RefreshToken |-> 0] /\ black = left /\ revoked = {}
  /\ access = NoAccess /\ held = NoRefresh /\ sure = TRUE
  /\ call = [c \in Call |-> NoCall]

-----------------------------------------------------------------------------
(* jwtService.                                                              *)

\* generate: a new jti.
NeverUsed(t) ==
  /\ left[t] = 0 /\ black[t] = 0 /\ t # held
  /\ \A c \in Call : t \notin {call[c].old, call[c].new}

\* IsRevoked; the callers take an error of Redis for "not revoked".
SeenRevoked(t) == redis /\ black[t] > 0

\* RevokeToken: the entry lives as long as the token would have.
RevokeToken(t) ==
  IF redis /\ left[t] > 0
    THEN black' = [black EXCEPT ![t] = left[t]] /\ revoked' = revoked \cup {t}
    ELSE UNCHANGED <<black, revoked>>

-----------------------------------------------------------------------------
(* AuthHandler.                                                             *)

\* Only an active row is found.
GetUserByUsername == account = "active"

Login ==
  /\ held = NoRefresh /\ GetUserByUsername /\ password
  /\ \E t \in RefreshToken :
       /\ NeverUsed(t)
       /\ left' = [left EXCEPT ![t] = RefreshTTL] /\ held' = t
  /\ access' = [left |-> 1, black |-> 0] /\ sure' = TRUE
  /\ UNCHANGED <<acctVars, redis, black, revoked, call>>

\* Refresh: the token is valid, a refresh token and not seen as revoked.
RefreshAccepted(c) ==
  /\ call[c] = NoCall /\ held # NoRefresh
  /\ \A d \in Call : ~call[d].waited
  /\ left[held] > 0 /\ ~SeenRevoked(held)
  /\ call' = [call EXCEPT ![c] = [at |-> "generate", old |-> held, new |-> NoRefresh,
                                  waited |-> TRUE]]
  /\ UNCHANGED <<acctVars, redis, tokenVars, clientVars>>

\* A refusal ends the session: the client has to log in again.
RefreshRefused(c) ==
  /\ call[c] = NoCall /\ held # NoRefresh
  /\ \A d \in Call : ~call[d].waited
  /\ left[held] = 0 \/ SeenRevoked(held)
  /\ held' = NoRefresh /\ sure' = TRUE
  /\ UNCHANGED <<acctVars, redis, tokenVars, call>>

GenerateRevokesFirst(c) ==
  /\ call[c].at = "generate"
  /\ RevokeToken(call[c].old)
  /\ \/ /\ \E t \in RefreshToken :
             /\ NeverUsed(t)
             /\ left' = [left EXCEPT ![t] = RefreshTTL]
             /\ call' = [call EXCEPT ![c].at = "reply", ![c].new = t]
        /\ access' = [left |-> 1, black |-> 0]
     \/ call' = [call EXCEPT ![c] = NoCall] /\ UNCHANGED <<left, access>>
  /\ UNCHANGED <<acctVars, redis, clientVars>>

\* The new pair first; an error leaves everything as it was.
Generate(c) ==
  /\ call[c].at = "generate"
  /\ \/ /\ \E t \in RefreshToken :
             /\ NeverUsed(t)
             /\ left' = [left EXCEPT ![t] = RefreshTTL]
             /\ call' = [call EXCEPT ![c].at = "revoke", ![c].new = t]
        /\ access' = [left |-> 1, black |-> 0]
     \/ call' = [call EXCEPT ![c] = NoCall] /\ UNCHANGED <<left, access>>
  /\ UNCHANGED <<acctVars, redis, black, revoked, clientVars>>

\* Then the presented token, if Redis answers.
Rotate(c) ==
  /\ call[c].at = "revoke"
  /\ RevokeToken(call[c].old)
  /\ call' = [call EXCEPT ![c].at = "reply"]
  /\ UNCHANGED <<acctVars, redis, left, access, clientVars>>

Replied(c) ==
  /\ call[c].at = "reply"
  /\ call' = [call EXCEPT ![c] = NoCall]
  /\ IF call[c].waited THEN held' = call[c].new /\ sure' = TRUE ELSE UNCHANGED clientVars
  /\ UNCHANGED <<acctVars, redis, tokenVars>>

\* The client gives its request up; the server does not notice.
GivesUp(c) ==
  /\ call[c].waited
  /\ call' = [call EXCEPT ![c].waited = FALSE] /\ sure' = FALSE
  /\ UNCHANGED <<acctVars, redis, tokenVars, held>>

\* Logout carries the access token.
Logout ==
  /\ held # NoRefresh /\ \A c \in Call : ~call[c].waited
  /\ access' = IF redis THEN [access EXCEPT !.black = access.left] ELSE access
  /\ held' = NoRefresh /\ sure' = TRUE
  /\ UNCHANGED <<acctVars, redis, left, black, revoked, call>>

-----------------------------------------------------------------------------
(* UsersHandler: an administrator, or the user for their own password.      *)

\* The JWT middleware; an error of Redis lets the request pass.
Authenticated == access.left > 0 /\ ~(redis /\ access.black > 0)

\* The row of a new user is active.
InsertUser == account = "absent" /\ account' = "active"

Create ==
  /\ InsertUser /\ password' \in BOOLEAN
  /\ UNCHANGED <<redis, tokenVars, clientVars, call>>

Delete ==
  /\ account # "absent" /\ account' = "absent" /\ password' = TRUE
  /\ UNCHANGED <<redis, tokenVars, clientVars, call>>

\* The update affects no row when there is none, which reading it back shows.
GetUserByID == account # "absent"
UpdateUserActive(a) == account' = IF account = "absent" THEN account ELSE a

SetActive ==
  /\ GetUserByID
  /\ \E a \in {"active", "disabled"} : UpdateUserActive(a)
  /\ UNCHANGED <<password, redis, tokenVars, clientVars, call>>

UpdatePassword ==
  /\ GetUserByID
  /\ \/ password' \in BOOLEAN
     \/ Authenticated /\ held # NoRefresh /\ password' = TRUE
  /\ UNCHANGED <<account, redis, tokenVars, clientVars, call>>

-----------------------------------------------------------------------------
RedisChanges ==
  /\ redis' = ~redis
  /\ UNCHANGED <<acctVars, tokenVars, clientVars, call>>

Less(n) == IF n = 0 THEN 0 ELSE n - 1

\* Time passes: tokens and blacklist entries expire.
Tick ==
  /\ left' = [t \in RefreshToken |-> Less(left[t])]
  /\ black' = [t \in RefreshToken |-> Less(black[t])]
  /\ revoked' = {t \in revoked : left'[t] > 0}
  /\ access' = [left |-> Less(access.left), black |-> Less(access.black)]
  /\ UNCHANGED <<acctVars, redis, clientVars, call>>

AccountStep == Create \/ Delete \/ SetActive \/ UpdatePassword

SesNext ==
  \/ Login \/ Logout \/ AccountStep \/ RedisChanges \/ Tick
  \/ \E c \in Call : \/ RefreshAccepted(c) \/ RefreshRefused(c) \/ Generate(c)
                     \/ Rotate(c) \/ Replied(c) \/ GivesUp(c)

SesSpec == SesInit /\ [][SesNext]_sesVars

-----------------------------------------------------------------------------
(* Types; a blacklist entry never outlives its token.                       *)
SesTypeOK ==
  /\ account \in {"absent", "active", "disabled"}
  /\ held \in RefreshToken \cup {NoRefresh}
  /\ left \in [RefreshToken -> 0..RefreshTTL] /\ black \in [RefreshToken -> 0..RefreshTTL]
  /\ \A t \in RefreshToken : black[t] <= left[t]

(* A refresh that ends in an error leaves the presented token usable: the   *)
(* token a client keeps is not blacklisted, unless an answer got lost or    *)
(* its refresh is still being served.                                       *)
SessionSurvives ==
  held # NoRefresh /\ sure /\ (\A c \in Call : ~call[c].waited) => black[held] = 0

(* A token that was revoked stays revoked until it expires.                 *)
RevocationHolds == \A t \in revoked : left[t] > 0 => black[t] > 0

\* A session ends when it is revoked, and not because a refresh failed.
SessionsHold == SesTypeOK /\ SessionSurvives /\ RevocationHolds
=============================================================================
