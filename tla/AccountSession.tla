---------------------------- MODULE AccountSession ----------------------------
(***************************************************************************)
(* AccountService with the sessions that name its operators: the Redis     *)
(* hash a login writes (createSession), and the look-up of a token, in     *)
(* Redis and then among the project's own sessions (rt_admin_sessions,     *)
(* written by another module).                                             *)
(*                                                                         *)
(* call[r] is what the handler of request r knows of its session:          *)
(*   redis     the token is about to be asked of Redis;                    *)
(*   project   of the project's sessions;                                  *)
(*   operator  Redis has named the operator, whose look-up may yet fail    *)
(*             and fall back to the project's sessions;                    *)
(*   settled   the operator was named by a project session or a header;    *)
(*   expire    a login has stored its session and has not set its TTL.     *)
(***************************************************************************)
EXTENDS AccountService

CONSTANTS Tokens, NoToken, NoSession

\* A body names no operator: the session does. Inputs has it for every one.
ASSUME OperatorsAssumption ==
  \A input \in Inputs \ LoginInput, i \in Ids :
    [input EXCEPT !.operator = i] \in Inputs
ASSUME SessionAssumption ==
  /\ NoToken \notin Tokens
  /\ NoSession \notin Ids \cup {NoId} \cup [account_id : Ids, ttl : BOOLEAN]

VARIABLES
  redis,    \* token -> its Redis hash or NoSession
  project,  \* token -> account of its project session, NoId if it has none
  owner,    \* token -> the account it was drawn for; NoSession: not drawn
  given,    \* the tokens clients hold
  call

svars == <<redis, project, owner, given, call>>

Session == [account_id : Ids, ttl : BOOLEAN]
Call == [pc : {"none", "redis", "project", "operator", "settled", "expire"},
         token : Tokens \cup {NoToken}, body : Inputs \cup {NoInput}]
NoCall == [pc |-> "none", token |-> NoToken, body |-> NoInput]

STypeOK ==
  /\ redis \in [Tokens -> Session \cup {NoSession}]
  /\ project \in [Tokens -> Ids \cup {NoId, NoSession}]
  /\ owner \in [Tokens -> Ids \cup {NoId, NoSession}]
  /\ given \subseteq Tokens
  /\ call \in [Requests -> Call]

SInit ==
  /\ Init
  /\ redis = [t \in Tokens |-> NoSession]
  /\ project = [t \in Tokens |-> NoSession]
  /\ owner = [t \in Tokens |-> NoSession]
  /\ given = {}
  /\ call = [r \in Requests |-> NoCall]

Calls(r, pc) == call[r].pc = pc
Bodies == {input \in Inputs \ LoginInput : input.operator = Seed}
Named(body, i) == [body EXCEPT !.operator = i]

\* Mutation of FreshTokens: a token may come back once its session has expired.
FreshTokensAgain == {t \in Tokens : redis[t] = NoSession}

\* newToken, and the project's tokens: random, none is drawn twice.
FreshTokens == {t \in Tokens : owner[t] = NoSession}
-----------------------------------------------------------------------------
(* A request with its token *)

SetCall(r, c) == call' = [call EXCEPT ![r] = c]

\* The look-up of the operator begins, or begins anew.
LookUpAs(r, body, i) ==
  /\ RoomFor(body)
  /\ req' = [req EXCEPT ![r].pc = "query", ![r].input = Named(body, i)]
  /\ UNCHANGED <<tables, roleState>>

\* Login and validate-password need no session.
Knock(r) ==
  /\ Calls(r, "none")
  /\ \E input \in Inputs \cap LoginInput : Arrive(r, input)
  /\ UNCHANGED svars

\* A token in the body is asked of Redis first, one in a header (management
\* requests only) of the project's sessions.
Ask(r) ==
  /\ At(r, "idle") /\ Calls(r, "none")
  /\ \E body \in Bodies, token \in given, pc \in {"redis", "project"} :
       /\ body.op \in {"me", "check"} => pc = "redis"
       /\ body.op \in {"update", "reset", "delete", "detail"}
            => body.target \in issued
       /\ SetCall(r, [pc |-> pc, token |-> token, body |-> body])
  /\ UNCHANGED <<vars, redis, project, owner, given>>

\* currentProjectAdminAccount: X-Account-ID names the operator.
FromHeader(r) ==
  /\ At(r, "idle") /\ Calls(r, "none")
  /\ \E body \in Bodies, i \in issued :
       /\ body.op \notin {"me", "check"}
       /\ body.op \in {"update", "reset", "delete", "detail"}
            => body.target \in issued
       /\ LookUpAs(r, body, i)
       /\ SetCall(r, [NoCall EXCEPT !.pc = "settled"])
  /\ UNCHANGED <<redis, project, owner, given>>

\* HGET: a missing session and an error both lead to the project's sessions.
ReadRedis(r) ==
  LET session == redis[call[r].token] IN
  /\ Calls(r, "redis")
  /\ \/ /\ session # NoSession
        /\ LookUpAs(r, call[r].body, session.account_id)
        /\ SetCall(r, [call[r] EXCEPT !.pc = "operator"])
     \/ SetCall(r, [call[r] EXCEPT !.pc = "project"]) /\ UNCHANGED vars
  /\ UNCHANGED <<redis, project, owner, given>>

\* The operator Redis named could not be looked up: sessionMissing.
LookupFails(r) ==
  /\ Calls(r, "operator") /\ AsOperator(r)
  /\ req[r].pc \in {"query", "bindings", "resolve", "keep"}
  /\ SetCall(r, [call[r] EXCEPT !.pc = "project"])
  /\ UNCHANGED <<vars, redis, project, owner, given>>

\* Mutation of ProjectNames: accountID == "" is not looked at.
ProjectNamesAnything(token) == project[token] # NoSession

\* The row is there and its account_id is not empty.
ProjectNames(token) == project[token] \in Ids

\* Refused before any account is looked up: the request leaves no trace.
Refuse(r) ==
  IF At(r, "idle") THEN SetCall(r, NoCall) /\ UNCHANGED vars
  ELSE SetCall(r, [call[r] EXCEPT !.pc = "settled"]) /\ Fail(r)

\* SELECT ... FROM rt_admin_sessions; it may fail, and the row may be gone.
ReadProject(r) ==
  /\ Calls(r, "project")
  /\ \/ /\ ProjectNames(call[r].token)
        /\ LookUpAs(r, call[r].body, project[call[r].token])
        /\ SetCall(r, [call[r] EXCEPT !.pc = "settled"])
     \/ Refuse(r)
  /\ UNCHANGED <<redis, project, owner, given>>

\* The rest of the handler, and the answer.
Serve(r) ==
  /\ call[r].pc \in {"none", "operator", "settled"}
  /\ Step(r) /\ ~(At(r, "session") /\ Op(r) = "login")
  /\ UNCHANGED svars

FailServing(r) ==
  /\ call[r].pc \in {"none", "settled", "expire"}
       \/ (Calls(r, "operator") /\ ~AsOperator(r))
  /\ Fail(r)
  /\ UNCHANGED svars

Answer(r) ==
  /\ Reply(r)
  /\ SetCall(r, NoCall)
  /\ UNCHANGED <<redis, project, owner, given>>
-----------------------------------------------------------------------------
(* createSession *)

\* HSET. Bound: Tokens is finite.
StoreSession(r) ==
  /\ At(r, "session") /\ Op(r) = "login" /\ Calls(r, "none")
  /\ \E token \in FreshTokens :
       /\ redis' = [redis EXCEPT ![token] =
                      [account_id |-> req[r].seen.id, ttl |-> FALSE]]
       /\ owner' = [owner EXCEPT ![token] = req[r].seen.id]
       /\ SetCall(r, [NoCall EXCEPT !.pc = "expire", !.token = token])
  /\ UNCHANGED <<vars, project, given>>

WithTTL(token) ==
  IF redis[token] = NoSession THEN redis
  ELSE [redis EXCEPT ![token].ttl = TRUE]

\* Mutation of SetExpiry: an error of EXPIRE is not looked at.
SetExpiryAnyway(r) ==
  LET token == call[r].token IN
  /\ Calls(r, "expire") /\ At(r, "session")
  /\ redis' \in {redis, WithTTL(token)}
  /\ OpenSession(r) /\ given' = given \cup {token}
  /\ UNCHANGED <<project, owner, call>>

\* EXPIRE. The client gets the token once it is confirmed; a lost confirmation
\* answers "failed".
SetExpiry(r) ==
  LET token == call[r].token IN
  /\ Calls(r, "expire") /\ At(r, "session")
  /\ redis' = WithTTL(token)
  /\ \/ OpenSession(r) /\ given' = given \cup {token}
     \/ Fail(r) /\ UNCHANGED given
  /\ UNCHANGED <<project, owner, call>>
-----------------------------------------------------------------------------
(* The stores *)

\* Redis drops a session whose TTL has passed.
SessionExpires ==
  /\ \E t \in Tokens : /\ redis[t] # NoSession /\ redis[t].ttl
                       /\ redis' = [redis EXCEPT ![t] = NoSession]
  /\ UNCHANGED <<vars, project, owner, given, call>>

\* The project's own login: a session of an account, or of no account here.
ProjectSessionBegins ==
  /\ \E token \in FreshTokens, i \in issued \cup {NoId} :
       /\ project' = [project EXCEPT ![token] = i]
       /\ owner' = [owner EXCEPT ![token] = i]
       /\ given' = given \cup {token}
  /\ UNCHANGED <<vars, redis, call>>

ProjectSessionEnds ==
  /\ \E t \in Tokens : /\ project[t] # NoSession
                       /\ project' = [project EXCEPT ![t] = NoSession]
  /\ UNCHANGED <<vars, redis, owner, given, call>>

World == Environment /\ UNCHANGED svars

SNext ==
  \/ \E r \in Requests :
       \/ Knock(r) \/ Ask(r) \/ FromHeader(r) \/ ReadRedis(r)
       \/ LookupFails(r) \/ ReadProject(r) \/ Serve(r) \/ FailServing(r)
       \/ Answer(r) \/ StoreSession(r) \/ SetExpiry(r)
  \/ SessionExpires \/ ProjectSessionBegins \/ ProjectSessionEnds \/ World

SSpec == SInit /\ [][SNext]_<<vars, svars>>
-----------------------------------------------------------------------------
(* What is promised *)

\* Sessions name operators as AccountService assumes: whatever expires, fails
\* or falls back during the look-up of a token, a request works for one issued
\* account from its look-up to its answer.
ImplementsAccountService == Spec

\* A request that came with a token works for the account the token was drawn
\* for, although the session may have expired, the look-up fallen back to the
\* project's sessions and other logins drawn tokens meanwhile.
TokenNamesItsAccount ==
  \A r \in Requests :
    /\ call[r].token # NoToken /\ ~At(r, "idle") /\ ~IsLogin(r)
    => req[r].input.operator = owner[call[r].token]

\* A token a client was given expires: its session has a TTL (createSession
\* answers it after EXPIRE only).
GivenTokensExpire ==
  \A t \in given : redis[t] # NoSession => redis[t].ttl

\* Login sessions rely on the TTL to disappear (README.md:32): once its login
\* is over, a session in Redis has one.
SessionsExpire ==
  \A t \in Tokens : redis[t] # NoSession /\ ~redis[t].ttl =>
    \E r \in Requests : Calls(r, "expire") /\ At(r, "session")
                        /\ call[r].token = t
=============================================================================
