------------------------- MODULE AccountHistoryProofs -------------------------
(***************************************************************************)
(* What a request succeeds on held while it ran, for every database, any   *)
(* requests and any roles.                                                 *)
(*                                                                         *)
(* The invariant relates what a handler has in hand to what was witnessed  *)
(* of it: OperatorOK follows the evidence through requireAccountManageToken*)
(* LoginOK through a login. Both are about a request's record and a set of *)
(* facts, and are kept when the set grows, that is by the steps of others. *)
(***************************************************************************)
EXTENDS AccountHistory, AccountServiceProofs

SawEnabled(i, W) == <<"enabled", i>> \in W
SawSuper(i, W) == <<"super", i>> \in W
SawBound(i, role, W) == <<"bound", i, role>> \in W
SawAvailable(role, W) == <<"available", role>> \in W
SawGrants(role, W) == <<"grants", role>> \in W
SawCredentials(i, W) == <<"credentials", i>> \in W

SawRoles(i, roles, W) == \A n \in DOMAIN roles : SawBound(i, roles[n], W)

\* Super, or with a role that granted the permission, or was available.
Granted(i, W) ==
  SawSuper(i, W) \/ \E role \in Roles : SawBound(i, role, W)
                                          /\ SawGrants(role, W)
Served(i, W) ==
  SawSuper(i, W) \/ \E role \in Roles : SawBound(i, role, W)
                                          /\ SawAvailable(role, W)

Going(q) == q.pc \notin {"idle", "done"}
Looking(q) == q.pc \in {"bindings", "resolve", "keep", "found"}
LoggingIn(q) == q.input.op \in {"login", "validate"}
Accepted == {"permit", "match", "validate", "describe", "write", "count",
             "page", "row"}

\* The places of a handler that its request and operator allow.
PlaceOK(q) ==
  /\ q.pc # "done" => q.outcome = "none"
  /\ q.pc = "idle" => q.operator = NoId
  /\ q.pc \in Accepted => q.operator # NoId
  /\ LoggingIn(q) => q.operator = NoId
  /\ q.pc \in {"available", "session"} => LoggingIn(q)
  /\ q.input.op \in {"me", "check"} /\ q.operator # NoId
       => q.pc \in {"permit", "match", "done"}
  /\ q.input.op = "me" => q.pc # "match"

\* What an operator's answer says.
Authorised(q, W) ==
  /\ SawEnabled(q.input.operator, W)
  /\ IF q.input.op = "me" THEN Served(q.input.operator, W)
     ELSE Granted(q.input.operator, W)
  /\ q.input.op \in {"create", "update"} => SawAvailable(q.input.role, W)

\* The evidence of requireAccountManageToken.
OperatorOK(q, W) ==
  LET i == q.input.operator IN
  ~LoggingIn(q) =>
    /\ q.operator = NoId /\ Looking(q) =>
         /\ q.seen.id = i
         /\ q.seen.status = "enabled" => SawEnabled(i, W)
         /\ q.seen.is_super_admin => SawSuper(i, W)
    /\ q.operator = NoId /\ Looking(q) /\ q.pc # "bindings"
         => SawRoles(i, q.roles, W)
    /\ q.operator # NoId /\ Going(q) => SawEnabled(i, W)
    /\ q.pc \in {"permit", "match"} => SawRoles(i, q.roles, W)
    /\ q.operator # NoId /\ Going(q) /\ q.pc \notin {"permit", "match"} =>
         /\ Granted(i, W)
         /\ q.pc # "validate" /\ q.input.op \in {"create", "update"}
              => SawAvailable(q.input.role, W)
    /\ q.pc = "done" /\ q.outcome = "ok" => Authorised(q, W)
-----------------------------------------------------------------------------
(* Facts *)

LEMMA OperatorFacts ==
  ASSUME NEW r \in Requests, NEW W, Facts(r) \subseteq W, Going(req[r]),
         ~IsLogin(r), NEW i, i = req[r].input.operator, i \in Live
  PROVE  /\ account[i].status = "enabled" => SawEnabled(i, W)
         /\ account[i].is_super_admin = TRUE => SawSuper(i, W)
         /\ SawRoles(i, bindings[i], W)
<1>1. AccountFacts(i) \subseteq W
  BY DEF Facts, Going, At
<1>2. ASSUME account[i].status = "enabled" PROVE SawEnabled(i, W)
  <2>1. <<"enabled", i>> \in AccountFacts(i)
    BY <1>2 DEF AccountFacts
  <2> QED
    BY <1>1, <2>1 DEF SawEnabled
<1>3. ASSUME account[i].is_super_admin = TRUE PROVE SawSuper(i, W)
  <2>1. <<"super", i>> \in AccountFacts(i)
    BY <1>3 DEF AccountFacts
  <2> QED
    BY <1>1, <2>1 DEF SawSuper
<1>4. ASSUME NEW n \in DOMAIN bindings[i] PROVE SawBound(i, bindings[i][n], W)
  <2>1. <<"bound", i, bindings[i][n]>> \in AccountFacts(i)
    BY DEF AccountFacts
  <2> QED
    BY <1>1, <2>1 DEF SawBound
<1> QED
  BY <1>2, <1>3, <1>4 DEF SawRoles

LEMMA LoginSeen ==
  ASSUME NEW r \in Requests, NEW W, Facts(r) \subseteq W, Going(req[r]),
         IsLogin(r), NEW i \in Live, account[i].account = req[r].input.name
  PROVE  /\ account[i].status = "enabled" =>
              (verifyPassword(account[i].password_hash, req[r].input.password)
                 => SawCredentials(i, W))
         /\ account[i].is_super_admin = TRUE => SawSuper(i, W)
         /\ SawRoles(i, bindings[i], W)
<1>1. i \in Wanted(r)
  BY DEF Wanted, ByName
<1>2. /\ AccountFacts(i) \subseteq W
      /\ CredentialFacts(i, req[r].input) \subseteq W
  <2>1. LoginFacts(r) \subseteq W
    BY DEF Facts, Going, At
  <2>2. AccountFacts(i) \cup CredentialFacts(i, req[r].input)
          \subseteq LoginFacts(r)
    BY <1>1 DEF LoginFacts
  <2> QED
    BY <2>1, <2>2
<1>3. ASSUME account[i].status = "enabled",
             verifyPassword(account[i].password_hash, req[r].input.password)
      PROVE  SawCredentials(i, W)
  <2>1. <<"credentials", i>> \in CredentialFacts(i, req[r].input)
    BY <1>3 DEF CredentialFacts
  <2> QED
    BY <1>2, <2>1 DEF SawCredentials
<1>4. ASSUME account[i].is_super_admin = TRUE PROVE SawSuper(i, W)
  <2>1. <<"super", i>> \in AccountFacts(i)
    BY <1>4 DEF AccountFacts
  <2> QED
    BY <1>2, <2>1 DEF SawSuper
<1>5. ASSUME NEW n \in DOMAIN bindings[i] PROVE SawBound(i, bindings[i][n], W)
  <2>1. <<"bound", i, bindings[i][n]>> \in AccountFacts(i)
    BY DEF AccountFacts
  <2> QED
    BY <1>2, <2>1 DEF SawBound
<1> QED
  BY <1>3, <1>4, <1>5 DEF SawRoles

\* From its look-up on a login depends on the account it found.
LEMMA HeldSeen ==
  ASSUME NEW r \in Requests, NEW W, Facts(r) \subseteq W, Going(req[r]),
         IsLogin(r), NEW i, i = req[r].seen.id, i \in Live
  PROVE  SawRoles(i, bindings[i], W)
<1>1. AccountFacts(i) \subseteq W
  <2>1. LoginFacts(r) \subseteq W
    BY DEF Facts, Going, At
  <2>2. AccountFacts(i) \subseteq LoginFacts(r)
    BY DEF LoginFacts
  <2> QED
    BY <2>1, <2>2
<1>2. ASSUME NEW n \in DOMAIN bindings[i] PROVE SawBound(i, bindings[i][n], W)
  <2>1. <<"bound", i, bindings[i][n]>> \in AccountFacts(i)
    BY DEF AccountFacts
  <2> QED
    BY <1>1, <2>1 DEF SawBound
<1> QED
  BY <1>2 DEF SawRoles

LEMMA RolesSeen ==
  ASSUME NEW r \in Requests, NEW W, Facts(r) \subseteq W, Going(req[r]),
         NEW role \in Roles
  PROVE  /\ roleState[role].enabled => SawAvailable(role, W)
         /\ Grants(role) => SawGrants(role, W)
<1>1. RoleFacts \subseteq W
  BY DEF Facts, Going, At
<1>2. ASSUME roleState[role].enabled PROVE SawAvailable(role, W)
  <2>1. <<"available", role>> \in RoleFacts
    BY <1>2 DEF RoleFacts, Available
  <2> QED
    BY <1>1, <2>1 DEF SawAvailable
<1>3. ASSUME Grants(role) PROVE SawGrants(role, W)
  <2>1. <<"grants", role>> \in RoleFacts
    BY <1>3 DEF RoleFacts, Available, Grants
  <2> QED
    BY <1>1, <2>1 DEF SawGrants
<1> QED
  BY <1>2, <1>3

\* Evidence stays evidence.
LEMMA OperatorGrows ==
  ASSUME NEW q, NEW V, NEW W, V \subseteq W, OperatorOK(q, V)
  PROVE  OperatorOK(q, W)
  BY DEF OperatorOK, SawEnabled, SawSuper, SawBound, SawAvailable, SawGrants,
         SawRoles, Granted, Served, Authorised

-----------------------------------------------------------------------------
(* The evidence of an operator, action by action *)

Kept(q, W) == PlaceOK(q) /\ OperatorOK(q, W)

LEMMA AnswerKept ==
  ASSUME TypeInv, NEW r \in Requests, NEW W, PlaceOK(req[r]),
         NEW o, Finish(r, o),
         LoggingIn(req[r]) \/ o # "ok" \/ Authorised(req[r], W)
  PROVE  Kept(req'[r], W)
<1>1. /\ req'[r].pc = "done" /\ req'[r].outcome = o
      /\ req'[r].input = req[r].input /\ req'[r].operator = req[r].operator
  BY FinishMoves
<1>2. PlaceOK(req'[r])
  BY <1>1 DEF PlaceOK, LoggingIn, Accepted
<1>3. OperatorOK(req'[r], W)
  BY <1>1 DEF OperatorOK, LoggingIn, Going, Looking, Authorised
<1> QED
  BY <1>2, <1>3 DEF Kept

\* The account looked up is the operator, and what the query read held.
LEMMA QueryKept ==
  ASSUME TypeInv, NEW r \in Requests, NEW W, Kept(req[r], W),
         Facts(r) \subseteq W, QueryAccount(r)
  PROVE  Kept(req'[r], W)
<1> DEFINE i == req[r].input.operator
<1>1. SameRequest(r) /\ req[r].pc = "query"
  BY QueryMoves DEF QueryAccount, At
<1>2. CASE req'[r].pc = "absent"
  BY <1>1, <1>2 DEF SameRequest, Kept, PlaceOK, OperatorOK, Going, Looking,
     LoggingIn, Accepted
<1>3. CASE req'[r].pc = "bindings"
  <2>1. PICK j \in Wanted(r) : req'[r].seen = SnapshotOf(j)
    BY <1>3, QueryMoves
  <2>2. PlaceOK(req'[r])
    BY <1>1, <1>3 DEF SameRequest, Kept, PlaceOK, LoggingIn, Accepted
  <2>3. ASSUME ~LoggingIn(req[r]), req[r].operator = NoId
        PROVE  /\ req'[r].seen.id = i
               /\ req'[r].seen.status = "enabled" => SawEnabled(i, W)
               /\ req'[r].seen.is_super_admin => SawSuper(i, W)
    <3>1. ~IsLogin(r) /\ AsOperator(r) /\ Going(req[r])
      BY <1>1, <2>3 DEF IsLogin, AsOperator, LoggingIn, Op, Going
    <3>2. j = i /\ i \in Live
      BY <3>1 DEF Wanted, ByName
    <3>3. /\ account[i].status = "enabled" => SawEnabled(i, W)
          /\ account[i].is_super_admin = TRUE => SawSuper(i, W)
      BY <3>1, <3>2, OperatorFacts
    <3>4. account[i].is_super_admin \in BOOLEAN
      BY <3>2 DEF TypeInv, TypeOK, Live, Row
    <3> QED
      BY <2>1, <3>2, <3>3, <3>4 DEF SnapshotOf
  <2>4. OperatorOK(req'[r], W)
    BY <1>1, <1>3, <2>3 DEF SameRequest, Kept, OperatorOK, Going, Looking,
       LoggingIn
  <2> QED
    BY <2>2, <2>4 DEF Kept
<1> QED
  BY <1>2, <1>3, QueryMoves

\* The roles in hand were bound, since an account that was found and is gone has
\* none.
LEMMA RolesKept ==
  ASSUME TypeInv, HandsClean, NEW r \in Requests, NEW W,
         Kept(req[r], W), Facts(r) \subseteq W,
         ReadBindings(r) \/ ResolveRole(r) \/ KeepOnlyRole(r)
  PROVE  Kept(req'[r], W)
<1> DEFINE i == req[r].input.operator
<1>1. /\ SameRequest(r) /\ req'[r].seen = req[r].seen
      /\ req[r].pc \in {"bindings", "resolve", "keep"}
      /\ req'[r].pc \in {"resolve", "keep", "found", "unbound"}
  BY RolesMove
<1>2. PlaceOK(req'[r])
  BY <1>1 DEF SameRequest, Kept, PlaceOK, LoggingIn, Accepted
<1>3. ASSUME ~LoggingIn(req[r]), req[r].operator = NoId
      PROVE  SawRoles(i, req'[r].roles, W)
  <2>1. ~IsLogin(r) /\ Going(req[r]) /\ req[r].seen.id = i
    BY <1>1, <1>3 DEF IsLogin, LoggingIn, Op, Going, Kept, OperatorOK, Looking
  <2>2. CASE req[r].pc = "bindings" /\ req'[r].roles = bindings[i]
    <3>1. CASE i \in Live
      BY <2>1, <2>2, <3>1, OperatorFacts
    <3>2. CASE i \notin Live
      <4>1. i \in Ids
        BY <2>1, <2>2 DEF TypeInv, TypeOK, RolesNormalised, Request, Snapshot
      <4>2. bindings[i] = <<>>
        BY <2>1, <3>2, <4>1 DEF HandsClean, InHand, Clean
      <4> QED
        BY <2>2, <4>2 DEF SawRoles
    <3> QED
      BY <3>1, <3>2
  <2>3. CASE /\ req[r].pc # "bindings"
             /\ \A n \in DOMAIN req'[r].roles : \E m \in DOMAIN req[r].roles :
                  req'[r].roles[n] = req[r].roles[m]
    <3>1. SawRoles(i, req[r].roles, W)
      BY <1>1, <1>3, <2>3 DEF Kept, OperatorOK, Looking
    <3> QED
      BY <2>3, <3>1 DEF SawRoles
  <2> QED
    BY <2>1, <2>2, <2>3, RolesMove
<1>4. OperatorOK(req'[r], W)
  BY <1>1, <1>3 DEF SameRequest, Kept, OperatorOK, Going, Looking, LoggingIn
<1> QED
  BY <1>2, <1>4 DEF Kept


\* One role, bound to the operator, that grants what is asked.
LEMMA HeadRole ==
  ASSUME TypeInv, NEW r \in Requests, NEW W, NEW i, req[r].pc \in
           {"permit", "match", "available"},
         SawRoles(i, req[r].roles, W)
  PROVE  /\ Head(req[r].roles) \in Roles
         /\ SawBound(i, Head(req[r].roles), W)
<1>1. req[r].roles \in Seq(Roles) /\ Len(req[r].roles) = 1
  BY DEF TypeInv, TypeOK, RolesNormalised, Request
<1>2. /\ 1 \in DOMAIN req[r].roles /\ Head(req[r].roles) = req[r].roles[1]
      /\ Head(req[r].roles) \in Roles
  BY <1>1, OneNotEmpty, RoleSeq
<1> QED
  BY <1>2 DEF SawRoles

LEMMA OperatorFoundKept ==
  ASSUME TypeInv, NEW r \in Requests, NEW W, Kept(req[r], W), OperatorFound(r)
  PROVE  Kept(req'[r], W)
<1> DEFINE seen == req[r].seen
           none == <<>>
           roles == IF seen.is_super_admin THEN none ELSE req[r].roles
           pc == IF seen.is_super_admin THEN "validate" ELSE "permit"
           i == req[r].input.operator
<1>0. req \in [Requests -> Request] /\ req[r] \in Request
  BY DEF TypeInv, TypeOK
<1>1. req' = [req EXCEPT ![r].operator = seen.id,
                ![r].isSuper = seen.is_super_admin,
                ![r].seen = NoSnapshot, ![r].roles = roles, ![r].pc = pc]
  BY <1>0 DEF OperatorFound, Request
<1>2. /\ req[r].pc = "found" /\ ~LoggingIn(req[r]) /\ req[r].operator = NoId
      /\ seen.status = "enabled"
      /\ ~(req[r].input.op \in {"me", "check"} /\ seen.is_super_admin)
      /\ seen.id # NoId
  BY DEF OperatorFound, AsOperator, IsLogin, IsOwn, Op, LoggingIn, At, TypeInv,
     RolesNormalised
<1>3. /\ SawEnabled(i, W)
      /\ seen.is_super_admin => SawSuper(i, W)
      /\ SawRoles(i, req[r].roles, W)
  BY <1>2 DEF Kept, OperatorOK, Looking
<1>4. req[r].outcome = "none"
  BY <1>2 DEF Kept, PlaceOK
<1>5. pc = IF seen.is_super_admin THEN "validate" ELSE "permit"
  OBVIOUS
<1>6. ~seen.is_super_admin => roles = req[r].roles
  OBVIOUS
<1>7. seen.id \in Ids \cup {NoId}
  BY <1>0 DEF Request, Snapshot
<1> HIDE DEF roles, pc
<1>8. /\ req'[r].pc = pc /\ req'[r].roles = roles
      /\ req'[r].input = req[r].input /\ req'[r].outcome = "none"
      /\ req'[r].operator = seen.id
  BY <1>0, <1>1, <1>4 DEF Request
<1>9. PlaceOK(req'[r])
  BY <1>2, <1>5, <1>8 DEF PlaceOK, LoggingIn, Accepted
<1>10. OperatorOK(req'[r], W)
  BY <1>2, <1>3, <1>5, <1>6, <1>8 DEF OperatorOK, LoggingIn, Looking, Going,
     Granted
<1> QED
  BY <1>9, <1>10 DEF Kept

LEMMA AuthoriseKept ==
  ASSUME TypeInv, NEW r \in Requests, NEW W, Kept(req[r], W),
         Facts(r) \subseteq W, Authorise(r)
  PROVE  Kept(req'[r], W)
<1> DEFINE i == req[r].input.operator
           role == Head(req[r].roles)
<1>0. req \in [Requests -> Request] /\ req[r] \in Request /\ PlaceOK(req[r])
  BY DEF TypeInv, TypeOK, Kept
<1>1. CASE OperatorRefused(r)
  <2>1. OperatorRefusal(r) # "ok"
    BY <1>1 DEF OperatorRefused, OperatorRefusal
  <2> QED
    BY <1>0, <1>1, <2>1, AnswerKept DEF OperatorRefused
<1>2. CASE AnswerSuper(r)
  <2>1. /\ ~LoggingIn(req[r]) /\ req[r].operator = NoId /\ req[r].pc = "found"
        /\ req[r].seen.status = "enabled" /\ req[r].seen.is_super_admin
        /\ req[r].input.op \in {"me", "check"}
    BY <1>2 DEF AnswerSuper, AsOperator, IsLogin, LoggingIn, Op, IsOwn, At
  <2>2. SawEnabled(i, W) /\ SawSuper(i, W)
    BY <2>1 DEF Kept, OperatorOK, Looking
  <2>3. Authorised(req[r], W)
    BY <2>1, <2>2 DEF Authorised, Granted, Served
  <2> QED
    BY <1>0, <1>2, <2>3, AnswerKept DEF AnswerSuper
<1>3. CASE OperatorFound(r)
  BY <1>3, OperatorFoundKept
<1>4. ASSUME At(r, "permit") \/ At(r, "match")
      PROVE  /\ ~LoggingIn(req[r]) /\ req[r].operator # NoId /\ Going(req[r])
             /\ role \in Roles /\ SawBound(i, role, W) /\ SawEnabled(i, W)
             /\ roleState[role].enabled => SawAvailable(role, W)
             /\ Grants(role) => SawGrants(role, W)
  <2>1. ~LoggingIn(req[r]) /\ req[r].operator # NoId /\ Going(req[r])
    BY <1>0, <1>4 DEF PlaceOK, Accepted, At, Going
  <2>2. SawRoles(i, req[r].roles, W) /\ SawEnabled(i, W)
    BY <1>4, <2>1 DEF Kept, OperatorOK, At
  <2>3. role \in Roles /\ SawBound(i, role, W)
    BY <1>4, <2>2, HeadRole DEF At
  <2> QED
    BY <2>1, <2>2, <2>3, RolesSeen
<1>5. CASE PermitRole(r)
  <2>1. CASE RoleDisabled(r)
    BY <1>0, <2>1, AnswerKept DEF RoleDisabled
  <2>2. CASE /\ roleState[role].enabled /\ Op(r) = "me" /\ Finish(r, "ok")
    <3>1. Authorised(req[r], W)
      BY <1>4, <1>5, <2>2 DEF PermitRole, Authorised, Served, Op
    <3> QED
      BY <1>0, <2>2, <3>1, AnswerKept
  <2>3. CASE Op(r) # "me" /\ Goto(r, "match")
    <3>1. /\ SameRequest(r) /\ req'[r].pc = "match"
          /\ req'[r].roles = req[r].roles /\ req[r].pc = "permit"
      BY <1>5, <2>3, GotoMoves DEF PermitRole, At
    <3>2. PlaceOK(req'[r])
      BY <1>0, <2>3, <3>1 DEF SameRequest, PlaceOK, LoggingIn, Accepted, Op
    <3>3. OperatorOK(req'[r], W)
      BY <3>1 DEF Kept, SameRequest, OperatorOK, LoggingIn, Looking, Going
    <3> QED
      BY <3>2, <3>3 DEF Kept
  <2> QED
    BY <1>5, <2>1, <2>2, <2>3 DEF PermitRole
<1>6. CASE MatchPermission(r)
  <2>1. CASE RoleDisabled(r) \/ Finish(r, "denied")
    BY <1>0, <2>1, AnswerKept DEF RoleDisabled
  <2>2. CASE Grants(role) /\ Op(r) = "check" /\ Finish(r, "ok")
    <3>1. Authorised(req[r], W)
      BY <1>4, <1>6, <2>2 DEF MatchPermission, Authorised, Granted, Op
    <3> QED
      BY <1>0, <2>2, <3>1, AnswerKept
  <2>3. CASE /\ Grants(role) /\ Op(r) # "check"
             /\ req' = [req EXCEPT ![r].pc = "validate", ![r].roles = <<>>]
    <3> DEFINE none == <<>>
    <3>1. req' = [req EXCEPT ![r].pc = "validate", ![r].roles = none]
      BY <2>3
    <3> HIDE DEF none
    <3>2. SameRequest(r) /\ req'[r].pc = "validate" /\ req[r].pc = "match"
      BY <1>0, <1>6, <3>1 DEF SameRequest, Request, MatchPermission, At
    <3>3. req[r].input.op \notin {"me", "check"} /\ Granted(i, W)
      <4>1. req[r].input.op # "me"
        BY <1>0, <3>2 DEF PlaceOK
      <4> QED
        BY <1>4, <1>6, <2>3, <4>1 DEF MatchPermission, Granted, Op
    <3>4. PlaceOK(req'[r])
      BY <1>0, <3>2, <3>3 DEF SameRequest, PlaceOK, LoggingIn, Accepted
    <3>5. OperatorOK(req'[r], W)
      BY <3>2, <3>3 DEF Kept, SameRequest, OperatorOK, LoggingIn, Looking, Going
    <3> QED
      BY <3>4, <3>5 DEF Kept
  <2> QED
    BY <1>6, <2>1, <2>2, <2>3 DEF MatchPermission
<1> QED
  BY <1>1, <1>2, <1>3, <1>5, <1>6 DEF Authorise


\* Past the validation of its input a request has all its evidence.
LEMMA PastValidation ==
  ASSUME NEW q, NEW W, Kept(q, W), ~LoggingIn(q), q.operator # NoId, Going(q),
         q.pc \notin {"permit", "match", "validate"}
  PROVE  Authorised(q, W)
  BY DEF Kept, PlaceOK, OperatorOK, Authorised, Going

\* Its handler moves on, with its operator accepted.
LEMMA OnwardKept ==
  ASSUME NEW q, NEW p, NEW W, Kept(q, W), Authorised(q, W), ~LoggingIn(q),
         q.operator # NoId, Going(q),
         p.input = q.input, p.operator = q.operator, p.outcome = q.outcome,
         Going(p), p.pc \notin {"permit", "match", "available", "session"},
         q.input.op \notin {"me", "check"}
  PROVE  Kept(p, W)
<1>1. PlaceOK(p)
  BY DEF Kept, PlaceOK, LoggingIn, Going, Accepted
<1>2. OperatorOK(p, W)
  BY DEF OperatorOK, LoggingIn, Looking, Going, Authorised
<1> QED
  BY <1>1, <1>2 DEF Kept

LEMMA NotOwn ==
  ASSUME NEW q, PlaceOK(q), Going(q), q.operator # NoId,
         q.pc \notin {"permit", "match"}
  PROVE  q.input.op \notin {"me", "check"} /\ ~LoggingIn(q)
  BY DEF PlaceOK, Going

LEMMA CheckKept ==
  ASSUME TypeInv, NEW r \in Requests, NEW W, Kept(req[r], W),
         Facts(r) \subseteq W, Check(r)
  PROVE  Kept(req'[r], W)
<1>0. req \in [Requests -> Request] /\ req[r] \in Request /\ PlaceOK(req[r])
  BY DEF TypeInv, TypeOK, Kept
<1>1. CASE ValidateInput(r)
  <2>1. /\ req[r].pc = "validate" /\ req[r].operator # NoId /\ Going(req[r])
        /\ ~LoggingIn(req[r]) /\ req[r].input.op \notin {"me", "check"}
    BY <1>0, <1>1, NotOwn DEF ValidateInput, At, PlaceOK, Accepted, Going
  <2>2. ASSUME NEW o, o # "ok", Finish(r, o) PROVE Kept(req'[r], W)
    BY <1>0, <2>2, AnswerKept
  <2>3. CASE /\ RoleRequested(r) => roleState[req[r].input.role].enabled
             /\ Goto(r, IF Op(r) = "list" THEN "count" ELSE "query")
    <3>1. req[r].input.op \in {"create", "update"}
            => SawAvailable(req[r].input.role, W)
      <4> SUFFICES ASSUME req[r].input.op \in {"create", "update"}
                   PROVE  SawAvailable(req[r].input.role, W)
        OBVIOUS
      <4>1. req[r].input \in CreateInput \cup UpdateInput
        BY <1>0, InputType DEF Op
      <4>2. req[r].input.role \in Roles
        BY <4>1 DEF CreateInput, UpdateInput
      <4>3. roleState[req[r].input.role].enabled
        BY <2>3 DEF RoleRequested, Op
      <4> QED
        BY <2>1, <4>2, <4>3, RolesSeen
    <3>2. Authorised(req[r], W)
      BY <2>1, <3>1 DEF Kept, OperatorOK, Authorised
    <3>3. SameRequest(r) /\ req'[r].pc \in {"count", "query"}
      BY <2>3, GotoMoves
    <3> QED
      BY <2>1, <3>2, <3>3, OnwardKept DEF SameRequest, Going
  <2> QED
    BY <1>1, <2>2, <2>3 DEF ValidateInput
<1>2. CASE RejectInput(r)
  BY <1>0, <1>2, AnswerKept DEF RejectInput
<1>3. CASE CheckTarget(r)
  <2>1. /\ req[r].pc \in {"absent", "unbound", "found"} /\ Going(req[r])
        /\ req[r].operator # NoId /\ ~LoggingIn(req[r])
        /\ req[r].input.op \notin {"me", "check"}
    BY <1>3 DEF CheckTarget, AsOperator, IsLogin, LoggingIn, Op, Going
  <2>2. CASE Finish(r, TargetRefusal(r))
    <3>1. TargetRefusal(r) # "ok"
      BY DEF TargetRefusal
    <3> QED
      BY <1>0, <2>2, <3>1, AnswerKept
  <2>3. CASE TargetRefusal(r) = "none"
    <3> DEFINE pc == IF Op(r) = "detail" THEN "describe" ELSE "write"
               none == <<>>
               roles == IF Op(r) = "detail" THEN req[r].roles ELSE none
    <3>1. req' = [req EXCEPT ![r].pc = pc, ![r].roles = roles]
      BY <1>3, <2>3, <1>0 DEF CheckTarget, Request
    <3>2. pc \in {"describe", "write"}
      OBVIOUS
    <3> HIDE DEF pc, roles
    <3>3. SameRequest(r) /\ req'[r].pc = pc
      BY <1>0, <3>1 DEF SameRequest, Request
    <3>4. Authorised(req[r], W)
      BY <2>1, PastValidation
    <3> QED
      BY <2>1, <3>2, <3>3, <3>4, OnwardKept DEF SameRequest, Going
  <2> QED
    BY <1>3, <2>2, <2>3 DEF CheckTarget
<1>4. CASE DescribeTarget(r)
  <2>1. /\ req[r].pc = "describe" /\ Going(req[r]) /\ req[r].operator # NoId
        /\ ~LoggingIn(req[r])
    BY <1>0, <1>4, NotOwn DEF DescribeTarget, At, PlaceOK, Accepted, Going
  <2>2. Authorised(req[r], W)
    BY <2>1, PastValidation
  <2> QED
    BY <1>0, <1>4, <2>2, AnswerKept DEF DescribeTarget
<1>5. CASE CheckName(r)
  <2>1. CASE Finish(r, "exists") \/ Finish(r, "failed")
    BY <1>0, <2>1, AnswerKept
  <2>2. CASE At(r, "absent") /\ Goto(r, "write")
    <3>1. /\ req[r].pc = "absent" /\ Going(req[r]) /\ req[r].operator # NoId
          /\ ~LoggingIn(req[r]) /\ req[r].input.op \notin {"me", "check"}
      BY <1>5, <2>2 DEF CheckName, AsOperator, IsLogin, LoggingIn, Op, At, Going
    <3>2. Authorised(req[r], W)
      BY <3>1, PastValidation
    <3>3. SameRequest(r) /\ req'[r].pc = "write"
      BY <2>2, GotoMoves
    <3> QED
      BY <3>1, <3>2, <3>3, OnwardKept DEF SameRequest, Going
  <2> QED
    BY <1>5, <2>1, <2>2 DEF CheckName
<1>6. CASE CheckCredentials(r) \/ CheckAvailable(r) \/ OpenSession(r)
  <2>1. LoggingIn(req[r])
    BY <1>0, <1>6 DEF CheckCredentials, CheckAvailable, OpenSession, IsLogin,
       LoggingIn, Op, At, PlaceOK
  <2>2. ASSUME NEW pc \in {"session", "available"}, Goto(r, pc)
        PROVE  Kept(req'[r], W)
    <3>1. SameRequest(r) /\ req'[r].pc = pc
      BY <2>2, GotoMoves
    <3>2. req[r].outcome = "none"
      BY <1>0, <1>6 DEF PlaceOK, CheckCredentials, CheckAvailable, OpenSession,
         At
    <3>3. PlaceOK(req'[r])
      BY <1>0, <2>1, <3>1, <3>2 DEF SameRequest, PlaceOK, LoggingIn, Accepted
    <3>4. OperatorOK(req'[r], W)
      BY <2>1, <3>1 DEF SameRequest, OperatorOK, LoggingIn
    <3> QED
      BY <3>3, <3>4 DEF Kept
  <2>3. ASSUME NEW o, Finish(r, o) PROVE Kept(req'[r], W)
    BY <1>0, <2>1, <2>3, AnswerKept
  <2> QED
    BY <1>6, <2>2, <2>3 DEF CheckCredentials, CheckAvailable, OpenSession
<1> QED
  BY <1>1, <1>2, <1>3, <1>4, <1>5, <1>6 DEF Check

LEMMA ListKept ==
  ASSUME TypeInv, NEW r \in Requests, NEW W, Kept(req[r], W), List(r)
  PROVE  Kept(req'[r], W)
<1>0. req \in [Requests -> Request] /\ req[r] \in Request /\ PlaceOK(req[r])
  BY DEF TypeInv, TypeOK, Kept
<1>1. /\ req[r].operator # NoId /\ Going(req[r]) /\ ~LoggingIn(req[r])
      /\ req[r].pc \notin {"permit", "match", "validate"}
      /\ req[r].input.op \notin {"me", "check"}
  <2>1. /\ Going(req[r]) /\ req[r].pc \notin {"permit", "match", "validate"}
        /\ req[r].pc \in Accepted \/ Listing(r)
    BY DEF List, CountAccounts, QueryPage, NextRow, At, Going, Accepted
  <2>2. req[r].operator # NoId
    BY <1>0, <2>1 DEF PlaceOK, Listing, AsOperator, IsLogin, Op
  <2> QED
    BY <1>0, <2>1, <2>2, NotOwn
<1>2. Authorised(req[r], W)
  BY <1>1, PastValidation
<1>3. ASSUME NEW o, Finish(r, o) PROVE Kept(req'[r], W)
  BY <1>0, <1>2, <1>3, AnswerKept
<1>4. ASSUME SameRequest(r), req'[r].pc \in {"page", "row", "bindings"}
      PROVE  Kept(req'[r], W)
  BY <1>1, <1>2, <1>4, OnwardKept DEF SameRequest, Going
<1>5. CASE CountAccounts(r)
  BY <1>4, <1>5, GotoMoves DEF CountAccounts
<1>6. CASE QueryPage(r)
  <2>1. ASSUME NEW page,
               req' = [req EXCEPT ![r].pc = "row", ![r].rows = page]
        PROVE  Kept(req'[r], W)
    <3>1. SameRequest(r) /\ req'[r].pc = "row"
      BY <1>0, <2>1 DEF SameRequest, Request
    <3> QED
      BY <1>4, <3>1
  <2> QED
    BY <1>3, <1>6, <2>1 DEF QueryPage
<1>7. CASE NextRow(r)
  <2> DEFINE none == <<>>
             row == Head(req[r].rows)
             rest == Tail(req[r].rows)
  <2>1. CASE req' = [req EXCEPT ![r].pc = "bindings", ![r].roles = none,
                       ![r].seen = row, ![r].rows = rest]
    <3> HIDE DEF none, row, rest
    <3>1. SameRequest(r) /\ req'[r].pc = "bindings"
      BY <1>0, <2>1 DEF SameRequest, Request
    <3> QED
      BY <1>4, <3>1
  <2> QED
    BY <1>0, <1>3, <1>7, <2>1 DEF NextRow, Request
<1> QED
  BY <1>5, <1>6, <1>7 DEF List

LEMMA RestKept ==
  ASSUME TypeInv, NEW r \in Requests, NEW W, Kept(req[r], W),
         Start(r) \/ Fail(r) \/ Reply(r) \/ Write(r)
  PROVE  Kept(req'[r], W)
<1>0. req \in [Requests -> Request] /\ req[r] \in Request /\ PlaceOK(req[r])
  BY DEF TypeInv, TypeOK, Kept
<1>1. CASE Start(r)
  <2>1. PICK input \in Inputs :
          req' = [req EXCEPT ![r].pc = "query", ![r].input = input]
    BY <1>1 DEF Start, Arrive
  <2>2. /\ req'[r].pc = "query" /\ req'[r].input = input
        /\ req'[r].operator = NoId /\ req'[r].outcome = "none"
    <3>1. req[r].pc = "idle"
      BY <1>1 DEF Start, Arrive, At
    <3> QED
      BY <1>0, <2>1, <3>1 DEF Request, PlaceOK
  <2> QED
    BY <2>2 DEF Kept, PlaceOK, OperatorOK, LoggingIn, Looking, Going, Accepted
<1>2. CASE Reply(r)
  <2>1. req'[r] = Idle
    BY <1>0, <1>2 DEF Reply
  <2> QED
    BY <2>1 DEF Idle, NoInput, Kept, PlaceOK, OperatorOK, LoggingIn, Looking,
       Going, Accepted
<1>3. CASE Fail(r)
  BY <1>0, <1>3, AnswerKept DEF Fail
<1>4. CASE Write(r)
  <2>1. req[r].pc = "write"
    BY <1>4 DEF Write, createAccount, TargetGone, updateAccount, resetPassword,
       deleteAccount, At
  <2>2. ~LoggingIn(req[r]) /\ req[r].operator # NoId /\ Going(req[r])
    BY <1>0, <2>1, NotOwn DEF PlaceOK, Accepted, Going
  <2>3. Authorised(req[r], W)
    BY <2>1, <2>2, PastValidation
  <2> QED
    BY <1>0, <1>4, <2>3, AnswerKept, WriteFinishes
<1> QED
  BY <1>1, <1>2, <1>3, <1>4

-----------------------------------------------------------------------------
(* What was witnessed only grows until the request is answered *)

WitnessedNow ==
  \A r \in Requests : Going(req[r]) => Facts(r) \subseteq witness[r]
EvidenceKept == \A r \in Requests : Kept(req[r], witness[r])

HInv == TypeInv /\ HandsClean /\ WitnessedNow /\ EvidenceKept

LEMMA HNextIsNext ==
  ASSUME [HNext]_hvars
  PROVE  [Next]_vars
  BY DEF HNext, hvars

\* Nothing changes, or the step of one request keeps what was said of it.
LEMMA RequestKept ==
  ASSUME TypeInv, HandsClean, [Next]_vars, NEW r \in Requests,
         NEW W, Kept(req[r], W), Going(req[r]) => Facts(r) \subseteq W
  PROVE  Kept(req'[r], W)
<1>1. CASE req'[r] = req[r]
  BY <1>1
<1>2. CASE Start(r) \/ Fail(r) \/ Reply(r) \/ Write(r)
  BY <1>2, RestKept
<1>3. CASE List(r)
  BY <1>3, ListKept
<1>4. CASE Lookup(r)
  <2>1. Going(req[r])
    BY <1>4 DEF Lookup, QueryAccount, ReadBindings, ResolveRole, KeepOnlyRole,
       At, Going
  <2> QED
    BY <1>4, <2>1, QueryKept, RolesKept DEF Lookup
<1>5. CASE Authorise(r)
  <2>1. Going(req[r])
    BY <1>5 DEF Authorise, OperatorRefused, AnswerSuper, OperatorFound,
       PermitRole, MatchPermission, At, Going
  <2> QED
    BY <1>5, <2>1, AuthoriseKept
<1>6. CASE Check(r)
  <2>1. Going(req[r])
    BY <1>6 DEF Check, ValidateInput, RejectInput, CheckTarget, DescribeTarget,
       CheckName, CheckCredentials, CheckAvailable, OpenSession, At, Going
  <2> QED
    BY <1>6, <2>1, CheckKept
<1> QED
  BY <1>1, <1>2, <1>3, <1>4, <1>5, <1>6, OthersKeep DEF Step

LEMMA WitnessGrows ==
  ASSUME [HNext]_hvars, NEW r \in Requests,
         req'[r].pc # "idle", req'[r].outcome \in {"none", "ok"}
  PROVE  witness[r] \subseteq witness'[r]
<1>1. CASE HNext
  BY <1>1 DEF HNext, Observe
<1>2. CASE UNCHANGED hvars
  BY <1>2 DEF hvars
<1> QED
  BY <1>1, <1>2

LEMMA WitnessedStep ==
  ASSUME WitnessedNow, [HNext]_hvars,
         \A r \in Requests : PlaceOK(req'[r])
  PROVE  WitnessedNow'
<1> SUFFICES ASSUME NEW r \in Requests, Going(req'[r])
             PROVE  Facts(r)' \subseteq witness'[r]
  BY DEF WitnessedNow, Going
<1>1. CASE HNext
  <2>1. req'[r].pc # "idle" /\ req'[r].outcome = "none"
    BY DEF Going, PlaceOK
  <2>2. witness'[r] = witness[r] \cup Facts(r)'
    BY <1>1, <2>1 DEF HNext, Observe
  <2> QED
    BY <2>2
<1>2. CASE UNCHANGED hvars
  <2>1. Facts(r)' = Facts(r)
    BY <1>2 DEF hvars, vars, Facts, At, RoleFacts, Available, ListFacts,
       ReadingRows, Listing, Op, AsOperator, IsLogin, Matching, AccountFacts,
       Live, Wanted, ByName, CredentialFacts, LoginFacts
  <2>2. Facts(r) \subseteq witness[r]
    BY <1>2 DEF hvars, vars, WitnessedNow, Going
  <2> QED
    BY <1>2, <2>1, <2>2 DEF hvars
<1> QED
  BY <1>1, <1>2

LEMMA EvidenceStep ==
  ASSUME TypeInv, HandsClean, WitnessedNow, EvidenceKept,
         [HNext]_hvars
  PROVE  EvidenceKept' /\ WitnessedNow'
<1>1. [Next]_vars
  BY HNextIsNext
<1>2. ASSUME NEW r \in Requests PROVE Kept(req'[r], witness[r])
  <2>1. PICK W : W = witness[r]
    OBVIOUS
  <2>2. Kept(req[r], W) /\ (Going(req[r]) => Facts(r) \subseteq W)
    BY <2>1 DEF WitnessedNow, EvidenceKept
  <2> QED
    BY <1>1, <2>1, <2>2, RequestKept
<1>3. ASSUME NEW r \in Requests PROVE Kept(req'[r], witness'[r])
  <2>1. Kept(req'[r], witness[r])
    BY <1>2
  <2>2. CASE req'[r].pc = "idle" \/ req'[r].outcome \notin {"none", "ok"}
    <3>1. PlaceOK(req'[r]) /\ req'[r].pc \in {"idle", "done"}
      BY <2>1, <2>2 DEF Kept, PlaceOK
    <3>2. OperatorOK(req'[r], witness'[r])
      BY <2>2, <3>1 DEF PlaceOK, OperatorOK, Going, Looking
    <3> QED
      BY <3>1, <3>2 DEF Kept
  <2>3. CASE req'[r].pc # "idle" /\ req'[r].outcome \in {"none", "ok"}
    <3>1. witness[r] \subseteq witness'[r]
      BY <2>3, WitnessGrows
    <3> QED
      BY <2>1, <3>1, OperatorGrows DEF Kept
  <2> QED
    BY <2>2, <2>3
<1>4. EvidenceKept'
  BY <1>3 DEF EvidenceKept, Kept, PlaceOK, OperatorOK, LoggingIn, Looking,
     Going, Accepted, Authorised, Granted, Served, SawRoles, SawEnabled,
     SawSuper, SawBound, SawAvailable, SawGrants
<1>5. WitnessedNow'
  BY <1>3, WitnessedStep DEF Kept
<1> QED
  BY <1>4, <1>5


LEMMA HInitInv == HInit => HInv
<1> SUFFICES ASSUME HInit PROVE HInv
  OBVIOUS
<1>1. TypeInv
  BY InitTypeInv DEF HInit
<1>2. \A r \in Requests : req[r] = Idle
  BY DEF HInit, Init
<1>3. HandsClean
  BY <1>2, ConstantsAssumption DEF HandsClean, InHand, Idle, NoSnapshot
<1>4. WitnessedNow
  BY <1>2 DEF WitnessedNow, Going, Idle
<1>5. EvidenceKept
  BY <1>2 DEF EvidenceKept, Kept, PlaceOK, OperatorOK, LoggingIn, Looking,
     Going, Accepted, Idle, NoInput
<1> QED
  BY <1>1, <1>3, <1>4, <1>5 DEF HInv

LEMMA HStepInv == HInv /\ [HNext]_hvars => HInv'
<1> SUFFICES ASSUME HInv, [HNext]_hvars PROVE HInv'
  OBVIOUS
<1>1. [Next]_vars
  BY HNextIsNext
<1>2. TypeInv' /\ HandsClean'
  BY <1>1, NextTypeInv, HandsStayClean DEF HInv
<1>3. EvidenceKept' /\ WitnessedNow'
  BY EvidenceStep DEF HInv
<1> QED
  BY <1>2, <1>3 DEF HInv

LEMMA EvidenceInvariant == HSpec => []HInv
  BY HInitInv, HStepInv, PTL DEF HSpec

LEMMA EvidenceSays ==
  ASSUME TypeInv, EvidenceKept
  PROVE  AuthorisedByEvidence
<1> SUFFICES ASSUME NEW r \in Requests, CarriesOut(r)
             PROVE  LET i == req[r].input.operator
                        asked == IF Op(r) = "me" THEN "available" ELSE "grants"
                    IN
                    /\ <<"enabled", i>> \in witness[r]
                    /\ \/ <<"super", i>> \in witness[r]
                       \/ \E role \in Roles :
                            /\ <<"bound", i, role>> \in witness[r]
                            /\ <<asked, role>> \in witness[r]
                    /\ RoleRequested(r) =>
                         <<"available", req[r].input.role>> \in witness[r]
  BY DEF AuthorisedByEvidence
<1>1. Kept(req[r], witness[r]) /\ PlaceOK(req[r]) /\ ~LoggingIn(req[r])
  BY DEF EvidenceKept, Kept, CarriesOut, LoggingIn, IsLogin, Op
<1>2. Authorised(req[r], witness[r])
  <2>1. CASE At(r, "write")
    <3>1. req[r].operator # NoId
      BY <1>1, <2>1 DEF PlaceOK, Accepted, At
    <3> QED
      BY <1>1, <2>1, <3>1, PastValidation DEF At, Going
  <2>2. CASE req[r].outcome = "ok"
    BY <1>1, <2>2 DEF Kept, PlaceOK, OperatorOK
  <2> QED
    BY <2>1, <2>2 DEF CarriesOut
<1>3. CASE Op(r) = "me"
  BY <1>2, <1>3 DEF Authorised, Served, SawEnabled, SawSuper, SawBound,
     SawAvailable, RoleRequested, Op
<1>4. CASE Op(r) # "me"
  BY <1>2, <1>4 DEF Authorised, Granted, SawEnabled, SawSuper, SawBound,
     SawAvailable, SawGrants, RoleRequested, Op
<1> QED
  BY <1>3, <1>4

\* Whoever is let through to a write, or answered as asked, was enabled while
\* its request ran, and super or bound to a role that granted the permission;
\* a role it gives was enabled. The handler asks for each in a query of its
\* own and any of it may have changed by the next.
THEOREM AuthorisedOnEvidence == HSpec => []AuthorisedByEvidence
<1>1. HInv => AuthorisedByEvidence
  BY EvidenceSays DEF HInv
<1> QED
  BY <1>1, EvidenceInvariant, PTL

-----------------------------------------------------------------------------
(* The evidence of a login *)

Right(q) ==
  /\ q.seen.status = "enabled"
  /\ verifyPassword(q.seen.password_hash, q.input.password)

\* What a login has in hand of the account it looked up. The seed, whose name
\* alone may change meanwhile, is super.
LoginOK(q, W) ==
  LET i == q.seen.id IN
  LoggingIn(q) =>
    /\ Looking(q) =>
         /\ Right(q) => SawCredentials(i, W)
         /\ q.seen.is_super_admin => SawSuper(i, W)
    /\ Looking(q) /\ q.pc # "bindings"
         => SawSuper(i, W) \/ SawRoles(i, q.roles, W)
    /\ q.pc \in {"available", "session"} => i \in Ids /\ SawCredentials(i, W)
    /\ q.pc = "available" => SawSuper(i, W) \/ SawRoles(i, q.roles, W)
    /\ q.pc = "session" => Served(i, W)
    /\ q.pc = "done" /\ q.outcome = "ok" =>
         \E j \in Ids : SawCredentials(j, W) /\ Served(j, W)

LEMMA LoginGrows ==
  ASSUME NEW q, NEW V, NEW W, V \subseteq W, LoginOK(q, V)
  PROVE  LoginOK(q, W)
  BY DEF LoginOK, SawSuper, SawBound, SawAvailable, SawCredentials, SawRoles,
         Served

LEMMA LoginLookup ==
  ASSUME TypeInv, HandsClean, NEW r \in Requests, NEW W, LoginOK(req[r], W),
         Facts(r) \subseteq W, LoggingIn(req[r]), Lookup(r)
  PROVE  LoginOK(req'[r], W)
<1> DEFINE i == req[r].seen.id
<1>0. IsLogin(r)
  BY DEF IsLogin, LoggingIn, Op
<1>1. CASE QueryAccount(r)
  <2>1. SameRequest(r) /\ Going(req[r])
    BY <1>1, QueryMoves DEF QueryAccount, At, Going
  <2>2. CASE req'[r].pc = "absent"
    BY <2>2 DEF LoginOK, Looking
  <2>3. CASE req'[r].pc = "bindings"
    <3>1. PICK j \in Ids : /\ j \in Live /\ account[j].account = req[r].input.name
                           /\ req'[r].seen = SnapshotOf(j)
      BY <1>0, <1>1, <2>3, QueryMoves DEF Wanted, ByName, Live
    <3>2. /\ account[j].status = "enabled" =>
               (verifyPassword(account[j].password_hash, req[r].input.password)
                  => SawCredentials(j, W))
          /\ account[j].is_super_admin = TRUE => SawSuper(j, W)
      BY <1>0, <2>1, <3>1, LoginSeen
    <3>3. account[j].is_super_admin \in BOOLEAN
      BY <3>1 DEF TypeInv, TypeOK, Live, Row
    <3>4. /\ req'[r].seen.id = j
          /\ req'[r].seen.status = account[j].status
          /\ req'[r].seen.password_hash = account[j].password_hash
          /\ req'[r].seen.is_super_admin = account[j].is_super_admin
      BY <3>1 DEF SnapshotOf
    <3>5. Right(req'[r]) => SawCredentials(j, W)
      BY <2>1, <3>2, <3>4 DEF Right, SameRequest
    <3>6. req'[r].seen.is_super_admin => SawSuper(j, W)
      BY <3>2, <3>3, <3>4
    <3> QED
      BY <2>3, <3>4, <3>5, <3>6 DEF LoginOK, Looking
  <2> QED
    BY <1>1, <2>2, <2>3, QueryMoves
<1>2. CASE ReadBindings(r) \/ ResolveRole(r) \/ KeepOnlyRole(r)
  <2>1. /\ SameRequest(r) /\ req'[r].seen = req[r].seen
        /\ req[r].pc \in {"bindings", "resolve", "keep"}
        /\ req'[r].pc \in {"resolve", "keep", "found", "unbound"}
    BY <1>2, RolesMove
  <2>2. Going(req[r]) /\ Looking(req[r])
    BY <2>1 DEF Going, Looking
  <2>3. SawSuper(i, W) \/ SawRoles(i, req'[r].roles, W)
    <3>1. CASE req[r].pc = "bindings" /\ req'[r].roles = bindings[i]
      <4>1. i \in Ids
        BY <3>1 DEF TypeInv, TypeOK, RolesNormalised, Request, Snapshot
      <4>2. CASE i \notin Live
        <5>1. bindings[i] = <<>>
          BY <4>1, <4>2 DEF HandsClean, InHand, Clean
        <5> QED
          BY <3>1, <5>1 DEF SawRoles
      <4>3. CASE i \in Live
        BY <1>0, <2>2, <3>1, <4>3, HeldSeen
      <4> QED
        BY <4>2, <4>3
    <3>2. CASE /\ req[r].pc # "bindings"
               /\ \A n \in DOMAIN req'[r].roles : \E m \in DOMAIN req[r].roles :
                    req'[r].roles[n] = req[r].roles[m]
      <4>1. SawSuper(i, W) \/ SawRoles(i, req[r].roles, W)
        BY <2>2, <3>2 DEF LoginOK
      <4> QED
        BY <3>2, <4>1 DEF SawRoles
    <3> QED
      BY <1>2, <3>1, <3>2, RolesMove
  <2>4. /\ Right(req'[r]) => SawCredentials(i, W)
        /\ req'[r].seen.is_super_admin => SawSuper(i, W)
    BY <2>1, <2>2 DEF LoginOK, Right, SameRequest
  <2> QED
    BY <2>1, <2>3, <2>4 DEF LoginOK, Looking
<1> QED
  BY <1>1, <1>2 DEF Lookup

LEMMA LoginCheck ==
  ASSUME TypeInv, NEW r \in Requests, NEW W, PlaceOK(req[r]),
         LoginOK(req[r], W), Facts(r) \subseteq W, LoggingIn(req[r]), Check(r)
  PROVE  LoginOK(req'[r], W)
<1> DEFINE i == req[r].seen.id
<1>0. req[r] \in Request /\ req[r].operator = NoId /\ IsLogin(r)
  BY DEF TypeInv, TypeOK, PlaceOK, LoggingIn, IsLogin, Op
<1>1. ASSUME NEW o, Finish(r, o), o # "ok" PROVE LoginOK(req'[r], W)
  BY <1>1, FinishMoves DEF LoginOK, Looking
<1>2. CASE RejectInput(r)
  BY <1>1, <1>2 DEF RejectInput
<1>3. CASE CheckCredentials(r)
  <2>1. CASE LoginRefusal(r) # "none"
    <3>1. LoginRefusal(r) # "ok"
      BY DEF LoginRefusal
    <3> QED
      BY <1>1, <1>3, <2>1, <3>1 DEF CheckCredentials
  <2>2. CASE LoginRefusal(r) = "none"
    <3>1. req[r].pc = "found" /\ Right(req[r])
      <4>1. At(r, "absent") \/ At(r, "unbound") \/ At(r, "found")
        BY <1>3 DEF CheckCredentials, At
      <4>2. At(r, "found") /\ ~At(r, "absent") /\ ~At(r, "unbound")
        BY <2>2, <4>1 DEF LoginRefusal, At
      <4>3. verifyPassword(req[r].seen.password_hash, req[r].input.password)
        BY <2>2, <4>2 DEF LoginRefusal
      <4>4. req[r].seen.status = "enabled"
        BY <2>2, <4>2, <4>3 DEF LoginRefusal
      <4> QED
        BY <4>2, <4>3, <4>4 DEF At, Right
    <3>2. /\ SawCredentials(i, W)
          /\ req[r].seen.is_super_admin => SawSuper(i, W)
          /\ SawSuper(i, W) \/ SawRoles(i, req[r].roles, W)
      BY <3>1 DEF LoginOK, Looking
    <3>3. i \in Ids /\ (req[r].roles = <<>> => req[r].seen.is_super_admin)
      BY <1>0, <3>1 DEF TypeInv, RolesNormalised, At, Request, Snapshot
    <3>4. /\ req'[r].pc = IF req[r].roles = <<>> THEN "session" ELSE "available"
          /\ SameRequest(r) /\ req'[r].seen = req[r].seen
          /\ req'[r].roles = req[r].roles
      BY <1>3, <2>2, GotoMoves DEF CheckCredentials
    <3>5. req[r].roles = <<>> => Served(i, W)
      BY <3>2, <3>3 DEF Served
    <3> QED
      BY <3>2, <3>3, <3>4, <3>5 DEF LoginOK, Looking
  <2> QED
    BY <2>1, <2>2
<1>4. CASE CheckAvailable(r)
  <2> DEFINE role == Head(req[r].roles)
  <2>1. /\ req[r].pc = "available" /\ i \in Ids /\ SawCredentials(i, W)
        /\ SawSuper(i, W) \/ SawRoles(i, req[r].roles, W)
    BY <1>4 DEF CheckAvailable, At, LoginOK
  <2>2. CASE Finish(r, "disabled")
    BY <1>1, <2>2
  <2>3. CASE roleState[role].enabled /\ Goto(r, "session")
    <3>1. Served(i, W)
      <4>1. CASE SawRoles(i, req[r].roles, W)
        <5>1. role \in Roles /\ SawBound(i, role, W)
          BY <2>1, <4>1, HeadRole
        <5>2. SawAvailable(role, W)
          BY <2>1, <2>3, <5>1, RolesSeen DEF Going
        <5> QED
          BY <5>1, <5>2 DEF Served
      <4> QED
        BY <2>1, <4>1 DEF Served
    <3>2. req'[r].pc = "session" /\ SameRequest(r) /\ req'[r].seen = req[r].seen
      BY <2>3, GotoMoves
    <3> QED
      BY <2>1, <3>1, <3>2 DEF LoginOK, Looking
  <2> QED
    BY <1>4, <2>2, <2>3 DEF CheckAvailable
<1>5. CASE OpenSession(r)
  <2>1. i \in Ids /\ SawCredentials(i, W) /\ Served(i, W)
    BY <1>5 DEF OpenSession, At, LoginOK
  <2>2. req'[r].pc = "done"
    BY <1>5, FinishMoves DEF OpenSession
  <2> QED
    BY <2>1, <2>2 DEF LoginOK, Looking
<1>6. ~(ValidateInput(r) \/ CheckTarget(r) \/ DescribeTarget(r) \/ CheckName(r))
  BY <1>0 DEF ValidateInput, CheckTarget, DescribeTarget, CheckName, At, IsLogin,
     Op, PlaceOK, Accepted
<1> QED
  BY <1>2, <1>3, <1>4, <1>5, <1>6 DEF Check

\* A request stays the one that arrived.
LEMMA InputStays ==
  ASSUME TypeInv, NEW r \in Requests, Step(r)
  PROVE  req'[r].input = req[r].input
<1>0. req \in [Requests -> Request] /\ req[r] \in Request
  BY DEF TypeInv, TypeOK
<1>1. CASE Lookup(r)
  BY <1>1, QueryMoves, RolesMove DEF Lookup, SameRequest
<1>2. CASE Authorise(r)
  <2>1. CASE OperatorFound(r)
    <3> DEFINE seen == req[r].seen
               none == <<>>
               roles == IF seen.is_super_admin THEN none ELSE req[r].roles
               pc == IF seen.is_super_admin THEN "validate" ELSE "permit"
    <3>1. req' = [req EXCEPT ![r].operator = seen.id,
                    ![r].isSuper = seen.is_super_admin,
                    ![r].seen = NoSnapshot, ![r].roles = roles,
                    ![r].pc = pc]
      BY <2>1, <1>0 DEF OperatorFound, Request
    <3> HIDE DEF pc, roles
    <3> QED
      BY <1>0, <3>1 DEF Request
  <2>2. CASE LetThrough(r)
    BY <1>0, <2>2 DEF LetThrough, Request
  <2> QED
    BY <1>2, <2>1, <2>2, AuthoriseEffect, FinishMoves, GotoMoves
       DEF SameRequest
<1>3. CASE Check(r)
  <2>1. CASE CheckTarget(r)
    BY <1>0, <2>1, FinishMoves DEF CheckTarget, Request
  <2> QED
    BY <1>3, <2>1, FinishMoves, GotoMoves DEF SameRequest, Check,
       ValidateInput, RejectInput, DescribeTarget, CheckName,
       CheckCredentials, CheckAvailable, OpenSession
<1>4. CASE List(r)
  <2>1. CASE NextRow(r)
    BY <1>0, <2>1, FinishMoves DEF NextRow, Request
  <2>2. CASE QueryPage(r)
    BY <1>0, <2>2, FinishMoves DEF QueryPage, Request
  <2> QED
    BY <1>4, <2>1, <2>2, GotoMoves DEF SameRequest, List, CountAccounts
<1>5. CASE Write(r)
  BY <1>5, WriteFinishes, FinishMoves
<1> QED
  BY <1>1, <1>2, <1>3, <1>4, <1>5 DEF Step

\* Every step of a request keeps what was said of a login.
LEMMA LoginKept ==
  ASSUME TypeInv, HandsClean, [Next]_vars,
         NEW r \in Requests, NEW W, PlaceOK(req[r]),
         LoginOK(req[r], W), Going(req[r]) => Facts(r) \subseteq W
  PROVE  LoginOK(req'[r], W)
<1>0. req \in [Requests -> Request] /\ req[r] \in Request
  BY DEF TypeInv, TypeOK
<1>1. CASE req'[r] = req[r]
  BY <1>1
<1>2. ASSUME NEW o, Finish(r, o), o # "ok" PROVE LoginOK(req'[r], W)
  BY <1>2, FinishMoves DEF LoginOK, Looking
<1>3. CASE Start(r)
  <2>1. req'[r].pc = "query"
    BY <1>0, <1>3 DEF Start, Arrive, Request
  <2> QED
    BY <2>1 DEF LoginOK, Looking
<1>4. CASE Reply(r)
  <2>1. req'[r] = Idle
    BY <1>0, <1>4 DEF Reply
  <2> QED
    BY <2>1 DEF Idle, NoInput, LoginOK, LoggingIn
<1>5. CASE Fail(r)
  BY <1>2, <1>5 DEF Fail
<1>6. CASE ~LoggingIn(req[r]) /\ Step(r)
  <2>1. req'[r].input = req[r].input
    BY <1>6, InputStays
  <2> QED
    BY <1>6, <2>1 DEF LoginOK, LoggingIn
<1>7. CASE LoggingIn(req[r]) /\ Step(r)
  <2>1. CASE Lookup(r)
    <3>1. Going(req[r])
      BY <2>1 DEF Lookup, QueryAccount, ReadBindings, ResolveRole,
         KeepOnlyRole, At, Going
    <3> QED
      BY <1>7, <2>1, <3>1, LoginLookup
  <2>2. CASE Check(r)
    <3>1. Going(req[r])
      BY <2>2 DEF Check, ValidateInput, RejectInput, CheckTarget,
         DescribeTarget, CheckName, CheckCredentials, CheckAvailable,
         OpenSession, At, Going
    <3> QED
      BY <1>7, <2>2, <3>1, LoginCheck
  <2>3. ~Authorise(r)
    BY <1>7 DEF Authorise, OperatorRefused, AnswerSuper, OperatorFound,
       PermitRole, MatchPermission, AsOperator, IsLogin, LoggingIn, Op, At,
       PlaceOK, Accepted
  <2>4. ~List(r)
    BY <1>7 DEF List, CountAccounts, QueryPage, NextRow, Listing, LoggingIn,
       Op, At, PlaceOK, Accepted
  <2>5. ~Write(r)
    BY <1>7 DEF Write, createAccount, TargetGone, updateAccount,
       resetPassword, deleteAccount, LoggingIn, At, PlaceOK, Accepted
  <2> QED
    BY <1>7, <2>1, <2>2, <2>3, <2>4, <2>5 DEF Step
<1> QED
  BY <1>1, <1>3, <1>4, <1>5, <1>6, <1>7, OthersKeep


LoginsKept == \A r \in Requests : LoginOK(req[r], witness[r])

LInv == HInv /\ LoginsKept

LEMMA LoginStep ==
  ASSUME LInv, [HNext]_hvars
  PROVE  LInv'
<1>1. [Next]_vars /\ TypeInv /\ HandsClean
  BY HNextIsNext DEF LInv, HInv
<1>2. HInv'
  BY HStepInv DEF LInv
<1>4. ASSUME NEW r \in Requests
      PROVE  /\ PlaceOK(req[r]) /\ LoginOK(req[r], witness[r])
             /\ Going(req[r]) => Facts(r) \subseteq witness[r]
  BY DEF LInv, LoginsKept, HInv, EvidenceKept, Kept, WitnessedNow
<1>6. ASSUME NEW r \in Requests PROVE LoginOK(req'[r], witness[r])
  <2>1. PICK W : W = witness[r]
    OBVIOUS
  <2>2. LoginOK(req[r], W) /\ (Going(req[r]) => Facts(r) \subseteq W)
    BY <1>4, <2>1
  <2>3. LoginOK(req'[r], W)
    BY <1>1, <1>4, <2>2, LoginKept
  <2> QED
    BY <2>1, <2>3
<1>7. ASSUME NEW r \in Requests PROVE LoginOK(req'[r], witness'[r])
  <2>1. CASE req'[r].pc = "idle" \/ req'[r].outcome \notin {"none", "ok"}
    <3>1. PlaceOK(req[r])'
      BY <1>2 DEF HInv, EvidenceKept, Kept
    <3>2. req'[r].pc \in {"idle", "done"}
      BY <2>1, <3>1 DEF PlaceOK
    <3> QED
      BY <2>1, <3>1, <3>2 DEF PlaceOK, LoginOK, Looking
  <2>2. CASE req'[r].pc # "idle" /\ req'[r].outcome \in {"none", "ok"}
    <3>1. witness[r] \subseteq witness'[r]
      BY <2>2, WitnessGrows
    <3> QED
      BY <1>6, <3>1, LoginGrows
  <2> QED
    BY <2>1, <2>2
<1>8. LoginsKept'
  BY <1>7 DEF LoginsKept, LoginOK, LoggingIn, Looking, Right, Served,
     SawRoles, SawSuper, SawBound, SawAvailable, SawCredentials
<1> QED
  BY <1>2, <1>8 DEF LInv

\* A login or validation succeeds on the password, status and roles of one
\* account while it ran, although it looks at its snapshot of the row, at the
\* bindings and at the role one after the other; also where the account is the
\* seed and gets its flag or another name meanwhile.
THEOREM LoginsOnEvidence == HSpec => []LoginByEvidence
<1>1. HInit => LInv
  <2> SUFFICES ASSUME HInit PROVE LInv
    OBVIOUS
  <2>1. \A r \in Requests : req[r] = Idle
    BY DEF HInit, Init
  <2>2. LoginsKept
    BY <2>1 DEF LoginsKept, LoginOK, LoggingIn, Idle, NoInput
  <2> QED
    BY <2>2, HInitInv DEF LInv
<1>2. LInv /\ [HNext]_hvars => LInv'
  BY LoginStep
<1>3. LInv => LoginByEvidence
  <2> SUFFICES ASSUME LInv, NEW r \in Requests, IsLogin(r),
                      req[r].outcome = "ok"
               PROVE  \E i \in Ids :
                        /\ <<"credentials", i>> \in witness[r]
                        /\ \/ <<"super", i>> \in witness[r]
                           \/ \E role \in Roles :
                                /\ <<"bound", i, role>> \in witness[r]
                                /\ <<"available", role>> \in witness[r]
    BY DEF LoginByEvidence
  <2>1. PlaceOK(req[r]) /\ LoginOK(req[r], witness[r]) /\ LoggingIn(req[r])
    BY DEF LInv, HInv, EvidenceKept, Kept, LoginsKept, IsLogin, LoggingIn, Op
  <2>2. req[r].pc = "done"
    BY <2>1 DEF PlaceOK
  <2> QED
    BY <2>1, <2>2 DEF LoginOK, Served, SawCredentials, SawSuper, SawBound,
       SawAvailable
<1> QED
  BY <1>1, <1>2, <1>3, PTL DEF HSpec
=============================================================================
