------------------------- MODULE AccountSessionProofs -------------------------
(***************************************************************************)
(* AccountSession implements AccountService, for any database, any number  *)
(* of requests and any number of tokens.                                   *)
(***************************************************************************)
EXTENDS AccountSession, AccountServiceProofs

\* A look-up and the page of a list hold ids that were issued, and a login that
\* reaches its session holds one.
Held(s) ==
  /\ s.seen.id # NoId => s.seen.id \in issued
  /\ \A n \in DOMAIN s.rows : s.rows[n].id \in issued
  /\ s.pc \in {"available", "session"} => s.seen.id # NoId

\* What a step of a handler that has begun leaves alone, and what it holds
\* after the step.
Keeps(r) ==
  /\ \A q \in Requests \ {r} : req'[q] = req[q]
  /\ req'[r].input = req[r].input
  /\ req'[r].pc # "idle"
  /\ Held(req'[r])

LEMMA FinishKeeps ==
  ASSUME TypeInv, NEW r \in Requests, NEW o, Finish(r, o)
  PROVE  Keeps(r)
<1> DEFINE s == [Idle EXCEPT !.pc = "done", !.input = req[r].input,
                   !.operator = req[r].operator, !.isSuper = req[r].isSuper,
                   !.outcome = o]
<1>1. req \in [Requests -> Request] /\ req' = [req EXCEPT ![r] = s]
  BY DEF TypeInv, TypeOK, Finish
<1>2. /\ s.pc = "done" /\ s.input = req[r].input /\ s.seen = NoSnapshot
      /\ s.rows = <<>>
  BY DEF Idle
<1> HIDE DEF s
<1> QED
  BY <1>1, <1>2 DEF Keeps, Held, NoSnapshot

LEMMA GotoKeeps ==
  ASSUME TypeInv, NEW r \in Requests, Held(req[r]),
         NEW pc \in PCs \ {"idle"}, Goto(r, pc),
         pc \in {"available", "session"} => req[r].seen.id # NoId
  PROVE  Keeps(r)
  BY DEF TypeInv, TypeOK, Goto, Request, Keeps, Held

\* A step that leaves the account it looked up alone.
LEMMA SeenKeeps ==
  ASSUME TypeInv, NEW r \in Requests, Held(req[r]), NEW roles,
         NEW pc \in PCs \ {"idle", "available", "session"},
         req' = [req EXCEPT ![r].roles = roles, ![r].pc = pc]
  PROVE  Keeps(r)
  BY DEF TypeInv, TypeOK, Request, Keeps, Held

LEMMA LookupKeeps ==
  ASSUME TypeInv, NEW r \in Requests, Held(req[r]), Live \subseteq issued,
         Lookup(r)
  PROVE  Keeps(r)
<1>0. req \in [Requests -> Request] /\ req[r] \in Request
  BY DEF TypeInv, TypeOK
<1>1. CASE QueryAccount(r)
  <2>1. CASE Goto(r, "absent")
    BY <2>1, GotoKeeps DEF PCs
  <2>2. ASSUME NEW i \in Wanted(r),
               req' = [req EXCEPT ![r].pc = "bindings",
                                  ![r].seen = SnapshotOf(i)]
        PROVE  Keeps(r)
    <3>1. i \in issued /\ SnapshotOf(i).id = i
      BY DEF Wanted, SnapshotOf
    <3>2. /\ req'[r].seen = SnapshotOf(i) /\ req'[r].pc = "bindings"
          /\ req'[r].input = req[r].input /\ req'[r].rows = req[r].rows
          /\ \A q \in Requests \ {r} : req'[q] = req[q]
      BY <1>0, <2>2 DEF Request
    <3> QED
      BY <3>1, <3>2 DEF Keeps, Held
  <2> QED
    BY <1>1, <2>1, <2>2 DEF QueryAccount
<1>2. CASE ReadBindings(r)
  <2> DEFINE ids == bindings[req[r].seen.id]
             pc == CASE Len(ids) = 0 -> Unbound(r)
                     [] Len(ids) = 1 -> "found"
                     [] OTHER -> "resolve"
  <2>1. req' = [req EXCEPT ![r].roles = ids, ![r].pc = pc]
    BY <1>2 DEF ReadBindings
  <2>2. pc \in {"found", "unbound", "resolve"}
    BY DEF Unbound
  <2> HIDE DEF ids, pc
  <2> QED
    BY <2>1, <2>2, SeenKeeps DEF PCs
<1>3. CASE ResolveRole(r)
  <2> DEFINE one == <<Head(req[r].roles)>>
             rest == Tail(req[r].roles)
             pc == IF rest # <<>> THEN "resolve" ELSE Unbound(r)
  <2>1. \/ req' = [req EXCEPT ![r].roles = one, ![r].pc = "keep"]
        \/ req' = [req EXCEPT ![r].roles = rest, ![r].pc = pc]
    BY <1>3 DEF ResolveRole
  <2>2. pc \in {"found", "unbound", "resolve"}
    BY DEF Unbound
  <2> HIDE DEF one, rest, pc
  <2> QED
    BY <2>1, <2>2, SeenKeeps DEF PCs
<1>4. CASE KeepOnlyRole(r)
  BY <1>4, GotoKeeps DEF KeepOnlyRole, PCs
<1> QED
  BY <1>1, <1>2, <1>3, <1>4 DEF Lookup

LEMMA AuthoriseKeeps ==
  ASSUME TypeInv, NEW r \in Requests, Held(req[r]), Authorise(r)
  PROVE  Keeps(r)
<1>0. req \in [Requests -> Request] /\ req[r] \in Request
  BY DEF TypeInv, TypeOK
<1>1. CASE \E o \in Outcomes : Finish(r, o)
  BY <1>1, FinishKeeps
<1>2. CASE Goto(r, "match")
  BY <1>2, GotoKeeps DEF PCs
<1>3. CASE OperatorFound(r)
  <2> DEFINE seen == req[r].seen
             none == <<>>
             roles == IF seen.is_super_admin THEN none ELSE req[r].roles
             pc == IF seen.is_super_admin THEN "validate" ELSE "permit"
  <2>1. req' = [req EXCEPT ![r].operator = seen.id,
                  ![r].isSuper = seen.is_super_admin,
                  ![r].seen = NoSnapshot, ![r].roles = roles, ![r].pc = pc]
    BY <1>3, <1>0 DEF OperatorFound, Request
  <2>2. pc \in {"validate", "permit"}
    OBVIOUS
  <2> HIDE DEF pc, roles, seen
  <2>3. /\ req'[r].pc = pc /\ req'[r].seen = NoSnapshot
        /\ req'[r].input = req[r].input /\ req'[r].rows = req[r].rows
        /\ \A q \in Requests \ {r} : req'[q] = req[q]
    BY <2>1, <1>0 DEF Request
  <2> QED
    BY <2>2, <2>3 DEF Keeps, Held, NoSnapshot
<1>4. CASE LetThrough(r)
  <2> DEFINE none == <<>>
  <2>1. req' = [req EXCEPT ![r].roles = none, ![r].pc = "validate"]
    BY <1>4, <1>0 DEF LetThrough, Request
  <2> HIDE DEF none
  <2> QED
    BY <2>1, SeenKeeps DEF PCs
<1> QED
  BY <1>1, <1>2, <1>3, <1>4, AuthoriseEffect

LEMMA CheckKeeps ==
  ASSUME TypeInv, NEW r \in Requests, Held(req[r]), Check(r)
  PROVE  Keeps(r)
<1>0. req \in [Requests -> Request] /\ req[r] \in Request
  BY DEF TypeInv, TypeOK
<1>1. CASE CheckTarget(r)
  <2> DEFINE none == <<>>
  <2>1. CASE TargetRefusal(r) # "none"
    BY <1>1, <2>1, FinishKeeps DEF CheckTarget
  <2>2. CASE TargetRefusal(r) = "none" /\ Op(r) = "detail"
    <3>1. req'[r] = [req[r] EXCEPT !.pc = "describe"]
      BY <1>1, <2>2, <1>0 DEF CheckTarget, Request
    <3>2. req' = [req EXCEPT ![r] = req'[r]]
      BY <1>1, <2>2, <1>0 DEF CheckTarget
    <3> QED
      BY <3>1, <3>2, <1>0 DEF Keeps, Held, Request
  <2>3. CASE TargetRefusal(r) = "none" /\ Op(r) # "detail"
    <3>1. req' = [req EXCEPT ![r].roles = none, ![r].pc = "write"]
      BY <1>1, <2>3, <1>0 DEF CheckTarget, Request
    <3> HIDE DEF none
    <3> QED
      BY <3>1, SeenKeeps DEF PCs
  <2> QED
    BY <2>1, <2>2, <2>3
<1>2. CASE CheckCredentials(r)
  <2>1. CASE LoginRefusal(r) # "none"
    BY <1>2, <2>1, FinishKeeps DEF CheckCredentials
  <2>2. CASE LoginRefusal(r) = "none"
    <3>1. Goto(r, "session") \/ Goto(r, "available")
      BY <1>2, <2>2 DEF CheckCredentials
    <3>2. At(r, "found")
      BY <1>2, <2>2 DEF CheckCredentials, LoginRefusal, At
    <3>3. req[r].seen.id # NoId
      BY <3>2 DEF TypeInv, RolesNormalised, At
    <3> QED
      BY <3>1, <3>3, GotoKeeps DEF PCs
  <2> QED
    BY <2>1, <2>2
<1>3. CASE CheckAvailable(r)
  <2>1. Goto(r, "session") \/ Finish(r, "disabled")
    BY <1>3 DEF CheckAvailable
  <2>2. req[r].seen.id # NoId
    BY <1>3 DEF CheckAvailable, At, Held
  <2> QED
    BY <2>1, <2>2, GotoKeeps, FinishKeeps DEF PCs
<1>4. CASE ValidateInput(r)
  <2>1. Goto(r, "count") \/ Goto(r, "query") \/ Finish(r, "roleUnavailable")
    BY <1>4 DEF ValidateInput
  <2> QED
    BY <2>1, GotoKeeps, FinishKeeps DEF PCs
<1>5. CASE CheckName(r)
  <2>1. Goto(r, "write") \/ Finish(r, "exists") \/ Finish(r, "failed")
    BY <1>5 DEF CheckName
  <2> QED
    BY <2>1, GotoKeeps, FinishKeeps DEF PCs
<1>6. CASE RejectInput(r) \/ DescribeTarget(r) \/ OpenSession(r)
  BY <1>6, FinishKeeps DEF RejectInput, DescribeTarget, OpenSession
<1> QED
  BY <1>1, <1>2, <1>3, <1>4, <1>5, <1>6 DEF Check

LEMMA HeadTail ==
  ASSUME NEW S, NEW s \in Seq(S), s # <<>>
  PROVE  /\ 1 \in DOMAIN s /\ Head(s) = s[1]
         /\ \A n \in DOMAIN Tail(s) : /\ n + 1 \in DOMAIN s
                                      /\ Tail(s)[n] = s[n + 1]
  OBVIOUS

LEMMA ListKeeps ==
  ASSUME TypeInv, NEW r \in Requests, Held(req[r]), Live \subseteq issued,
         List(r)
  PROVE  Keeps(r)
<1>0. req \in [Requests -> Request] /\ req[r] \in Request
  BY DEF TypeInv, TypeOK
<1>1. CASE CountAccounts(r)
  BY <1>1, GotoKeeps DEF CountAccounts, PCs
<1>2. CASE QueryPage(r)
  <2>1. ASSUME NEW page \in Pages(req[r].input), Listing(r),
               req' = [req EXCEPT ![r].pc = "row",
                         ![r].rows = [n \in DOMAIN page |->
                                        SnapshotOf(page[n])]]
        PROVE  Keeps(r)
    <3> DEFINE rows == [n \in DOMAIN page |-> SnapshotOf(page[n])]
    <3>1. \A n \in DOMAIN page : page[n] \in Live
      BY DEF Pages, Matching
    <3>2. \A n \in DOMAIN rows : rows[n].id \in issued
      BY <3>1 DEF SnapshotOf
    <3>3. req' = [req EXCEPT ![r].pc = "row", ![r].rows = rows]
      BY <2>1
    <3> HIDE DEF rows
    <3>4. /\ req'[r].pc = "row" /\ req'[r].seen = req[r].seen
          /\ req'[r].input = req[r].input /\ req'[r].rows = rows
          /\ \A q \in Requests \ {r} : req'[q] = req[q]
      BY <1>0, <3>3 DEF Request
    <3> QED
      BY <3>2, <3>4 DEF Keeps, Held
  <2> QED
    BY <1>2, <2>1, FinishKeeps DEF QueryPage
<1>3. CASE NextRow(r)
  <2>1. CASE req[r].rows = <<>>
    BY <1>3, <2>1, FinishKeeps DEF NextRow
  <2>2. CASE req[r].rows # <<>>
    <3> DEFINE none == <<>>
               row == Head(req[r].rows)
               rest == Tail(req[r].rows)
    <3>1. req' = [req EXCEPT ![r].pc = "bindings", ![r].roles = none,
                    ![r].seen = row, ![r].rows = rest]
      BY <1>0, <1>3, <2>2 DEF NextRow, Request
    <3>2. req[r].rows \in Seq(Listed)
      BY <1>0 DEF Request
    <3>3. row.id \in issued /\ \A n \in DOMAIN rest : rest[n].id \in issued
      BY <2>2, <3>2, HeadTail DEF Held
    <3> HIDE DEF none, row, rest
    <3>4. /\ req'[r].pc = "bindings" /\ req'[r].seen = row
          /\ req'[r].input = req[r].input /\ req'[r].rows = rest
          /\ \A q \in Requests \ {r} : req'[q] = req[q]
      BY <1>0, <3>1 DEF Request
    <3> QED
      BY <3>3, <3>4 DEF Keeps, Held
  <2> QED
    BY <2>1, <2>2
<1> QED
  BY <1>1, <1>2, <1>3 DEF List

LEMMA StepKeeps ==
  ASSUME TypeInv, NEW r \in Requests, Held(req[r]), Live \subseteq issued,
         Step(r) \/ Fail(r)
  PROVE  Keeps(r)
<1>1. CASE Fail(r)
  BY <1>1, FinishKeeps DEF Fail
<1>2. CASE Write(r)
  BY <1>2, FinishKeeps, WriteFinishes
<1> QED
  BY <1>1, <1>2, LookupKeeps, AuthoriseKeeps, CheckKeeps, ListKeeps DEF Step

\* A handler that takes a step has begun.
LEMMA StepBegun ==
  ASSUME NEW r \in Requests, Step(r) \/ Fail(r)
  PROVE  req[r].pc # "idle"
  BY DEF Step, Fail, Lookup, Authorise, Check, List, Write, QueryAccount,
         ReadBindings, ResolveRole, KeepOnlyRole, OperatorRefused,
         AnswerSuper, OperatorFound, PermitRole, MatchPermission,
         ValidateInput, RejectInput, CheckTarget, DescribeTarget, CheckName,
         CheckCredentials, CheckAvailable, OpenSession, createAccount,
         TargetGone, updateAccount, resetPassword, deleteAccount,
         CountAccounts, QueryPage, NextRow, Listing, At

-----------------------------------------------------------------------------
(* The invariant *)

Issued == Seed \in issued /\ Live \subseteq issued

\* Ids are issued once and for all.
LEMMA IssuedStep ==
  ASSUME TypeInv, Issued, [Next]_vars
  PROVE  Issued' /\ issued \subseteq issued'
<1>0. /\ account \in [Ids -> Row \cup {NoRow}] /\ NoRow \notin Row
      /\ Live \subseteq Ids
  BY ConstantsAssumption DEF TypeInv, TypeOK, Live
<1>1. CASE UNCHANGED tables \/ Prune
  BY <1>1 DEF tables, Prune, Issued, Live
<1>2. CASE Rebind \/ Recolumn
  BY <1>2 DEF Rebind, Recolumn, SameAccounts, Issued
<1>3. CASE Insert
  BY <1>0, <1>3 DEF Insert, Issued, Live
<1>4. CASE Remove
  BY <1>0, <1>4 DEF Remove, Issued, Live
<1>5. CASE Restore
  BY <1>0, <1>5 DEF Restore, Issued, Live
<1> QED
  BY <1>1, <1>2, <1>3, <1>4, <1>5, StepEffect

\* A token belongs to one store and to the account it was drawn for.
TokenOK(t) ==
  /\ redis[t] # NoSession =>
       /\ redis[t].account_id = owner[t] /\ owner[t] \in issued
       /\ project[t] = NoSession
  /\ project[t] # NoSession =>
       project[t] = owner[t] /\ owner[t] \in issued \cup {NoId}
  /\ t \in given => owner[t] # NoSession

Targets == {"update", "reset", "delete", "detail"}

\* While a token is looked up the handler has a body to work on and a token
\* that was given to a client.
Waiting(r) ==
  LET c == call[r] IN
  c.pc \in {"redis", "project", "operator"} =>
    /\ c.token \in given /\ c.body \in Bodies
    /\ c.body.op \in Targets => c.body.target \in issued

\* No project session behind a token that Redis knew.
NoSwitch(r) ==
  LET c == call[r] IN
  c.pc = "operator" \/ (c.pc = "project" /\ ~At(r, "idle"))
    => project[c.token] = NoSession

\* The request works for the account of its token.
Acts(r) ==
  LET c == call[r] IN
  c.token # NoToken /\ ~At(r, "idle") /\ ~IsLogin(r) =>
    /\ c.token \in Tokens /\ owner[c.token] # NoSession
    /\ req[r].input.operator = owner[c.token]

CallOK(r) ==
  /\ call[r].pc = "redis" => At(r, "idle")
  /\ call[r].pc = "none" => call[r].token = NoToken
  /\ call[r].pc = "expire" => /\ IsLogin(r) /\ call[r].token \in Tokens
                              /\ owner[call[r].token] # NoSession
  /\ Waiting(r) /\ NoSwitch(r) /\ Acts(r)

SessionInv ==
  /\ STypeOK /\ Issued /\ GivenTokensExpire
  /\ \A t \in Tokens : TokenOK(t)
  /\ \A r \in Requests : CallOK(r) /\ Held(req[r])

\* What no step undoes: drawn tokens keep their account, given ones stay
\* given, and no project session begins on a drawn token.
StoresGrow ==
  /\ issued \subseteq issued' /\ given \subseteq given'
  /\ \A t \in Tokens : owner[t] # NoSession =>
       /\ owner'[t] = owner[t]
       /\ project[t] = NoSession => project'[t] = NoSession

LEMMA CallFrame ==
  ASSUME SessionInv, StoresGrow, NEW q \in Requests,
         call'[q] = call[q], req'[q] = req[q]
  PROVE  CallOK(q)' /\ Held(req[q])'
<1>1. CallOK(q) /\ Held(req[q]) /\ given \subseteq Tokens
  BY DEF SessionInv, STypeOK
<1>2. \A t \in given : owner[t] # NoSession
  BY <1>1 DEF SessionInv, TokenOK
<1>3. Held(req[q])'
  BY <1>1 DEF Held, StoresGrow
<1>4. Waiting(q)'
  BY <1>1 DEF CallOK, Waiting, StoresGrow
<1>5. NoSwitch(q)'
  BY <1>1, <1>2 DEF CallOK, Waiting, NoSwitch, StoresGrow, At
<1>6. Acts(q)'
  BY <1>1 DEF CallOK, Acts, StoresGrow, At, IsLogin, Op
<1>7. CallOK(q)'
  BY <1>1, <1>4, <1>5, <1>6 DEF CallOK, At, IsLogin, Op, StoresGrow
<1> QED
  BY <1>3, <1>7

\* Steps that leave the stores of sessions alone.
LEMMA StoresSame ==
  ASSUME SessionInv, TypeInv, [Next]_vars,
         UNCHANGED <<redis, project, owner, given>>
  PROVE  /\ StoresGrow /\ Issued' /\ GivenTokensExpire'
         /\ \A t \in Tokens : TokenOK(t)'
<1>1. Issued' /\ issued \subseteq issued'
  BY IssuedStep DEF SessionInv
<1> QED
  BY <1>1 DEF SessionInv, StoresGrow, GivenTokensExpire, TokenOK

\* A step of one request.
LEMMA RequestStep ==
  ASSUME SessionInv, TypeInv, [Next]_vars, NEW r \in Requests, NEW c \in Call,
         UNCHANGED <<redis, project, owner, given>>, SetCall(r, c),
         \A q \in Requests \ {r} : req'[q] = req[q],
         CallOK(r)', Held(req[r])'
  PROVE  SessionInv'
<1>1. call \in [Requests -> Call]
  BY DEF SessionInv, STypeOK
<1>2. \A q \in Requests \ {r} : call'[q] = call[q]
  BY <1>1 DEF SetCall
<1>3. STypeOK'
  BY <1>1 DEF SessionInv, STypeOK, SetCall
<1>4. \A q \in Requests : CallOK(q)' /\ Held(req[q])'
  BY <1>2, StoresSame, CallFrame
<1> QED
  BY <1>3, <1>4, StoresSame DEF SessionInv

\* The stores alone change.
LEMMA StoreStep ==
  ASSUME SessionInv, UNCHANGED <<vars, call>>, StoresGrow,
         STypeOK', GivenTokensExpire', \A t \in Tokens : TokenOK(t)'
  PROVE  SessionInv'
<1>1. \A q \in Requests : CallOK(q)' /\ Held(req[q])'
  BY CallFrame DEF vars
<1> QED
  BY <1>1 DEF SessionInv, Issued, Live, vars

\* A request of the operator a session names is one AccountService expects.
LEMMA NamedInput ==
  ASSUME NEW body \in Bodies, NEW i \in Ids
  PROVE  /\ Named(body, i) \in Inputs /\ body \in Inputs
         /\ Named(body, i).op = body.op /\ Named(body, i).operator = i
         /\ body.op \in Targets => Named(body, i).target = body.target
         /\ body.op \notin {"login", "validate", "none"}
<1>1. body \in Inputs \ LoginInput /\ body \in Input
  BY ConstantsAssumption DEF Bodies
<1>2. Named(body, i) \in Inputs
  BY <1>1, OperatorsAssumption DEF Named
<1>3. body \in CreateInput \cup UpdateInput \cup ResetInput \cup TargetInput
                \cup OwnInput \cup ListInput
  BY <1>1 DEF Input
<1>4. /\ Named(body, i).op = body.op /\ Named(body, i).operator = i
      /\ body.op \in Targets => Named(body, i).target = body.target
      /\ body.op \notin {"login", "validate", "none"}
  <2>1. CASE body \in CreateInput \cup UpdateInput \cup ResetInput
                        \cup TargetInput \cup OwnInput
    BY <2>1 DEF CreateInput, UpdateInput, ResetInput, TargetInput, OwnInput,
                Named, Targets
  <2>2. CASE body \in ListInput
    <3> DEFINE Sizes == 1..100
               Numbers == 1..(2^(IntBits - 1) - 1)
    <3> HIDE DEF Sizes, Numbers
    <3>1. ListInput = [op : {"list"}, operator : Ids,
                       status : Statuses \cup {"any"}, keyword : SUBSET Names,
                       page : Numbers, size : Sizes]
      BY DEF ListInput, Sizes, Numbers
    <3> QED
      BY <2>2, <3>1 DEF Named, Targets
  <2> QED
    BY <1>3, <2>1, <2>2
<1> QED
  BY <1>1, <1>2, <1>4

LEMMA LookUpArrives ==
  ASSUME TypeInv, NEW r \in Requests, NEW body \in Bodies, NEW i \in issued,
         At(r, "idle"), LookUpAs(r, body, i), Held(req[r]),
         body.op \in Targets => body.target \in issued
  PROVE  /\ Start(r) /\ Held(req[r])' /\ ~At(r, "idle")' /\ ~IsLogin(r)'
         /\ req'[r].input.operator = i
         /\ \A q \in Requests \ {r} : req'[q] = req[q]
<1>0. req \in [Requests -> Request] /\ req[r] \in Request /\ i \in Ids
  BY DEF TypeInv, TypeOK
<1>1. RoomFor(body) => RoomFor(Named(body, i))
  BY <1>0, NamedInput DEF RoomFor
<1>2. Arrive(r, Named(body, i))
  BY <1>0, <1>1, NamedInput DEF Arrive, LookUpAs, Targets
<1>3. /\ req'[r].pc = "query" /\ req'[r].input = Named(body, i)
      /\ req'[r].seen = req[r].seen /\ req'[r].rows = req[r].rows
      /\ \A q \in Requests \ {r} : req'[q] = req[q]
  BY <1>0 DEF LookUpAs, Request
<1>4. Held(req'[r])
  BY <1>3 DEF Held
<1>5. issued' = issued
  BY DEF LookUpAs, tables
<1> QED
  BY <1>0, <1>2, <1>3, <1>4, <1>5, NamedInput
     DEF Start, At, IsLogin, Op, Held

-----------------------------------------------------------------------------
(* One lemma per action: it is a step of AccountService, or none, and keeps *)
(* the invariant.                                                           *)

LEMMA BeginsAsCall ==
  ASSUME TypeInv, SessionInv, NEW r \in Requests,
         NEW body \in Bodies, NEW i \in issued, NEW c \in Call,
         At(r, "idle"), LookUpAs(r, body, i), SetCall(r, c),
         body.op \in Targets => body.target \in issued,
         UNCHANGED <<redis, project, owner, given>>,
         \/ c.pc = "settled" /\ c.token = NoToken
         \/ /\ c.pc \in {"operator", "settled"}
            /\ c.token \in given /\ c.body = body /\ owner[c.token] = i
            /\ c.pc = "operator" => project[c.token] = NoSession
  PROVE  [Next]_vars /\ SessionInv'
<1>1. Held(req[r])
  BY DEF SessionInv
<1>2. /\ Start(r) /\ Held(req[r])' /\ ~At(r, "idle")' /\ ~IsLogin(r)'
      /\ req'[r].input.operator = i
      /\ \A q \in Requests \ {r} : req'[q] = req[q]
  BY <1>1, LookUpArrives
<1>3. [Next]_vars
  BY <1>2 DEF Next
<1>4. call'[r] = c /\ issued' = issued /\ given \subseteq Tokens
  BY DEF SetCall, SessionInv, STypeOK, LookUpAs, tables
<1>5. i # NoSession
  BY SessionAssumption DEF SessionInv, TypeInv, TypeOK
<1>6. Waiting(r)' /\ NoSwitch(r)' /\ Acts(r)'
  BY <1>2, <1>4, <1>5 DEF Waiting, NoSwitch, Acts
<1>7. CallOK(r)'
  BY <1>4, <1>6 DEF CallOK
<1> QED
  BY <1>2, <1>3, <1>7, RequestStep

LEMMA KnockStep ==
  ASSUME TypeInv, SessionInv, NEW r \in Requests, Knock(r)
  PROVE  [Next]_vars /\ SessionInv'
<1>0. /\ req \in [Requests -> Request] /\ call \in [Requests -> Call]
      /\ CallOK(r) /\ Held(req[r]) /\ call' = call
  BY DEF TypeInv, TypeOK, SessionInv, STypeOK, Knock, svars
<1>1. PICK input \in Inputs \cap LoginInput : Arrive(r, input)
  BY DEF Knock
<1>2. [Next]_vars
  BY <1>1 DEF Next, Start
<1>3. /\ req'[r].input = input /\ req'[r].seen = req[r].seen
      /\ req'[r].rows = req[r].rows
      /\ req'[r].pc = "query" /\ issued' = issued
      /\ \A q \in Requests \ {r} : req'[q] = req[q]
  BY <1>0, <1>1 DEF Arrive, Request, tables
<1>4. Held(req[r])' /\ IsLogin(r)'
  BY <1>0, <1>3 DEF Held, IsLogin, Op, LoginInput
<1>5. call[r].pc = "none" /\ call[r].token = NoToken
  BY <1>0 DEF Knock, Calls, CallOK
<1>6. CallOK(r)'
  BY <1>0, <1>4, <1>5 DEF CallOK, Waiting, NoSwitch, Acts
<1>7. UNCHANGED <<redis, project, owner, given>> /\ SetCall(r, call[r])
      /\ call[r] \in Call
  BY <1>0 DEF Knock, svars, SetCall
<1> QED
  BY <1>2, <1>3, <1>4, <1>6, <1>7, RequestStep

LEMMA AskStep ==
  ASSUME TypeInv, SessionInv, NEW r \in Requests, Ask(r)
  PROVE  [Next]_vars /\ SessionInv'
<1>1. PICK body \in Bodies, token \in given, pc \in {"redis", "project"} :
        /\ body.op \in Targets => body.target \in issued
        /\ SetCall(r, [pc |-> pc, token |-> token, body |-> body])
  BY DEF Ask, Targets
<1> DEFINE c == [pc |-> pc, token |-> token, body |-> body]
<1>2. /\ UNCHANGED <<vars, redis, project, owner, given>> /\ At(r, "idle")
      /\ call \in [Requests -> Call] /\ given \subseteq Tokens
      /\ CallOK(r) /\ Held(req[r])
  BY DEF Ask, SessionInv, STypeOK
<1>3. c \in Call
  BY <1>2 DEF Call, Bodies
<1>4. call'[r] = c
  BY <1>1, <1>2 DEF SetCall
<1>5. Waiting(r)' /\ NoSwitch(r)' /\ Acts(r)'
  BY <1>1, <1>2, <1>4 DEF Waiting, NoSwitch, Acts, At, vars, tables
<1>6. CallOK(r)'
  BY <1>2, <1>4, <1>5 DEF CallOK, At, vars
<1>7. Held(req[r])'
  BY <1>2 DEF Held, vars
<1>8. [Next]_vars /\ \A q \in Requests \ {r} : req'[q] = req[q]
  BY <1>2 DEF vars
<1> QED
  BY <1>1, <1>2, <1>3, <1>6, <1>7, <1>8, RequestStep

LEMMA HeaderStep ==
  ASSUME TypeInv, SessionInv, NEW r \in Requests, FromHeader(r)
  PROVE  [Next]_vars /\ SessionInv'
<1> DEFINE c == [NoCall EXCEPT !.pc = "settled"]
<1>1. PICK body \in Bodies, i \in issued :
        /\ body.op \in Targets => body.target \in issued
        /\ LookUpAs(r, body, i) /\ SetCall(r, c)
  BY DEF FromHeader, Targets
<1>2. c \in Call /\ c.pc = "settled" /\ c.token = NoToken
  BY DEF Call, NoCall
<1>3. UNCHANGED <<redis, project, owner, given>> /\ At(r, "idle")
  BY DEF FromHeader
<1> HIDE DEF c
<1> QED
  BY <1>1, <1>2, <1>3, BeginsAsCall

\* Nothing happens but that the handler turns to the project's sessions.
LEMMA TurnStep ==
  ASSUME TypeInv, SessionInv, NEW r \in Requests,
         call[r].pc \in {"redis", "operator"},
         SetCall(r, [call[r] EXCEPT !.pc = "project"]),
         UNCHANGED <<vars, redis, project, owner, given>>
  PROVE  [Next]_vars /\ SessionInv'
<1> DEFINE c == [call[r] EXCEPT !.pc = "project"]
<1>1. /\ call \in [Requests -> Call] /\ call[r] \in Call
      /\ CallOK(r) /\ Held(req[r])
  BY DEF SessionInv, STypeOK
<1>2. /\ c \in Call /\ c.pc = "project" /\ c.token = call[r].token
      /\ c.body = call[r].body
  BY <1>1 DEF Call
<1>3. call'[r] = c
  BY <1>1 DEF SetCall
<1> HIDE DEF c
<1>4. Waiting(r)' /\ NoSwitch(r)' /\ Acts(r)'
  BY <1>1, <1>2, <1>3
     DEF CallOK, Waiting, NoSwitch, Acts, At, IsLogin, Op, vars, tables
<1>5. CallOK(r)' /\ Held(req[r])'
  BY <1>1, <1>2, <1>3, <1>4 DEF CallOK, Held, vars, tables
<1>6. [Next]_vars /\ \A q \in Requests \ {r} : req'[q] = req[q]
  BY DEF vars
<1> QED
  BY <1>2, <1>5, <1>6, RequestStep DEF c

LEMMA RedisStep ==
  ASSUME TypeInv, SessionInv, NEW r \in Requests, ReadRedis(r)
  PROVE  [Next]_vars /\ SessionInv'
<1> DEFINE c == [call[r] EXCEPT !.pc = "operator"]
           t == call[r].token
           body == call[r].body
<1>1. /\ call \in [Requests -> Call] /\ call[r] \in Call
      /\ CallOK(r) /\ t \in given /\ t \in Tokens /\ TokenOK(t)
      /\ body \in Bodies /\ At(r, "idle")
      /\ body.op \in Targets => body.target \in issued
  BY DEF SessionInv, STypeOK, ReadRedis, Calls, CallOK, Waiting
<1>2. CASE /\ redis[t] # NoSession
           /\ LookUpAs(r, body, redis[t].account_id) /\ SetCall(r, c)
  <2>1. /\ redis[t].account_id \in issued /\ project[t] = NoSession
        /\ owner[t] = redis[t].account_id
    BY <1>1, <1>2 DEF TokenOK
  <2>2. /\ c \in Call /\ c.pc = "operator" /\ c.token = t
        /\ c.body = body
    BY <1>1 DEF Call
  <2>3. UNCHANGED <<redis, project, owner, given>>
    BY DEF ReadRedis
  <2> HIDE DEF c
  <2> QED
    BY <1>1, <1>2, <2>1, <2>2, <2>3, BeginsAsCall
<1>3. CASE SetCall(r, [call[r] EXCEPT !.pc = "project"]) /\ UNCHANGED vars
  BY <1>3, TurnStep DEF ReadRedis, Calls
<1> QED
  BY <1>2, <1>3 DEF ReadRedis

LEMMA ServeKeeps ==
  ASSUME TypeInv, SessionInv, NEW r \in Requests, NEW c \in Call,
         Step(r) \/ Fail(r), SetCall(r, c), c.token = call[r].token,
         UNCHANGED <<redis, project, owner, given>>,
         \/ c.pc = call[r].pc /\ c.body = call[r].body
         \/ c.pc = "settled"
  PROVE  [Next]_vars /\ SessionInv'
<1>1. /\ call \in [Requests -> Call] /\ CallOK(r) /\ Held(req[r])
      /\ Live \subseteq issued
  BY DEF SessionInv, STypeOK, Issued
<1>2. [Next]_vars
  BY DEF Next
<1>3. Keeps(r) /\ ~At(r, "idle")
  BY <1>1, StepKeeps, StepBegun DEF At
<1>4. issued \subseteq issued' /\ call'[r] = c
  BY <1>1, <1>2, IssuedStep DEF SessionInv, SetCall
<1>5. Waiting(r)' /\ NoSwitch(r)' /\ Acts(r)'
  BY <1>1, <1>3, <1>4
     DEF CallOK, Waiting, NoSwitch, Acts, At, IsLogin, Op, Keeps
<1>6. CallOK(r)' /\ Held(req[r])'
  BY <1>1, <1>3, <1>4, <1>5 DEF CallOK, At, IsLogin, Op, Keeps, Held
<1> QED
  BY <1>2, <1>3, <1>6, RequestStep DEF Keeps

LEMMA ProjectStep ==
  ASSUME TypeInv, SessionInv, NEW r \in Requests, ReadProject(r)
  PROVE  [Next]_vars /\ SessionInv'
<1> DEFINE c == [call[r] EXCEPT !.pc = "settled"]
           t == call[r].token
           body == call[r].body
<1>1. /\ call \in [Requests -> Call] /\ call[r] \in Call
      /\ CallOK(r) /\ t \in given /\ t \in Tokens /\ TokenOK(t)
      /\ body \in Bodies /\ call[r].pc = "project" /\ Held(req[r])
      /\ body.op \in Targets => body.target \in issued
      /\ UNCHANGED <<redis, project, owner, given>>
  BY DEF SessionInv, STypeOK, ReadProject, Calls, CallOK, Waiting
<1>2. c \in Call /\ c.pc = "settled" /\ c.token = t /\ c.body = body
  BY <1>1 DEF Call
<1>3. CASE ProjectNames(t) /\ LookUpAs(r, body, project[t]) /\ SetCall(r, c)
  <2>1. project[t] \in Ids /\ project[t] # NoSession
    BY <1>3, SessionAssumption DEF ProjectNames
  <2>2. project[t] = owner[t] /\ owner[t] \in issued
    BY <1>1, <2>1, ConstantsAssumption DEF TokenOK
  <2>3. At(r, "idle")
    BY <1>1, <2>1 DEF CallOK, NoSwitch
  <2> HIDE DEF c
  <2> QED
    BY <1>1, <1>2, <1>3, <2>2, <2>3, BeginsAsCall
<1>4. CASE Refuse(r) /\ At(r, "idle")
  <2>1. SetCall(r, NoCall) /\ UNCHANGED vars
    BY <1>4 DEF Refuse
  <2>2. NoCall \in Call
    BY DEF NoCall, Call
  <2>3. CallOK(r)'
    BY <1>1, <2>1
       DEF SetCall, NoCall, CallOK, Waiting, NoSwitch, Acts
  <2>4. Held(req[r])' /\ [Next]_vars
        /\ \A q \in Requests \ {r} : req'[q] = req[q]
    BY <1>1, <2>1 DEF Held, vars, tables
  <2> QED
    BY <1>1, <2>1, <2>2, <2>3, <2>4, RequestStep
<1>5. CASE Refuse(r) /\ ~At(r, "idle")
  <2>1. SetCall(r, c) /\ Fail(r)
    BY <1>5 DEF Refuse
  <2> HIDE DEF c
  <2> QED
    BY <1>1, <1>2, <2>1, ServeKeeps
<1> QED
  BY <1>3, <1>4, <1>5 DEF ReadProject

LEMMA ServingStep ==
  ASSUME TypeInv, SessionInv, NEW r \in Requests, Serve(r) \/ FailServing(r)
  PROVE  [Next]_vars /\ SessionInv'
<1>1. /\ call \in [Requests -> Call] /\ call[r] \in Call
      /\ Step(r) \/ Fail(r)
      /\ UNCHANGED <<redis, project, owner, given>> /\ SetCall(r, call[r])
  BY DEF SessionInv, STypeOK, Serve, FailServing, svars, SetCall
<1> QED
  BY <1>1, ServeKeeps

LEMMA AnswerStep ==
  ASSUME TypeInv, SessionInv, NEW r \in Requests, Answer(r)
  PROVE  [Next]_vars /\ SessionInv'
<1>1. /\ call \in [Requests -> Call] /\ req \in [Requests -> Request]
      /\ Reply(r) /\ SetCall(r, NoCall)
      /\ UNCHANGED <<redis, project, owner, given>>
  BY DEF TypeInv, TypeOK, SessionInv, STypeOK, Answer
<1>2. [Next]_vars
  BY <1>1 DEF Next
<1>3. /\ req'[r] = Idle /\ call'[r] = NoCall
      /\ \A q \in Requests \ {r} : req'[q] = req[q]
  BY <1>1 DEF Reply, SetCall
<1>4. CallOK(r)' /\ Held(req[r])'
  BY <1>3 DEF CallOK, Waiting, NoSwitch, Acts, NoCall, Held, Idle, NoSnapshot
<1>5. NoCall \in Call
  BY DEF NoCall, Call
<1> QED
  BY <1>1, <1>2, <1>3, <1>4, <1>5, RequestStep

LEMMA StoreSessionStep ==
  ASSUME TypeInv, SessionInv, NEW r \in Requests, StoreSession(r)
  PROVE  [Next]_vars /\ SessionInv'
<1> DEFINE id == req[r].seen.id
<1>0. /\ call \in [Requests -> Call] /\ CallOK(r) /\ Held(req[r])
      /\ redis \in [Tokens -> Session \cup {NoSession}]
      /\ owner \in [Tokens -> Ids \cup {NoId, NoSession}]
      /\ UNCHANGED <<vars, project, given>> /\ issued \subseteq Ids
      /\ At(r, "session") /\ Op(r) = "login"
  BY DEF SessionInv, STypeOK, StoreSession, TypeInv, TypeOK
<1>1. PICK t \in FreshTokens :
        /\ redis' = [redis EXCEPT ![t] = [account_id |-> id, ttl |-> FALSE]]
        /\ owner' = [owner EXCEPT ![t] = id]
        /\ SetCall(r, [NoCall EXCEPT !.pc = "expire", !.token = t])
  BY DEF StoreSession
<1>2. id \in issued /\ id \in Ids /\ id # NoSession
  BY <1>0, SessionAssumption DEF Held, At
<1>3. t \in Tokens /\ owner[t] = NoSession /\ TokenOK(t)
  BY DEF FreshTokens, SessionInv
<1>4. project[t] = NoSession /\ t \notin given
  BY <1>3, SessionAssumption DEF TokenOK, TypeInv, TypeOK, SessionInv, STypeOK
<1>5. StoresGrow
  BY <1>0, <1>1, <1>3 DEF StoresGrow, vars, tables
<1>6. \A u \in Tokens : TokenOK(u)'
  <2> SUFFICES ASSUME NEW u \in Tokens PROVE TokenOK(u)'
    OBVIOUS
  <2>1. CASE u = t
    BY <1>0, <1>1, <1>2, <1>3, <1>4, <2>1 DEF TokenOK, vars, tables
  <2>2. CASE u # t
    BY <1>0, <1>1, <2>2 DEF TokenOK, vars, tables, SessionInv
  <2> QED
    BY <2>1, <2>2
<1>7. GivenTokensExpire'
  BY <1>0, <1>1, <1>3, <1>4 DEF GivenTokensExpire, SessionInv, STypeOK
<1>8. /\ call'[r].pc = "expire" /\ call'[r].token = t
      /\ \A q \in Requests \ {r} : call'[q] = call[q]
      /\ call' \in [Requests -> Call]
  BY <1>0, <1>1, <1>3 DEF SetCall, NoCall, Call
<1>9. STypeOK'
  <2>1. [account_id |-> id, ttl |-> FALSE] \in Session
    BY <1>2 DEF Session
  <2> QED
    BY <1>0, <1>1, <1>2, <1>8, <2>1 DEF SessionInv, STypeOK
<1>10. CallOK(r)' /\ Held(req[r])'
  BY <1>0, <1>1, <1>2, <1>3, <1>8
     DEF CallOK, Waiting, NoSwitch, Acts, IsLogin, Op, Held, vars, tables
<1>11. \A q \in Requests : CallOK(q)' /\ Held(req[q])'
  BY <1>0, <1>5, <1>8, <1>10, CallFrame DEF vars
<1> QED
  BY <1>0, <1>6, <1>7, <1>9, <1>11 DEF SessionInv, Issued, Live, vars, tables

LEMMA ExpiryStep ==
  ASSUME TypeInv, SessionInv, NEW r \in Requests, SetExpiry(r)
  PROVE  [Next]_vars /\ SessionInv'
<1> DEFINE t == call[r].token
<1>0. /\ redis \in [Tokens -> Session \cup {NoSession}]
      /\ CallOK(r) /\ Held(req[r]) /\ Live \subseteq issued
      /\ UNCHANGED <<project, owner, call>> /\ call[r].pc = "expire"
      /\ redis' = WithTTL(t) /\ (Step(r) \/ Fail(r))
      /\ given' \in {given, given \cup {t}}
  BY DEF SessionInv, STypeOK, SetExpiry, Calls, Issued, Step, Check
<1>1. t \in Tokens /\ owner[t] # NoSession /\ IsLogin(r)
  BY <1>0 DEF CallOK
<1>2. [Next]_vars
  BY <1>0 DEF Next
<1>3. Keeps(r) /\ Issued' /\ issued \subseteq issued'
  BY <1>0, <1>2, StepKeeps, IssuedStep DEF SessionInv
<1>4. StoresGrow
  BY <1>0, <1>3 DEF StoresGrow
<1>5. /\ \A u \in Tokens \ {t} : redis'[u] = redis[u]
      /\ redis[t] = NoSession => redis'[t] = NoSession
      /\ redis[t] # NoSession =>
           /\ redis'[t].ttl /\ redis'[t].account_id = redis[t].account_id
           /\ redis'[t] \in Session
      /\ redis' \in [Tokens -> Session \cup {NoSession}]
  BY <1>0, <1>1 DEF WithTTL, Session
<1>6. \A u \in Tokens : TokenOK(u)'
  <2> SUFFICES ASSUME NEW u \in Tokens PROVE TokenOK(u)'
    OBVIOUS
  <2>1. TokenOK(u)
    BY DEF SessionInv
  <2>2. /\ redis'[u] # NoSession =>
             redis[u] # NoSession /\ redis'[u].account_id = redis[u].account_id
        /\ u \in given' => u \in given \/ u = t
    BY <1>0, <1>5
  <2> QED
    BY <1>0, <1>1, <1>3, <2>1, <2>2 DEF TokenOK
<1>7. GivenTokensExpire'
  BY <1>0, <1>5 DEF GivenTokensExpire, SessionInv, STypeOK
<1>8. STypeOK'
  BY <1>0, <1>1, <1>5 DEF SessionInv, STypeOK
<1>9. CallOK(r)' /\ Held(req[r])'
  BY <1>0, <1>1, <1>3
     DEF CallOK, Waiting, NoSwitch, Acts, IsLogin, Op, Keeps, Held
<1>10. \A q \in Requests : CallOK(q)' /\ Held(req[q])'
  BY <1>0, <1>3, <1>4, <1>9, CallFrame DEF Keeps
<1> QED
  BY <1>2, <1>3, <1>6, <1>7, <1>8, <1>10 DEF SessionInv

\* The stores and the environment of the handlers.
LEMMA StoresStep ==
  ASSUME TypeInv, SessionInv,
         SessionExpires \/ ProjectSessionBegins \/ ProjectSessionEnds
  PROVE  [Next]_vars /\ SessionInv'
<1>0. /\ redis \in [Tokens -> Session \cup {NoSession}]
      /\ project \in [Tokens -> Ids \cup {NoId, NoSession}]
      /\ owner \in [Tokens -> Ids \cup {NoId, NoSession}]
      /\ UNCHANGED <<vars, call>> /\ issued' = issued
      /\ \A t \in Tokens : TokenOK(t)
  BY DEF SessionInv, STypeOK, SessionExpires, ProjectSessionBegins,
         ProjectSessionEnds, vars, tables
<1>1. CASE SessionExpires
  <2>1. PICK t \in Tokens : redis' = [redis EXCEPT ![t] = NoSession]
    BY <1>1 DEF SessionExpires
  <2>2. UNCHANGED <<project, owner, given>>
    BY <1>1 DEF SessionExpires
  <2>3. \A u \in Tokens : TokenOK(u)'
    BY <1>0, <2>1, <2>2 DEF TokenOK
  <2>4. StoresGrow /\ STypeOK' /\ GivenTokensExpire'
    BY <1>0, <2>1, <2>2
       DEF StoresGrow, STypeOK, GivenTokensExpire, SessionInv
  <2> QED
    BY <1>0, <2>3, <2>4, StoreStep
<1>2. CASE ProjectSessionBegins
  <2>1. PICK t \in FreshTokens, i \in issued \cup {NoId} :
          /\ project' = [project EXCEPT ![t] = i]
          /\ owner' = [owner EXCEPT ![t] = i]
          /\ given' = given \cup {t}
    BY <1>2 DEF ProjectSessionBegins
  <2>2. redis' = redis
    BY <1>2 DEF ProjectSessionBegins
  <2>3. /\ t \in Tokens /\ owner[t] = NoSession /\ i # NoSession
        /\ i \in Ids \cup {NoId}
    BY SessionAssumption DEF FreshTokens, TypeInv, TypeOK
  <2>4. redis[t] = NoSession
    BY <1>0, <2>3, SessionAssumption DEF TokenOK, TypeInv, TypeOK
  <2>5. \A u \in Tokens : TokenOK(u)'
    BY <1>0, <2>1, <2>2, <2>3, <2>4 DEF TokenOK
  <2>6. StoresGrow /\ GivenTokensExpire'
    BY <1>0, <2>1, <2>2, <2>3, <2>4
       DEF StoresGrow, GivenTokensExpire, SessionInv
  <2>7. STypeOK'
    BY <1>0, <2>1, <2>2, <2>3 DEF STypeOK, SessionInv
  <2> QED
    BY <1>0, <2>5, <2>6, <2>7, StoreStep
<1>3. CASE ProjectSessionEnds
  <2>1. PICK t \in Tokens : project' = [project EXCEPT ![t] = NoSession]
    BY <1>3 DEF ProjectSessionEnds
  <2>2. UNCHANGED <<redis, owner, given>>
    BY <1>3 DEF ProjectSessionEnds
  <2>3. \A u \in Tokens : TokenOK(u)'
    BY <1>0, <2>1, <2>2 DEF TokenOK
  <2>4. StoresGrow /\ STypeOK' /\ GivenTokensExpire'
    BY <1>0, <2>1, <2>2
       DEF StoresGrow, STypeOK, GivenTokensExpire, SessionInv
  <2> QED
    BY <1>0, <2>3, <2>4, StoreStep
<1> QED
  BY <1>0, <1>1, <1>2, <1>3

LEMMA WorldStep ==
  ASSUME TypeInv, SessionInv, World
  PROVE  [Next]_vars /\ SessionInv'
<1>1. [Next]_vars
  BY DEF World, Next
<1>2. req' = req /\ UNCHANGED svars
  BY DEF World, Environment, CreateTemporaryAdmin, SweepTemporaryAdmins,
         ExpiryPasses, ChangeRole
<1>3. /\ StoresGrow /\ Issued' /\ GivenTokensExpire'
      /\ \A t \in Tokens : TokenOK(t)'
  BY <1>1, <1>2, StoresSame DEF svars
<1>4. \A q \in Requests : CallOK(q)' /\ Held(req[q])'
  BY <1>2, <1>3, CallFrame DEF svars
<1> QED
  BY <1>1, <1>2, <1>3, <1>4 DEF SessionInv, STypeOK, svars

LEMMA SessionStep ==
  ASSUME TypeInv, SessionInv, [SNext]_<<vars, svars>>
  PROVE  [Next]_vars /\ SessionInv'
<1>1. CASE UNCHANGED <<vars, svars>>
  BY <1>1 DEF SessionInv, STypeOK, Issued, Live, GivenTokensExpire, TokenOK,
       CallOK, Waiting, NoSwitch, Acts, Held, At, IsLogin, Op, vars, svars,
       tables
<1>2. ASSUME NEW r \in Requests,
             \/ Knock(r) \/ Ask(r) \/ FromHeader(r) \/ ReadRedis(r)
             \/ LookupFails(r) \/ ReadProject(r) \/ Serve(r)
             \/ FailServing(r) \/ Answer(r) \/ StoreSession(r)
             \/ SetExpiry(r)
      PROVE  [Next]_vars /\ SessionInv'
  <2>1. CASE LookupFails(r)
    BY <2>1, TurnStep DEF LookupFails, Calls
  <2> QED
    BY <1>2, <2>1, KnockStep, AskStep, HeaderStep, RedisStep, ProjectStep,
       ServingStep, AnswerStep, StoreSessionStep, ExpiryStep
<1> QED
  BY <1>1, <1>2, StoresStep, WorldStep DEF SNext

LEMMA SessionInit == SInit => SessionInv
<1> SUFFICES ASSUME SInit PROVE SessionInv
  OBVIOUS
<1>1. Issued
  BY ConstantsAssumption DEF SInit, Init, Issued, InitIds, Live
<1>2. STypeOK /\ GivenTokensExpire /\ \A t \in Tokens : TokenOK(t)
  BY DEF SInit, STypeOK, GivenTokensExpire, TokenOK, NoCall, Call
<1>3. \A r \in Requests : CallOK(r) /\ Held(req[r])
  BY DEF SInit, Init, CallOK, Waiting, NoSwitch, Acts, NoCall, Held, Idle,
         NoSnapshot
<1> QED
  BY <1>1, <1>2, <1>3 DEF SessionInv

LEMMA SessionInvariant == SSpec => [](TypeInv /\ SessionInv)
<1>1. SInit => TypeInv /\ SessionInv
  BY SessionInit, InitTypeInv DEF SInit
<1>2. TypeInv /\ SessionInv /\ [SNext]_<<vars, svars>>
        => (TypeInv /\ SessionInv)'
  BY SessionStep, NextTypeInv
<1> QED
  BY <1>1, <1>2, PTL DEF SSpec

\* Sessions with their expiry, fallback and failures are invisible to
\* AccountService: it sees requests of issued operators.
THEOREM SessionsImplement == SSpec => ImplementsAccountService
<1>1. SInit => Init
  BY DEF SInit
<1>2. TypeInv /\ SessionInv /\ [SNext]_<<vars, svars>> => [Next]_vars
  BY SessionStep
<1> QED
  BY <1>1, <1>2, SessionInvariant, PTL
     DEF SSpec, Spec, ImplementsAccountService

\* However sessions expire and look-ups fall back, a request with a token works
\* for the account of that token (currentAccountByAnySessionToken).
THEOREM TokensNameAccounts == SSpec => []TokenNamesItsAccount
<1>1. SessionInv => TokenNamesItsAccount
  BY DEF SessionInv, CallOK, Acts, TokenNamesItsAccount
<1> QED
  BY <1>1, SessionInvariant, PTL

\* A token in a client's hands has a TTL as long as its session is in Redis
\* (createSession).
THEOREM TokensExpire == SSpec => []GivenTokensExpire
<1>1. SessionInv => GivenTokensExpire
  BY DEF SessionInv
<1> QED
  BY <1>1, SessionInvariant, PTL


\* What is proved of handlers whose requests name their operators holds of
\* handlers that find them through sessions: whatever expires, fails or outlives
\* its account between two steps, names stay unique, no orphan binding is made,
\* look-ups hand over one role, deleted accounts stay deleted, bindings do not
\* multiply and no handler goes round in a circle (the handlers behind
\* currentAccountByAnySessionToken).
THEOREM SessionsKeepPromises ==
  SSpec => /\ []UniqueNames /\ []NoNewOrphans /\ []RolesNormalised
           /\ DeletedStaysDeleted /\ NoNewMultiBinding /\ HandlersAdvance
<1>1. SSpec => Spec
  BY SessionsImplement DEF ImplementsAccountService
<1> QED
  BY <1>1, NamesStayUnique, NoOrphansMade, RolesAlwaysNormalised,
     DeletedNeverReturns, BindingsNeverMultiply, HandlersNeverCircle, PTL

\* An operator found through its session changes a super administrator only as
\* a super administrator itself, or where the target is a seed that had no flag
\* when the handler looked at it.
THEOREM SessionsKeepPrivileges == SSpec => SuperAdminProtected
<1>1. SSpec => Spec
  BY SessionsImplement DEF ImplementsAccountService
<1> QED
  BY <1>1, SuperAdminsProtected, PTL

\* On a database without legacy data ordinary accounts keep their one role,
\* whatever becomes of the sessions of those who change them.
THEOREM SessionsKeepOneRole ==
  ASSUME OneRoleInitially
  PROVE  SSpec => []SingleRoleKept
<1>1. SSpec => Spec
  BY SessionsImplement DEF ImplementsAccountService
<1>2. Spec => []SingleRoleKept
  BY SingleRole
<1> QED
  BY <1>1, <1>2, PTL
=============================================================================
