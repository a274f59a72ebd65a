------------------------- MODULE AccountServiceProofs -------------------------
(***************************************************************************)
(* Theorems about AccountService for every database, every set of requests *)
(* and every set of roles.                                                 *)
(***************************************************************************)
EXTENDS AccountService, TLAPS

\* The head and the tail of a sequence of roles, and its length.
LEMMA RoleSeq ==
  ASSUME NEW S, NEW s \in Seq(S), s # <<>>
  PROVE  Head(s) \in S /\ Tail(s) \in Seq(S)
  OBVIOUS

LEMMA RoleSeqLen ==
  ASSUME NEW S, NEW s \in Seq(S)
  PROVE  /\ Len(s) = 1 => s # <<>> /\ Len(s) <= 1
         /\ s = <<>> => Len(s) <= 1
<1>1. ASSUME Len(s) = 1 PROVE s # <<>> /\ Len(s) <= 1
  BY <1>1
<1>2. ASSUME s = <<>> PROVE Len(s) <= 1
  BY <1>2
<1> QED
  BY <1>1, <1>2

LEMMA RoleSeqOne ==
  ASSUME NEW S, NEW s \in Seq(S), s # <<>>, Len(s) <= 1
  PROVE  Len(s) = 1
<1>1. PICK n \in Nat : n = Len(s)
  OBVIOUS
<1>2. n # 0
  BY <1>1
<1>3. n <= 1
  BY <1>1
<1>4. n = 1
  BY <1>2, <1>3
<1> QED
  BY <1>1, <1>4

LEMMA OneNotEmpty ==
  ASSUME NEW S, NEW s \in Seq(S), Len(s) = 1
  PROVE  s # <<>>
<1> SUFFICES ASSUME s = <<>> PROVE FALSE
  OBVIOUS
<1>1. Len(s) = 0
  OBVIOUS
<1> QED
  BY <1>1

\* An idle request and every final answer are well-formed.
LEMMA IdleType == Idle \in Request
  BY ConstantsAssumption
     DEF Idle, Request, PCs, Snapshot, NoSnapshot, Outcomes, Hashes, Statuses,
         Listed

LEMMA FinishType ==
  ASSUME TypeOK, NEW r \in Requests, NEW o \in Outcomes, Finish(r, o)
  PROVE  req' \in [Requests -> Request]
<1> USE ConstantsAssumption
<1>1. req[r] \in Request
  BY DEF TypeOK
<1>2. [Idle EXCEPT !.pc = "done", !.input = req[r].input,
         !.operator = req[r].operator, !.isSuper = req[r].isSuper,
         !.outcome = o] \in Request
  BY <1>1, IdleType DEF Request, PCs
<1> QED
  BY <1>2 DEF TypeOK, Finish

LEMMA GotoType ==
  ASSUME TypeOK, NEW r \in Requests, NEW pc \in PCs, Goto(r, pc)
  PROVE  req' \in [Requests -> Request]
  BY ZenonT(30) DEF TypeOK, Goto, Request

\* A snapshot of a live row is well-formed.
LEMMA SnapshotType ==
  ASSUME TypeOK, NEW i \in Live
  PROVE  SnapshotOf(i) \in Snapshot
<1>1. i \in Ids /\ account[i] \in Row
  BY DEF Live, TypeOK
<1> QED
  BY <1>1 DEF SnapshotOf, Snapshot, Row
-----------------------------------------------------------------------------
(* Type correctness, with what normalizeAccountRoles guarantees            *)

TypeInv == TypeOK /\ RolesNormalised

LEMMA InitTypeInv == Init => TypeInv
<1> SUFFICES ASSUME Init PROVE TypeInv
  OBVIOUS
<1> USE ConstantsAssumption, TablesAssumption
<1>1. TypeOK
  BY IdleType DEF Init, TypeOK, InitIds, RoleState
<1>2. RolesNormalised
  BY DEF Init, RolesNormalised, At, Idle
<1> QED
  BY <1>1, <1>2 DEF TypeInv

\* A step that only finishes a request.
LEMMA FinishInv ==
  ASSUME TypeInv, NEW r \in Requests, NEW o \in Outcomes, Finish(r, o)
  PROVE  RolesNormalised'
  BY DEF TypeInv, TypeOK, RolesNormalised, Finish, At, Idle

\* The lookup steps.
LEMMA LookupInv ==
  ASSUME TypeInv, NEW r \in Requests, Lookup(r)
  PROVE  TypeInv'
<1> USE ConstantsAssumption
<1>0. req[r] \in Request /\ TypeOK
  BY DEF TypeInv, TypeOK
<1>1. CASE QueryAccount(r)
  <2>1. UNCHANGED <<tables, roleState>>
    BY <1>1 DEF QueryAccount
  <2>2. CASE \E i \in Wanted(r) :
               req' = [req EXCEPT ![r].pc = "bindings",
                                  ![r].seen = SnapshotOf(i)]
    <3>1. PICK i \in Wanted(r) :
            req' = [req EXCEPT ![r].pc = "bindings", ![r].seen = SnapshotOf(i)]
      BY <2>2
    <3>2. i \in Live
      BY DEF Wanted
    <3>3. SnapshotOf(i) \in Snapshot
      BY <3>2, <1>0, SnapshotType
    <3>4. req' \in [Requests -> Request]
      BY <3>1, <3>3, <1>0 DEF TypeOK, Request, PCs
    <3>5. RolesNormalised'
      <4>1. SnapshotOf(i).id # NoId
        BY <3>2 DEF SnapshotOf, Live
      <4> QED
        BY <4>1, <3>1, <1>0 DEF TypeInv, TypeOK, RolesNormalised, At
    <3> QED
      BY <3>4, <3>5, <2>1, <1>0 DEF TypeInv, TypeOK, tables
  <2>3. CASE Goto(r, "absent")
    <3>1. req' \in [Requests -> Request]
      BY <2>3, <1>0, GotoType DEF PCs
    <3>2. RolesNormalised'
      BY <2>3, <1>0 DEF TypeInv, TypeOK, RolesNormalised, At, Goto
    <3> QED
      BY <3>1, <3>2, <2>1, <1>0 DEF TypeInv, TypeOK, tables
  <2> QED
    BY <1>1, <2>2, <2>3 DEF QueryAccount
<1>2. CASE ReadBindings(r)
  <2> DEFINE ids == bindings[req[r].seen.id]
             pc == CASE Len(ids) = 0 -> Unbound(r)
                     [] Len(ids) = 1 -> "found"
                     [] OTHER -> "resolve"
  <2>1. /\ req[r].seen.id # NoId
        /\ ids \in Seq(Roles) /\ Len(ids) \in Nat
        /\ ids = <<>> <=> Len(ids) = 0
    <3>1. At(r, "bindings")
      BY <1>2 DEF ReadBindings
    <3>2. req[r].seen.id # NoId /\ req[r].seen.id \in Ids
      BY <3>1, <1>0 DEF At, TypeInv, RolesNormalised, Request, Snapshot
    <3>3. ids \in Seq(Roles)
      BY <3>2, <1>0 DEF TypeOK
    <3> QED
      BY <3>2, <3>3
  <2>2. /\ At(r, "bindings") /\ UNCHANGED <<tables, roleState>>
        /\ req' = [req EXCEPT ![r].roles = ids, ![r].pc = pc]
    BY <1>2 DEF ReadBindings
  <2> HIDE DEF ids
  <2>3. /\ pc \in {"found", "unbound", "resolve"}
        /\ pc = "found" => /\ Len(ids) <= 1
                           /\ ids = <<>> => req[r].seen.is_super_admin
        /\ pc = "resolve" => ids # <<>>
    <3>1. CASE Len(ids) = 0
      BY <2>1, <3>1 DEF Unbound
    <3>2. CASE Len(ids) = 1
      BY <2>1, <3>2
    <3>3. CASE Len(ids) # 0 /\ Len(ids) # 1
      BY <2>1, <3>3
    <3> QED
      BY <3>1, <3>2, <3>3
  <2> HIDE DEF pc
  <2>4. req' \in [Requests -> Request]
    BY <2>1, <2>2, <2>3, <1>0 DEF TypeOK, Request, PCs
  <2>5. RolesNormalised'
    <3>1. req'[r].pc = pc /\ req'[r].roles = ids /\ req'[r].seen = req[r].seen
      BY <2>2, <1>0 DEF TypeOK, Request
    <3>2. \A q \in Requests \ {r} : req'[q] = req[q]
      BY <2>2, <1>0 DEF TypeOK
    <3> QED
      BY <2>1, <2>3, <3>1, <3>2, <1>0 DEF TypeInv, RolesNormalised, At
  <2> QED
    BY <2>2, <2>4, <2>5, <1>0 DEF TypeInv, TypeOK, tables
<1>3. CASE ResolveRole(r)
  <2> DEFINE ids == req[r].roles
  <2>0. /\ ids \in Seq(Roles) /\ ids # <<>>
        /\ req[r].seen.id # NoId
    <3>1. At(r, "resolve")
      BY <1>3 DEF ResolveRole
    <3> QED
      BY <3>1, <1>0 DEF At, TypeInv, RolesNormalised, Request
  <2>1. /\ ids \in Seq(Roles) /\ req[r].seen.id # NoId
        /\ Head(ids) \in Roles /\ Tail(ids) \in Seq(Roles)
    <3> HIDE DEF ids
    <3> QED
      BY <2>0, RoleSeq
  <2>2. At(r, "resolve") /\ UNCHANGED <<tables, roleState>>
    BY <1>3 DEF ResolveRole
  <2>3. CASE roleState[Head(ids)].enabled
    <3> DEFINE one == <<Head(ids)>>
    <3>1. req' = [req EXCEPT ![r].roles = one, ![r].pc = "keep"]
      BY <1>3, <2>3 DEF ResolveRole
    <3>2. one \in Seq(Roles) /\ Len(one) = 1
      BY <2>1
    <3> HIDE DEF one, ids
    <3>3. req' \in [Requests -> Request]
      BY <3>1, <3>2, <1>0 DEF TypeOK, Request, PCs
    <3>4. RolesNormalised'
      <4>1. /\ req'[r].pc = "keep" /\ req'[r].roles = one
            /\ req'[r].seen = req[r].seen
        BY <3>1, <1>0 DEF TypeOK, Request
      <4>2. \A q \in Requests \ {r} : req'[q] = req[q]
        BY <3>1, <1>0 DEF TypeOK
      <4> QED
        BY <2>1, <3>2, <4>1, <4>2 DEF TypeInv, RolesNormalised, At
    <3> QED
      BY <2>2, <3>3, <3>4, <1>0 DEF TypeInv, TypeOK, tables
  <2>4. CASE ~roleState[Head(ids)].enabled
    <3> DEFINE rest == Tail(ids)
               pc == IF rest # <<>> THEN "resolve" ELSE Unbound(r)
    <3>1. req' = [req EXCEPT ![r].roles = rest, ![r].pc = pc]
      BY <1>3, <2>4 DEF ResolveRole
    <3>2. /\ rest \in Seq(Roles) /\ pc \in {"resolve", "found", "unbound"}
          /\ pc = "resolve" => rest # <<>>
          /\ pc = "found" => /\ rest = <<>> /\ Len(rest) <= 1
                             /\ req[r].seen.is_super_admin
      <4>1. rest \in Seq(Roles)
        BY <2>1
      <4> HIDE DEF rest
      <4> QED
        BY <4>1, RoleSeqLen DEF Unbound
    <3> HIDE DEF rest, pc, ids
    <3>3. req' \in [Requests -> Request]
      BY <3>1, <3>2, <1>0 DEF TypeOK, Request, PCs
    <3>4. RolesNormalised'
      <4>1. /\ req'[r].pc = pc /\ req'[r].roles = rest
            /\ req'[r].seen = req[r].seen
        BY <3>1, <1>0 DEF TypeOK, Request
      <4>2. \A q \in Requests \ {r} : req'[q] = req[q]
        BY <3>1, <1>0 DEF TypeOK
      <4> QED
        BY <2>1, <3>2, <4>1, <4>2 DEF TypeInv, RolesNormalised, At
    <3> QED
      BY <2>2, <3>3, <3>4, <1>0 DEF TypeInv, TypeOK, tables
  <2> QED
    BY <2>3, <2>4
<1>4. CASE KeepOnlyRole(r)
  <2>1. /\ At(r, "keep") /\ Goto(r, "found")
        /\ UNCHANGED <<account, issued, roleState>>
    BY <1>4 DEF KeepOnlyRole
  <2>2. req' \in [Requests -> Request]
    BY <2>1, <1>0, GotoType DEF PCs
  <2>3. RolesNormalised'
    <3>1. /\ Len(req[r].roles) = 1 /\ req[r].roles \in Seq(Roles)
          /\ req[r].seen.id # NoId
      BY <2>1, <1>0 DEF TypeInv, RolesNormalised, At, Request
    <3>2. Len(req[r].roles) <= 1 /\ req[r].roles # <<>>
      BY <3>1, RoleSeqLen
    <3>3. /\ req'[r].pc = "found" /\ req'[r].roles = req[r].roles
          /\ req'[r].seen = req[r].seen
      BY <2>1, <1>0 DEF TypeOK, Request, Goto
    <3>4. \A q \in Requests \ {r} : req'[q] = req[q]
      BY <2>1, <1>0 DEF TypeOK, Goto
    <3> QED
      BY <3>1, <3>2, <3>3, <3>4 DEF TypeInv, RolesNormalised, At
  <2>4. \A ids \in Seq(Roles) : \A role : KeepOnly(ids, role) \in Seq(Roles)
    BY DEF KeepOnly
  <2>5. bindings' \in [Ids -> Seq(Roles)]
    BY <1>4, <2>4, <1>0 DEF KeepOnlyRole, TypeOK
  <2> QED
    BY <2>1, <2>2, <2>3, <2>5, <1>0 DEF TypeInv, TypeOK
<1> QED
  BY <1>1, <1>2, <1>3, <1>4 DEF Lookup

\* A step that only finishes a request, or only moves its control.
LEMMA FinishTypeInv ==
  ASSUME TypeInv, NEW r \in Requests, NEW o \in Outcomes, Finish(r, o),
         UNCHANGED <<tables, roleState>>
  PROVE  TypeInv'
<1>1. req' \in [Requests -> Request] /\ RolesNormalised'
  BY FinishType, FinishInv DEF TypeInv
<1> QED
  BY <1>1 DEF TypeInv, TypeOK, tables

LEMMA GotoInv ==
  ASSUME TypeInv, NEW r \in Requests, Goto(r, "match") \/ Goto(r, "available"),
         Len(req[r].roles) = 1
  PROVE  req' \in [Requests -> Request] /\ RolesNormalised'
<1>1. req' \in [Requests -> Request]
  BY GotoType DEF TypeInv, PCs
<1>2. /\ req'[r].pc \in {"match", "available"}
      /\ req'[r].roles = req[r].roles
      /\ \A q \in Requests \ {r} : req'[q] = req[q]
  BY DEF Goto, TypeInv, TypeOK, Request
<1> QED
  BY <1>1, <1>2 DEF TypeInv, RolesNormalised, At

LEMMA GotoPlainInv ==
  ASSUME TypeInv, NEW r \in Requests,
         NEW pc \in {"query", "write", "session", "describe", "validate",
                     "count", "page"},
         Goto(r, pc)
  PROVE  req' \in [Requests -> Request] /\ RolesNormalised'
<1>1. req' \in [Requests -> Request]
  BY GotoType DEF TypeInv, PCs
<1>2. /\ req'[r].pc = pc
      /\ \A q \in Requests \ {r} : req'[q] = req[q]
  BY DEF Goto, TypeInv, TypeOK, Request
<1> QED
  BY <1>1, <1>2 DEF TypeInv, RolesNormalised, At

\* The permission was found: the handler goes on without the operator's role.
LetThrough(r) ==
  /\ At(r, "match")
  /\ req' = [req EXCEPT ![r].pc = "validate", ![r].roles = <<>>]

\* Authorisation writes nothing and answers, remembers the operator, asks for
\* the permission or lets the request through.
LEMMA AuthoriseEffect ==
  ASSUME NEW r \in Requests, Authorise(r)
  PROVE  /\ UNCHANGED <<tables, roleState>>
         /\ \/ \E o \in Outcomes : Finish(r, o)
            \/ OperatorFound(r)
            \/ At(r, "permit") /\ Goto(r, "match")
            \/ LetThrough(r)
<1>1. CASE OperatorRefused(r)
  BY <1>1 DEF OperatorRefused, OperatorRefusal, Outcomes
<1>2. CASE AnswerSuper(r)
  BY <1>2 DEF AnswerSuper, Outcomes
<1>3. CASE OperatorFound(r)
  BY <1>3 DEF OperatorFound
<1>4. CASE PermitRole(r)
  BY <1>4 DEF PermitRole, RoleDisabled, Outcomes
<1>5. CASE MatchPermission(r)
  BY <1>5 DEF MatchPermission, RoleDisabled, Outcomes, LetThrough
<1> QED
  BY <1>1, <1>2, <1>3, <1>4, <1>5 DEF Authorise

\* requireAccountManageToken.
LEMMA AuthoriseInv ==
  ASSUME TypeInv, NEW r \in Requests, Authorise(r)
  PROVE  TypeInv'
<1>0. req[r] \in Request /\ TypeOK
  BY DEF TypeInv, TypeOK
<1>1. ASSUME NEW o \in Outcomes, Finish(r, o) PROVE TypeInv'
  BY <1>1, FinishTypeInv, AuthoriseEffect
<1>2. CASE OperatorFound(r)
  <2> DEFINE seen == req[r].seen
             roles == IF seen.is_super_admin THEN <<>> ELSE req[r].roles
             pc == IF seen.is_super_admin THEN "validate" ELSE "permit"
  <2>1. /\ At(r, "found") /\ UNCHANGED <<tables, roleState>>
        /\ req' = [req EXCEPT ![r].operator = seen.id,
                     ![r].isSuper = seen.is_super_admin,
                     ![r].seen = NoSnapshot, ![r].roles = roles, ![r].pc = pc]
    BY <1>2, <1>0 DEF OperatorFound, TypeOK, Request
  <2>2. /\ seen \in Snapshot /\ NoSnapshot \in Snapshot
        /\ roles \in Seq(Roles) /\ pc \in PCs
    BY <1>0 DEF Request, Snapshot, NoSnapshot, PCs, Hashes, Statuses
  <2>3. pc = "permit" => Len(roles) = 1
    <3>1. ASSUME ~seen.is_super_admin PROVE Len(req[r].roles) = 1
      <4>1. /\ req[r].roles \in Seq(Roles) /\ req[r].roles # <<>>
            /\ Len(req[r].roles) <= 1
        BY <2>1, <3>1, <1>0 DEF TypeInv, RolesNormalised, At, Request
      <4> QED
        BY <4>1, RoleSeqOne
    <3> QED
      BY <3>1
  <2>4. pc \in {"permit", "validate"} /\ seen.id \in Ids \cup {NoId}
        /\ seen.is_super_admin \in BOOLEAN
    BY <2>2 DEF Snapshot
  <2> HIDE DEF roles, pc, seen
  <2>5. req' \in [Requests -> Request]
    BY <2>1, <2>2, <2>4, <1>0 DEF TypeOK, Request
  <2>6. RolesNormalised'
    <3>1. /\ req'[r].pc = pc /\ req'[r].roles = roles
          /\ \A q \in Requests \ {r} : req'[q] = req[q]
      BY <2>1, <1>0 DEF TypeOK, Request
    <3> QED
      BY <2>3, <2>4, <3>1 DEF TypeInv, RolesNormalised, At
  <2> QED
    BY <2>1, <2>5, <2>6, <1>0 DEF TypeInv, TypeOK, tables
<1>3. CASE At(r, "permit") /\ Goto(r, "match")
  <2>1. Len(req[r].roles) = 1
    BY <1>3, <1>0 DEF At, TypeInv, RolesNormalised
  <2> QED
    BY <1>3, <2>1, GotoInv, AuthoriseEffect DEF TypeInv, TypeOK, tables
<1>4. CASE LetThrough(r)
  <2>1. req' \in [Requests -> Request]
    <3> DEFINE none == <<>>
    <3>1. none \in Seq(Roles)
      OBVIOUS
    <3>2. req' = [req EXCEPT ![r].pc = "validate", ![r].roles = none]
      BY <1>4 DEF LetThrough
    <3> HIDE DEF none
    <3> QED
      BY <3>1, <3>2, <1>0 DEF TypeOK, Request, PCs
  <2>2. /\ req'[r].pc = "validate"
        /\ \A q \in Requests \ {r} : req'[q] = req[q]
    BY <1>4, <1>0 DEF TypeOK, Request, LetThrough
  <2>3. RolesNormalised'
    BY <2>2 DEF TypeInv, RolesNormalised, At
  <2> QED
    BY <2>1, <2>3, <1>0, AuthoriseEffect DEF TypeInv, TypeOK, tables
<1> QED
  BY <1>1, <1>2, <1>3, <1>4, AuthoriseEffect

\* The checks of the handlers, and Fail, Reply and Start.
LEMMA CheckInv ==
  ASSUME TypeInv, NEW r \in Requests, Check(r)
  PROVE  TypeInv'
<1>0. /\ req[r] \in Request /\ TypeOK
      /\ UNCHANGED <<tables, roleState>>
  BY DEF TypeInv, TypeOK, Check, ValidateInput, RejectInput, CheckTarget,
         DescribeTarget, CheckName, CheckCredentials, CheckAvailable,
         OpenSession
<1>1. ASSUME NEW o \in Outcomes, Finish(r, o) PROVE TypeInv'
  BY <1>0, <1>1, FinishTypeInv
<1>2. ASSUME req' \in [Requests -> Request], RolesNormalised' PROVE TypeInv'
  BY <1>0, <1>2 DEF TypeInv, TypeOK, tables
<1>3. CASE ValidateInput(r)
  BY <1>1, <1>2, <1>3, GotoPlainInv DEF ValidateInput, Outcomes
<1>4. CASE RejectInput(r)
  BY <1>1, <1>4 DEF RejectInput, Outcomes
<1>5. CASE CheckTarget(r)
  <2>1. CASE TargetRefusal(r) # "none"
    <3>1. /\ TargetRefusal(r) \in Outcomes
          /\ Finish(r, TargetRefusal(r))
      BY <1>5, <2>1 DEF CheckTarget, TargetRefusal, Outcomes
    <3> QED
      BY <1>1, <3>1
  <2>2. CASE TargetRefusal(r) = "none"
    <3> DEFINE pc == IF Op(r) = "detail" THEN "describe" ELSE "write"
               none == <<>>
               roles == IF Op(r) = "detail" THEN req[r].roles ELSE none
    <3>1. req' = [req EXCEPT ![r].pc = pc, ![r].roles = roles]
      BY <1>5, <2>2, <1>0 DEF CheckTarget, TypeOK, Request
    <3>2. none \in Seq(Roles)
      OBVIOUS
    <3> HIDE DEF none
    <3>3. pc \in {"describe", "write"} /\ roles \in Seq(Roles)
      BY <3>2, <1>0 DEF Request
    <3> HIDE DEF pc, roles
    <3>4. req' \in [Requests -> Request]
      BY <3>1, <3>3, <1>0 DEF TypeOK, Request, PCs
    <3>5. /\ req'[r].pc = pc
          /\ \A q \in Requests \ {r} : req'[q] = req[q]
      BY <3>1, <1>0 DEF TypeOK, Request
    <3>6. RolesNormalised'
      BY <3>3, <3>5 DEF TypeInv, RolesNormalised, At
    <3> QED
      BY <1>2, <3>4, <3>6
  <2> QED
    BY <2>1, <2>2
<1>6. CASE DescribeTarget(r)
  BY <1>1, <1>6 DEF DescribeTarget, Outcomes
<1>7. CASE CheckName(r)
  BY <1>1, <1>2, <1>7, GotoPlainInv DEF CheckName, Outcomes
<1>8. CASE CheckCredentials(r)
  <2>1. CASE LoginRefusal(r) # "none"
    <3>1. LoginRefusal(r) \in Outcomes /\ Finish(r, LoginRefusal(r))
      BY <1>8, <2>1 DEF CheckCredentials, LoginRefusal, Outcomes
    <3> QED
      BY <1>1, <3>1
  <2>2. CASE LoginRefusal(r) = "none" /\ req[r].roles = <<>>
    BY <1>2, <1>8, <2>2, GotoPlainInv DEF CheckCredentials
  <2>3. CASE LoginRefusal(r) = "none" /\ req[r].roles # <<>>
    <3>1. At(r, "found") /\ Goto(r, "available")
      BY <1>8, <2>3 DEF CheckCredentials, LoginRefusal, At
    <3>2. /\ req[r].roles \in Seq(Roles) /\ req[r].roles # <<>>
          /\ Len(req[r].roles) <= 1
      BY <3>1, <2>3, <1>0 DEF TypeInv, RolesNormalised, Request
    <3>3. Len(req[r].roles) = 1
      BY <3>2, RoleSeqOne
    <3> QED
      BY <1>2, <3>1, <3>3, GotoInv
  <2> QED
    BY <2>1, <2>2, <2>3
<1>9. CASE CheckAvailable(r)
  BY <1>1, <1>2, <1>9, GotoPlainInv DEF CheckAvailable, Outcomes
<1>10. CASE OpenSession(r)
  BY <1>1, <1>10 DEF OpenSession, Outcomes
<1> QED
  BY <1>3, <1>4, <1>5, <1>6, <1>7, <1>8, <1>9, <1>10 DEF Check

\* The operation of an input tells its kind.
LEMMA OpKinds ==
  ASSUME NEW input \in Input \cup {NoInput}
  PROVE  /\ input.op = "create" => input \in CreateInput
         /\ input.op = "update" => input \in UpdateInput
         /\ input.op = "reset" => input \in ResetInput
         /\ input.op = "delete" => input \in TargetInput
         /\ input.op = "list" => input \in ListInput
<1>1. /\ input \in LoginInput => input.op \in {"login", "validate"}
      /\ input \in CreateInput => input.op = "create"
      /\ input \in UpdateInput => input.op = "update"
      /\ input \in ResetInput => input.op = "reset"
      /\ input \in TargetInput => input.op \in {"delete", "detail"}
      /\ input \in OwnInput => input.op \in {"me", "check"}
      /\ input = NoInput => input.op = "none"
  BY DEF LoginInput, CreateInput, UpdateInput, ResetInput, TargetInput,
         OwnInput, NoInput
<1>2. input \in ListInput => input.op = "list"
  <2> DEFINE Sizes == 1..100
             Numbers == 1..(2^(IntBits - 1) - 1)
  <2> HIDE DEF Sizes, Numbers
  <2>1. ListInput = [op : {"list"}, operator : Ids,
                     status : Statuses \cup {"any"}, keyword : SUBSET Names,
                     page : Numbers, size : Sizes]
    BY DEF ListInput, Sizes, Numbers
  <2> QED
    BY <2>1
<1> QED
  BY <1>1, <1>2 DEF Input

LEMMA InputKnown ==
  ASSUME TypeOK, NEW r \in Requests
  PROVE  req[r].input \in Input \cup {NoInput}
BY ConstantsAssumption DEF TypeOK, Request

\* A page of accounts is a sequence of rows, each with its id.
LEMMA PageType ==
  ASSUME TypeOK, NEW r \in Requests, Op(r) = "list",
         NEW page \in Pages(req[r].input)
  PROVE  [n \in DOMAIN page |-> SnapshotOf(page[n])] \in Seq(Listed)
<1> DEFINE input == req[r].input
<1>1. input \in ListInput
  <2>1. req[r].input \in Input \cup {NoInput}
    BY InputKnown
  <2> QED
    BY <2>1, OpKinds DEF Op
<1>2. input.size \in Nat
  BY <1>1 DEF ListInput
<1>3. PICK n \in Nat : page \in [1..n -> Matching(input)]
  BY <1>2 DEF Pages
<1>4. \A i \in Matching(input) : SnapshotOf(i) \in Listed
  <2>1. \A i \in Matching(input) : i \in Live /\ i \in Ids
    BY DEF Matching, Live
  <2> QED
    BY <2>1, SnapshotType, ConstantsAssumption DEF Listed, SnapshotOf
<1> DEFINE rows == [m \in DOMAIN page |-> SnapshotOf(page[m])]
<1> HIDE DEF input
<1>5. rows \in [1..n -> Listed]
  BY <1>3, <1>4
<1> QED
  BY <1>5

\* The page of a list and its rows.
LEMMA ListInv ==
  ASSUME TypeInv, NEW r \in Requests, List(r)
  PROVE  TypeInv'
<1>0. /\ req[r] \in Request /\ TypeOK
      /\ UNCHANGED <<tables, roleState>>
  BY DEF TypeInv, TypeOK, List, CountAccounts, QueryPage, NextRow
<1>1. ASSUME NEW o \in Outcomes, Finish(r, o) PROVE TypeInv'
  BY <1>0, <1>1, FinishTypeInv
<1>2. ASSUME req' \in [Requests -> Request], RolesNormalised' PROVE TypeInv'
  BY <1>0, <1>2 DEF TypeInv, TypeOK, tables
<1>3. CASE CountAccounts(r)
  BY <1>2, <1>3, GotoPlainInv DEF CountAccounts
<1>4. CASE QueryPage(r) /\ ~Finish(r, "failed")
  <2>1. PICK page \in Pages(req[r].input) :
          req' = [req EXCEPT ![r].pc = "row",
                    ![r].rows = [n \in DOMAIN page |-> SnapshotOf(page[n])]]
    BY <1>4 DEF QueryPage
  <2> DEFINE rows == [n \in DOMAIN page |-> SnapshotOf(page[n])]
  <2>2. At(r, "page")
    BY <1>4 DEF QueryPage
  <2>3. Op(r) = "list"
    BY <1>4 DEF QueryPage, Listing
  <2>4. rows \in Seq(Listed)
    BY <2>3, <1>0, PageType
  <2> HIDE DEF rows
  <2>5. req' \in [Requests -> Request]
    BY <2>1, <2>4, <1>0 DEF TypeOK, Request, PCs, rows
  <2>6. /\ req'[r].pc = "row"
        /\ \A q \in Requests \ {r} : req'[q] = req[q]
    BY <2>1, <1>0 DEF TypeOK, Request
  <2>7. RolesNormalised'
    BY <2>6 DEF TypeInv, RolesNormalised, At
  <2> QED
    BY <1>2, <2>5, <2>7
<1>5. CASE NextRow(r) /\ ~Finish(r, "ok")
  <2> DEFINE rows == req[r].rows
             none == <<>>
             row == Head(rows)
             rest == Tail(rows)
  <2>1. /\ rows # <<>>
        /\ req' = [req EXCEPT ![r].pc = "bindings", ![r].roles = none,
                     ![r].seen = row, ![r].rows = rest]
    BY <1>5, <1>0 DEF NextRow, TypeOK, Request
  <2>2. rows \in Seq(Listed) /\ none \in Seq(Roles)
    BY <1>0 DEF Request
  <2> HIDE DEF rows
  <2>3. row \in Listed /\ rest \in Seq(Listed)
    BY <2>1, <2>2, RoleSeq
  <2>4. row \in Snapshot /\ row.id # NoId
    BY <2>3 DEF Listed
  <2> HIDE DEF row, rest, none
  <2>5. req' \in [Requests -> Request]
    BY <2>1, <2>2, <2>3, <2>4, <1>0 DEF TypeOK, Request, PCs
  <2>6. /\ req'[r].pc = "bindings" /\ req'[r].seen = row
        /\ \A q \in Requests \ {r} : req'[q] = req[q]
    BY <2>1, <1>0 DEF TypeOK, Request
  <2>7. RolesNormalised'
    BY <2>4, <2>6 DEF TypeInv, RolesNormalised, At
  <2> QED
    BY <1>2, <2>5, <2>7
<1> QED
  BY <1>1, <1>3, <1>4, <1>5 DEF List, QueryPage, NextRow, Outcomes

LEMMA FrameInv ==
  ASSUME TypeInv, NEW r \in Requests, Start(r) \/ Fail(r) \/ Reply(r)
  PROVE  TypeInv'
<1> USE ConstantsAssumption
<1>0. req[r] \in Request /\ TypeOK
  BY DEF TypeInv, TypeOK
<1>1. CASE Start(r)
  <2>1. PICK input \in Inputs :
          req' = [req EXCEPT ![r].pc = "query", ![r].input = input]
    BY <1>1 DEF Start, Arrive
  <2>2. req' \in [Requests -> Request]
    BY <2>1, <1>0 DEF TypeOK, Request, PCs
  <2>3. /\ req'[r].pc = "query"
        /\ \A q \in Requests \ {r} : req'[q] = req[q]
    BY <2>1, <1>0 DEF TypeOK, Request
  <2>4. RolesNormalised'
    BY <2>3 DEF TypeInv, RolesNormalised, At
  <2> QED
    BY <1>1, <2>2, <2>4, <1>0 DEF Start, Arrive, TypeInv, TypeOK, tables
<1>2. CASE Fail(r)
  BY <1>2, FinishTypeInv DEF Fail, Outcomes
<1>3. CASE Reply(r)
  <2>1. req' = [req EXCEPT ![r] = Idle]
    BY <1>3 DEF Reply
  <2>2. req' \in [Requests -> Request]
    BY <2>1, <1>0, IdleType DEF TypeOK
  <2>3. RolesNormalised'
    BY <2>1, <1>0 DEF TypeInv, TypeOK, RolesNormalised, At, Idle
  <2> QED
    BY <1>3, <2>2, <2>3, <1>0 DEF Reply, TypeInv, TypeOK, tables
<1> QED
  BY <1>1, <1>2, <1>3

\* A new row, and a row with one column changed, is a row.
LEMMA RowType ==
  /\ \A input \in CreateInput : NewRow(input) \in Row
  /\ \A row \in Row, st \in Statuses : [row EXCEPT !.status = st] \in Row
  /\ \A row \in Row, p \in Passwords :
       [row EXCEPT !.password_hash = hashPassword(p)] \in Row
<1>1. \A p \in Passwords : hashPassword(p) \in Hashes
  BY DEF Hashes
<1>2. \A input \in CreateInput : NewRow(input) \in Row
  BY <1>1 DEF CreateInput, NewRow, Row, Statuses
<1>3. \A row \in Row, st \in Statuses : [row EXCEPT !.status = st] \in Row
  BY DEF Row
<1>4. \A row \in Row, p \in Passwords :
        [row EXCEPT !.password_hash = hashPassword(p)] \in Row
  BY <1>1 DEF Row
<1> QED
  BY <1>2, <1>3, <1>4

\* The input of a request that is in flight, by its operation.
LEMMA InputType ==
  ASSUME TypeInv, NEW r \in Requests
  PROVE  /\ Op(r) = "create" => req[r].input \in CreateInput
         /\ Op(r) = "update" => req[r].input \in UpdateInput
         /\ Op(r) = "reset" => req[r].input \in ResetInput
         /\ Op(r) = "delete" => req[r].input \in TargetInput
<1>1. req[r].input \in Input \cup {NoInput}
  BY InputKnown DEF TypeInv
<1> QED
  BY <1>1, OpKinds DEF Op

\* Every write ends its request.
LEMMA WriteFinishes ==
  ASSUME TypeInv, NEW r \in Requests, Write(r)
  PROVE  \E o \in Outcomes : Finish(r, o)
  BY DEF Write, createAccount, TargetGone, updateAccount, resetPassword,
         deleteAccount, Committed, Outcomes

LEMMA WriteInv ==
  ASSUME TypeInv, NEW r \in Requests, Write(r)
  PROVE  TypeInv'
<1>0. /\ req' \in [Requests -> Request] /\ RolesNormalised'
      /\ TypeOK /\ roleState' = roleState
  BY WriteFinishes, FinishType, FinishInv
     DEF TypeInv, Write, createAccount, TargetGone, updateAccount,
         resetPassword, deleteAccount
<1> DEFINE input == req[r].input
<1>1. ASSUME account' \in [Ids -> Row \cup {NoRow}],
             bindings' \in [Ids -> Seq(Roles)], issued' \subseteq Ids
      PROVE  TypeInv'
  BY <1>0, <1>1 DEF TypeInv, TypeOK
<1>2. CASE UNCHANGED tables
  BY <1>0, <1>1, <1>2 DEF TypeOK, tables
<1>3. CASE createAccount(r) /\ ~UNCHANGED tables
  <2>1. PICK i \in Ids \ issued :
          /\ account' = [account EXCEPT ![i] = NewRow(input)]
          /\ bindings' = [bindings EXCEPT ![i] = <<input.role>>]
          /\ issued' = issued \cup {i}
    BY <1>3 DEF createAccount, NewIds, replaceAccountRolesTx
  <2>2. input \in CreateInput
    BY <1>3, InputType DEF createAccount
  <2>3. NewRow(input) \in Row /\ input.role \in Roles
    BY <2>2, RowType DEF CreateInput
  <2> HIDE DEF input
  <2>4. <<input.role>> \in Seq(Roles)
    BY <2>3
  <2> QED
    BY <1>0, <1>1, <2>1, <2>3, <2>4 DEF TypeOK
<1>4. CASE updateAccount(r)
  <2>1. input \in UpdateInput /\ input.target \in Live
    BY <1>4, InputType DEF updateAccount
  <2>2. /\ account' = [account EXCEPT ![input.target] =
                         [account[input.target] EXCEPT !.status = input.status]]
        /\ bindings' = [bindings EXCEPT ![input.target] = <<input.role>>]
        /\ issued' = issued
    BY <1>4, <1>0 DEF updateAccount, replaceAccountRolesTx, TypeOK
  <2>3. /\ input.role \in Roles /\ input.target \in Ids
        /\ account[input.target] \in Row /\ input.status \in Statuses
    BY <2>1, <1>0 DEF Live, TypeOK, UpdateInput
  <2> HIDE DEF input
  <2>4. <<input.role>> \in Seq(Roles)
    BY <2>3
  <2>5. [account[input.target] EXCEPT !.status = input.status] \in Row
    BY <2>3, RowType
  <2> QED
    BY <1>0, <1>1, <2>2, <2>3, <2>4, <2>5 DEF TypeOK
<1>5. CASE resetPassword(r)
  <2>1. input \in ResetInput /\ input.target \in Live
    BY <1>5, InputType DEF resetPassword
  <2>2. /\ account' = [account EXCEPT ![input.target] =
             [account[input.target] EXCEPT !.password_hash =
                hashPassword(input.password)]]
        /\ UNCHANGED <<bindings, issued>>
    BY <1>5, <1>0 DEF resetPassword, TypeOK
  <2>3. /\ input.target \in Ids /\ input.password \in Passwords
        /\ account[input.target] \in Row
    BY <2>1, <1>0 DEF Live, TypeOK, ResetInput
  <2> HIDE DEF input
  <2>4. [account[input.target] EXCEPT !.password_hash =
           hashPassword(input.password)] \in Row
    BY <2>3, RowType
  <2> QED
    BY <1>0, <1>1, <2>2, <2>3, <2>4 DEF TypeOK
<1>6. CASE deleteAccount(r)
  <2> DEFINE none == <<>>
  <2>1. /\ account' = [account EXCEPT ![input.target] = NoRow]
        /\ bindings' = [bindings EXCEPT ![input.target] = none]
        /\ issued' = issued
    BY <1>6 DEF deleteAccount
  <2>2. none \in Seq(Roles)
    OBVIOUS
  <2> HIDE DEF none, input
  <2> QED
    BY <1>0, <1>1, <2>1, <2>2 DEF TypeOK
<1>7. CASE TargetGone(r)
  BY <1>2, <1>7 DEF TargetGone
<1> QED
  BY <1>2, <1>3, <1>4, <1>5, <1>6, <1>7 DEF Write

\* CreateTemporaryAdmin, the worker, the clock and the role module.
LEMMA EnvironmentInv ==
  ASSUME TypeInv, Environment
  PROVE  TypeInv'
<1> USE ConstantsAssumption
<1>0. TypeOK /\ req' = req /\ issued' = issued /\ bindings' = bindings
  BY DEF TypeInv, Environment, CreateTemporaryAdmin, SweepTemporaryAdmins,
         ExpiryPasses, ChangeRole, tables
<1>1. RolesNormalised'
  BY <1>0 DEF TypeInv, RolesNormalised, At
<1>2. CASE account' \in [Ids -> Row \cup {NoRow}] /\ roleState' = roleState
  BY <1>0, <1>1, <1>2 DEF TypeInv, TypeOK
<1>3. CASE CreateTemporaryAdmin
  <2>1. PICK name \in TempNames, password \in Passwords :
          account' = [account EXCEPT ![Seed] =
            [account |-> name, password_hash |-> hashPassword(password),
             status |-> "enabled", is_super_admin |-> TRUE,
             is_temporary |-> TRUE, expires_at |-> "future"]]
    BY <1>3 DEF CreateTemporaryAdmin
  <2>2. hashPassword(password) \in Hashes
    BY DEF Hashes
  <2>3. [account |-> name, password_hash |-> hashPassword(password),
         status |-> "enabled", is_super_admin |-> TRUE,
         is_temporary |-> TRUE, expires_at |-> "future"] \in Row
    BY <2>2 DEF Row, Statuses
  <2>4. account' \in [Ids -> Row \cup {NoRow}]
    BY <2>1, <2>3, <1>0 DEF TypeOK
  <2> QED
    BY <1>2, <1>3, <2>4 DEF CreateTemporaryAdmin
<1>4. CASE SweepTemporaryAdmins
  <2>1. \A i \in Live : [account[i] EXCEPT !.status = "disabled"] \in Row
    BY <1>0, RowType DEF Live, TypeOK, Statuses
  <2>2. account' \in [Ids -> Row \cup {NoRow}]
    BY <1>4, <2>1, <1>0 DEF SweepTemporaryAdmins, TypeOK
  <2> QED
    BY <1>2, <1>4, <2>2 DEF SweepTemporaryAdmins
<1>5. CASE ExpiryPasses
  <2>1. PICK i \in Live :
          account' = [account EXCEPT ![i].expires_at = "past"]
    BY <1>5 DEF ExpiryPasses
  <2>2. account[i] \in Row /\ i \in Ids
    BY <1>0 DEF Live, TypeOK
  <2>3. [account[i] EXCEPT !.expires_at = "past"] \in Row
    BY <2>2 DEF Row
  <2>4. account' = [account EXCEPT
                      ![i] = [account[i] EXCEPT !.expires_at = "past"]]
    BY <2>1, <2>2, <1>0 DEF TypeOK
  <2>5. account' \in [Ids -> Row \cup {NoRow}]
    BY <2>2, <2>3, <2>4, <1>0 DEF TypeOK
  <2> QED
    BY <1>2, <1>5, <2>5 DEF ExpiryPasses
<1>6. CASE ChangeRole
  <2>1. roleState' \in [Roles -> RoleState] /\ account' = account
    BY <1>6, <1>0 DEF ChangeRole, tables, TypeOK
  <2> QED
    BY <2>1, <1>0, <1>1 DEF TypeInv, TypeOK
<1> QED
  BY <1>3, <1>4, <1>5, <1>6 DEF Environment
-----------------------------------------------------------------------------
(* The theorems                                                            *)

LEMMA NextTypeInv == TypeInv /\ [Next]_vars => TypeInv'
<1> SUFFICES ASSUME TypeInv, [Next]_vars PROVE TypeInv'
  OBVIOUS
<1>1. CASE UNCHANGED vars
  BY <1>1 DEF TypeInv, TypeOK, RolesNormalised, At, vars
<1>2. ASSUME NEW r \in Requests, Start(r) \/ Step(r) \/ Fail(r) \/ Reply(r)
      PROVE  TypeInv'
  BY <1>2, LookupInv, AuthoriseInv, CheckInv, ListInv, WriteInv, FrameInv
     DEF Step
<1>3. CASE Environment
  BY <1>3, EnvironmentInv
<1> QED
  BY <1>1, <1>2, <1>3 DEF Next

LEMMA TypeInvariant == Spec => []TypeInv
  BY InitTypeInv, NextTypeInv, PTL DEF Spec

\* The tables and every request in flight always have their types.
THEOREM TypeCorrect == Spec => []TypeOK
<1>1. TypeInv => TypeOK
  BY DEF TypeInv
<1> QED
  BY <1>1, TypeInvariant, PTL

\* getAccountByID and getAccountByAccount hand exactly one role of an ordinary
\* account to the handlers, and no handler takes the first of no roles.
THEOREM RolesAlwaysNormalised == Spec => []RolesNormalised
<1>1. TypeInv => RolesNormalised
  BY DEF TypeInv
<1> QED
  BY <1>1, TypeInvariant, PTL
-----------------------------------------------------------------------------
(* What any step may do to the tables. The safety theorems below argue      *)
(* from these seven effects and not from the handlers.                      *)

\* Names and super flags are the same in the same live rows.
SameAccounts ==
  /\ Live' = Live
  /\ \A i \in Live : /\ account'[i].account = account[i].account
                     /\ account'[i].is_super_admin = account[i].is_super_admin

Insert ==
  \E i \in Ids \ issued, row \in Row, role \in Roles :
    /\ NameFree(row.account, NoId) /\ ~row.is_super_admin
    /\ account' = [account EXCEPT ![i] = row]
    /\ bindings' = [bindings EXCEPT ![i] = <<role>>]
    /\ issued' = issued \cup {i}
Rebind ==
  \E i \in Live, role \in Roles :
    /\ SameAccounts /\ issued' = issued
    /\ bindings' = [bindings EXCEPT ![i] = <<role>>]
Remove ==
  \E i \in Live :
    /\ account' = [account EXCEPT ![i] = NoRow]
    /\ bindings' = [bindings EXCEPT ![i] = <<>>]
    /\ issued' = issued
Prune ==
  \E i \in Ids, r \in Requests, role \in Roles :
    /\ At(r, "keep") /\ i = req[r].seen.id
    /\ bindings' = [bindings EXCEPT ![i] = KeepOnly(@, role)]
    /\ UNCHANGED <<account, issued>>
Restore ==
  \E row \in Row : /\ NameFree(row.account, Seed) /\ row.is_super_admin
                   /\ account' = [account EXCEPT ![Seed] = row]
                   /\ UNCHANGED <<bindings, issued>>
Recolumn == SameAccounts /\ UNCHANGED <<bindings, issued>>

\* A change of other columns of a live row.
LEMMA SameAccountsColumn ==
  ASSUME TypeInv, NEW i \in Live, NEW row \in Row,
         account' = [account EXCEPT ![i] = row],
         row.account = account[i].account,
         row.is_super_admin = account[i].is_super_admin
  PROVE  SameAccounts
<1>1. i \in Ids /\ account \in [Ids -> Row \cup {NoRow}]
  BY DEF Live, TypeInv, TypeOK
<1>2. row # NoRow
  BY ConstantsAssumption
<1>3. \A j \in Ids : account'[j] = NoRow <=> account[j] = NoRow
  BY <1>1, <1>2 DEF Live
<1>4. Live' = Live
  BY <1>3 DEF Live
<1>5. \A j \in Live : /\ account'[j].account = account[j].account
                      /\ account'[j].is_super_admin = account[j].is_super_admin
  BY <1>1 DEF Live
<1> QED
  BY <1>4, <1>5 DEF SameAccounts

LEMMA WriteEffect ==
  ASSUME TypeInv, NEW r \in Requests, Write(r)
  PROVE  UNCHANGED tables \/ Insert \/ Rebind \/ Remove \/ Recolumn
<1> DEFINE input == req[r].input
<1>0. TypeOK
  BY DEF TypeInv
<1>1. CASE createAccount(r) /\ ~UNCHANGED tables
  <2>1. input \in CreateInput
    BY <1>1, InputType DEF createAccount
  <2>2. /\ NewRow(input) \in Row /\ ~NewRow(input).is_super_admin
        /\ NewRow(input).account = input.name /\ input.role \in Roles
    BY <2>1, RowType DEF CreateInput, NewRow
  <2>3. NameFree(NewRow(input).account, NoId)
    BY <1>1, <2>2 DEF createAccount
  <2> QED
    BY <1>1, <2>2, <2>3 DEF createAccount, NewIds, replaceAccountRolesTx, Insert
<1>2. CASE updateAccount(r)
  <2>1. input \in UpdateInput /\ input.target \in Live
    BY <1>2, InputType DEF updateAccount
  <2>2. /\ input.role \in Roles /\ input.target \in Ids
        /\ account[input.target] \in Row /\ input.status \in Statuses
    BY <2>1, <1>0 DEF Live, TypeOK, UpdateInput
  <2> DEFINE row == [account[input.target] EXCEPT !.status = input.status]
  <2>3. /\ account' = [account EXCEPT ![input.target] = row]
        /\ bindings' = [bindings EXCEPT ![input.target] = <<input.role>>]
        /\ issued' = issued
    BY <1>2, <1>0 DEF updateAccount, replaceAccountRolesTx, TypeOK
  <2>4. /\ row \in Row /\ row.account = account[input.target].account
        /\ row.is_super_admin = account[input.target].is_super_admin
    BY <2>2, RowType DEF Row
  <2>5. SameAccounts
    BY <2>1, <2>3, <2>4, SameAccountsColumn
  <2> QED
    BY <2>1, <2>2, <2>3, <2>5 DEF Rebind
<1>3. CASE resetPassword(r)
  <2>1. input \in ResetInput /\ input.target \in Live
    BY <1>3, InputType DEF resetPassword
  <2>2. input.password \in Passwords /\ account[input.target] \in Row
    BY <2>1, <1>0 DEF Live, TypeOK, ResetInput
  <2> DEFINE row == [account[input.target] EXCEPT !.password_hash =
                       hashPassword(input.password)]
  <2>3. /\ account' = [account EXCEPT ![input.target] = row]
        /\ UNCHANGED <<bindings, issued>>
    BY <1>3, <1>0 DEF resetPassword, TypeOK
  <2>4. /\ row \in Row /\ row.account = account[input.target].account
        /\ row.is_super_admin = account[input.target].is_super_admin
    BY <2>2, RowType DEF Row
  <2>5. SameAccounts
    BY <2>1, <2>3, <2>4, SameAccountsColumn
  <2> QED
    BY <2>3, <2>5 DEF Recolumn
<1>4. CASE deleteAccount(r)
  BY <1>4 DEF deleteAccount, Remove
<1>5. CASE TargetGone(r)
  BY <1>5 DEF TargetGone
<1> QED
  BY <1>1, <1>2, <1>3, <1>4, <1>5 DEF Write

LEMMA StepEffect ==
  ASSUME TypeInv, [Next]_vars
  PROVE  \/ UNCHANGED tables \/ Insert \/ Rebind \/ Remove \/ Prune
         \/ Restore \/ Recolumn
<1> USE ConstantsAssumption
<1>0. TypeOK
  BY DEF TypeInv
<1>1. CASE UNCHANGED vars
  BY <1>1 DEF vars, tables
<1>2. ASSUME NEW r \in Requests, Start(r) \/ Fail(r) \/ Reply(r) \/ Check(r)
                                   \/ Authorise(r) \/ List(r)
      PROVE  UNCHANGED tables
  BY <1>2, AuthoriseEffect DEF Start, Arrive, Fail, Reply, Check, ValidateInput,
       RejectInput, CheckTarget, DescribeTarget, CheckName, CheckCredentials,
       CheckAvailable, OpenSession, List, CountAccounts, QueryPage, NextRow
<1>3. ASSUME NEW r \in Requests, Lookup(r) PROVE UNCHANGED tables \/ Prune
  <2>1. CASE KeepOnlyRole(r)
    <3>1. req[r].seen.id \in Ids
      <4>1. At(r, "keep") /\ req[r] \in Request
        BY <2>1, <1>0 DEF KeepOnlyRole, TypeOK
      <4> QED
        BY <4>1 DEF TypeInv, RolesNormalised, At, Request, Snapshot
    <3>2. Head(req[r].roles) \in Roles
      <4>1. req[r].roles \in Seq(Roles) /\ Len(req[r].roles) = 1
        BY <2>1, <1>0
           DEF KeepOnlyRole, TypeOK, TypeInv, RolesNormalised, At, Request
      <4> QED
        BY <4>1, OneNotEmpty, RoleSeq
    <3> QED
      BY <1>3, <2>1, <3>1, <3>2 DEF KeepOnlyRole, Prune
  <2>2. CASE QueryAccount(r) \/ ReadBindings(r) \/ ResolveRole(r)
    BY <2>2 DEF QueryAccount, ReadBindings, ResolveRole
  <2> QED
    BY <1>3, <2>1, <2>2 DEF Lookup
<1>4. CASE CreateTemporaryAdmin
  <2>1. PICK name \in TempNames, password \in Passwords :
          /\ NameFree(name, Seed)
          /\ account' = [account EXCEPT ![Seed] =
               [account |-> name, password_hash |-> hashPassword(password),
                status |-> "enabled", is_super_admin |-> TRUE,
                is_temporary |-> TRUE, expires_at |-> "future"]]
    BY <1>4 DEF CreateTemporaryAdmin
  <2> DEFINE row == [account |-> name, password_hash |-> hashPassword(password),
                     status |-> "enabled", is_super_admin |-> TRUE,
                     is_temporary |-> TRUE, expires_at |-> "future"]
  <2>2. hashPassword(password) \in Hashes
    BY DEF Hashes
  <2>3. row \in Row /\ row.account = name /\ row.is_super_admin
    BY <2>2 DEF Row, Statuses
  <2>4. UNCHANGED <<bindings, issued>>
    BY <1>4 DEF CreateTemporaryAdmin
  <2> HIDE DEF row
  <2>5. account' = [account EXCEPT ![Seed] = row]
    BY <2>1 DEF row
  <2> QED
    BY <2>1, <2>3, <2>4, <2>5 DEF Restore
<1>5. CASE SweepTemporaryAdmins
  <2>1. \A i \in Live : /\ i \in Ids
                        /\ account[i] \in Row
                        /\ [account[i] EXCEPT !.status = "disabled"] \in Row
    BY <1>0, RowType DEF Live, TypeOK, Statuses
  <2>2. \A i \in Ids : account'[i] =
          IF i \in Live /\ Expired(i)
          THEN [account[i] EXCEPT !.status = "disabled"] ELSE account[i]
    BY <1>5 DEF SweepTemporaryAdmins
  <2>3. \A i \in Ids : account'[i] = NoRow <=> account[i] = NoRow
    BY <2>1, <2>2 DEF Live
  <2>4. Live' = Live
    BY <2>3 DEF Live
  <2>5. \A i \in Live :
          /\ account'[i].account = account[i].account
          /\ account'[i].is_super_admin = account[i].is_super_admin
    BY <2>1, <2>2, ZenonT(30) DEF Row
  <2> QED
    BY <1>5, <2>4, <2>5 DEF SweepTemporaryAdmins, Recolumn, SameAccounts
<1>6. CASE ExpiryPasses
  <2>1. PICK i \in Live : account' = [account EXCEPT ![i].expires_at = "past"]
    BY <1>6 DEF ExpiryPasses
  <2> DEFINE row == [account[i] EXCEPT !.expires_at = "past"]
  <2>2. account[i] \in Row /\ i \in Ids
    BY <1>0 DEF Live, TypeOK
  <2>3. /\ row \in Row /\ row.account = account[i].account
        /\ row.is_super_admin = account[i].is_super_admin
    BY <2>2 DEF Row
  <2>4. account' = [account EXCEPT ![i] = row]
    BY <2>1, <2>2, <1>0 DEF TypeOK
  <2>5. SameAccounts
    BY <2>3, <2>4, SameAccountsColumn
  <2> QED
    BY <1>6, <2>5 DEF ExpiryPasses, Recolumn
<1>7. CASE ChangeRole
  BY <1>7 DEF ChangeRole
<1>8. ASSUME NEW r \in Requests, Write(r)
      PROVE  UNCHANGED tables \/ Insert \/ Rebind \/ Remove \/ Recolumn
  BY <1>8, WriteEffect
<1> QED
  BY <1>1, <1>2, <1>3, <1>4, <1>5, <1>6, <1>7, <1>8
     DEF Next, Step, Environment

\* No two accounts ever share a name: the UNIQUE column stops the creation
\* whose look-up saw the name free, and the temporary administrator's name.
THEOREM NamesStayUnique == Spec => []UniqueNames
<1>1. Init => UniqueNames
  BY TablesAssumption DEF Init, UniqueNames, Live
<1>2. TypeInv /\ UniqueNames /\ [Next]_vars => UniqueNames'
  <2> SUFFICES ASSUME TypeInv, UniqueNames, [Next]_vars PROVE UniqueNames'
    OBVIOUS
  <2>0. account \in [Ids -> Row \cup {NoRow}] /\ NoId \notin Live
    BY ConstantsAssumption DEF TypeInv, TypeOK, Live
  <2>1. CASE UNCHANGED tables \/ Prune
    BY <2>1 DEF tables, Prune, UniqueNames, Live
  <2>2. CASE Insert
    BY <2>2, <2>0 DEF Insert, NameFree, UniqueNames, Live
  <2>3. CASE Rebind \/ Recolumn
    BY <2>3 DEF Rebind, Recolumn, SameAccounts, UniqueNames
  <2>4. CASE Remove
    BY <2>4, <2>0 DEF Remove, UniqueNames, Live
  <2>5. CASE Restore
    BY <2>5, <2>0, ConstantsAssumption DEF Restore, NameFree, UniqueNames, Live
  <2> QED
    BY <2>1, <2>2, <2>3, <2>4, <2>5, StepEffect
<1> QED
  BY <1>1, <1>2, TypeInvariant, PTL DEF Spec

\* No step brings a deleted account back; CreateTemporaryAdmin restores the
\* seed only.
THEOREM DeletedNeverReturns == Spec => DeletedStaysDeleted
<1>1. TypeInv /\ [Next]_vars =>
        [\A i \in issued \ {Seed} : i \notin Live => i \notin Live']_vars
  <2> SUFFICES ASSUME TypeInv, [Next]_vars,
                      NEW i \in issued \ {Seed}, i \notin Live
               PROVE  i \notin Live'
    OBVIOUS
  <2>0. account \in [Ids -> Row \cup {NoRow}] /\ i \in Ids
    BY DEF TypeInv, TypeOK
  <2>1. CASE UNCHANGED tables \/ Prune
    BY <2>1 DEF tables, Prune, Live
  <2>2. CASE Insert \/ Remove \/ Restore
    BY <2>2, <2>0 DEF Insert, Remove, Restore, Live
  <2>3. CASE Rebind \/ Recolumn
    BY <2>3 DEF Rebind, Recolumn, SameAccounts
  <2> QED
    BY <2>1, <2>2, <2>3, StepEffect
<1> QED
  BY <1>1, TypeInvariant, PTL DEF Spec, DeletedStaysDeleted

\* Where no binding is without its account, none ever is.
LEMMA BelongStep ==
  ASSUME TypeInv, BindingsBelongToAccounts, [Next]_vars
  PROVE  BindingsBelongToAccounts'
<1> SUFFICES ASSUME NEW i \in Ids, i \notin Live' PROVE bindings'[i] = <<>>
  BY DEF BindingsBelongToAccounts
<1>0. /\ account \in [Ids -> Row \cup {NoRow}] /\ NoRow \notin Row
      /\ bindings \in [Ids -> Seq(Roles)] /\ Live \subseteq Ids
      /\ Seed \in Ids
  BY ConstantsAssumption DEF TypeInv, TypeOK, Live
<1>1. ASSUME i \notin Live, bindings'[i] = bindings[i]
      PROVE  bindings'[i] = <<>>
  BY <1>1 DEF BindingsBelongToAccounts
<1>2. CASE UNCHANGED tables
  BY <1>1, <1>2 DEF tables, Live
<1>3. CASE Prune
  <2>1. KeepOnly(<<>>, NoId) = <<>> /\ \A role : KeepOnly(<<>>, role) = <<>>
    BY DEF KeepOnly
  <2>2. i \notin Live
    BY <1>3 DEF Prune, Live
  <2>3. bindings[i] = <<>>
    BY <2>2 DEF BindingsBelongToAccounts
  <2> QED
    BY <1>0, <1>3, <2>1, <2>3 DEF Prune
<1>4. CASE Recolumn
  BY <1>1, <1>4 DEF Recolumn, SameAccounts
<1>5. CASE Rebind
  BY <1>0, <1>1, <1>5 DEF Rebind, SameAccounts
<1>6. CASE Restore
  BY <1>0, <1>1, <1>6 DEF Restore, Live
<1>7. CASE Insert
  BY <1>0, <1>1, <1>7 DEF Insert, Live
<1>8. CASE Remove
  BY <1>0, <1>1, <1>8 DEF Remove, Live
<1> QED
  BY <1>2, <1>3, <1>4, <1>5, <1>6, <1>7, <1>8, StepEffect

\* Legacy data or not, nobody gives an account a further binding.
THEOREM BindingsNeverMultiply == Spec => NoNewMultiBinding
<1>1. TypeInv /\ [Next]_vars =>
        [\A i \in Ids : Len(bindings'[i]) > 1
                         => bindings'[i] = bindings[i]]_vars
  <2> SUFFICES ASSUME TypeInv, [Next]_vars, NEW i \in Ids,
                      bindings'[i] # bindings[i]
               PROVE  ~(Len(bindings'[i]) > 1)
    OBVIOUS
  <2>0. bindings \in [Ids -> Seq(Roles)] /\ Live \subseteq Ids
    BY DEF TypeInv, TypeOK, Live
  <2>1. ASSUME NEW role, bindings'[i] = <<role>> PROVE ~(Len(bindings'[i]) > 1)
    <3>1. Len(<<role>>) = 1
      OBVIOUS
    <3> QED
      BY <2>1, <3>1
  <2>2. ASSUME bindings'[i] = <<>> PROVE ~(Len(bindings'[i]) > 1)
    <3>1. Len(<<>>) = 0
      OBVIOUS
    <3> QED
      BY <2>2, <3>1
  <2>3. ~UNCHANGED tables /\ ~Restore /\ ~Recolumn
    BY DEF tables, Restore, Recolumn
  <2>4. CASE Insert \/ Rebind
    <3>1. \E role \in Roles : bindings'[i] = <<role>>
      BY <2>0, <2>4 DEF Insert, Rebind
    <3> QED
      BY <2>1, <3>1
  <2>5. CASE Remove
    BY <2>0, <2>2, <2>5 DEF Remove
  <2>6. CASE Prune
    <3>1. PICK role : bindings'[i] = KeepOnly(bindings[i], role)
      BY <2>0, <2>6 DEF Prune
    <3> QED
      BY <2>1, <2>2, <3>1 DEF KeepOnly
  <2> QED
    BY <2>3, <2>4, <2>5, <2>6, StepEffect
<1> QED
  BY <1>1, TypeInvariant, PTL DEF Spec, NoNewMultiBinding
-----------------------------------------------------------------------------
(* One role for every ordinary account                                      *)

\* A database without legacy data: nobody has several bindings, every ordinary
\* account has one, and no binding is without its account.
OneRoleInitially ==
  \A i \in Ids :
    /\ Len(InitBindings[i]) <= 1
    /\ InitAccounts[i] # NoRow /\ ~InitAccounts[i].is_super_admin
         => Len(InitBindings[i]) = 1
    /\ InitAccounts[i] = NoRow => InitBindings[i] = <<>>

\* SingleRoleKept is not inductive: a pruning lookup would empty an account
\* that was rebound meanwhile. Without several bindings no lookup prunes.
OneRoleInv ==
  /\ SingleRoleKept
  /\ \A i \in Ids : Len(bindings[i]) <= 1
  /\ \A r \in Requests : req[r].pc \notin {"resolve", "keep"}

\* Only ReadBindings starts to resolve, and only several bindings.
LEMMA NoResolve ==
  ASSUME TypeInv, OneRoleInv, [Next]_vars
  PROVE  \A r \in Requests : req'[r].pc \notin {"resolve", "keep"}
<1>0. TypeOK /\ req \in [Requests -> Request]
  BY DEF TypeInv, TypeOK
<1>1. CASE UNCHANGED vars \/ Environment
  BY <1>1 DEF vars, OneRoleInv, Environment, CreateTemporaryAdmin,
              SweepTemporaryAdmins, ExpiryPasses, ChangeRole
<1>2. ASSUME NEW r \in Requests, Start(r) \/ Step(r) \/ Fail(r) \/ Reply(r)
      PROVE  \A q \in Requests : req'[q].pc \notin {"resolve", "keep"}
  <2>0. \A q \in Requests : req[q].pc \notin {"resolve", "keep"}
    BY DEF OneRoleInv
  <2>1. ASSUME NEW o, Finish(r, o)
        PROVE  \A q \in Requests : req'[q].pc \notin {"resolve", "keep"}
    BY <2>0, <2>1, <1>0 DEF Finish, Idle
  <2>2. ASSUME NEW pc \in PCs \ {"resolve", "keep"}, Goto(r, pc)
        PROVE  \A q \in Requests : req'[q].pc \notin {"resolve", "keep"}
    BY <2>0, <2>2, <1>0 DEF Goto, Request
  <2>3. CASE Start(r) \/ Fail(r) \/ Reply(r)
    <3>1. CASE Start(r)
      <4>1. PICK input \in Inputs :
              req' = [req EXCEPT ![r].pc = "query", ![r].input = input]
        BY <3>1 DEF Start, Arrive
      <4> QED
        BY <2>0, <4>1, <1>0 DEF Request
    <3>2. CASE Fail(r)
      BY <2>1, <3>2 DEF Fail
    <3>3. CASE Reply(r)
      BY <2>0, <3>3, <1>0 DEF Reply, Idle
    <3> QED
      BY <2>3, <3>1, <3>2, <3>3
  <2>4. CASE Write(r)
    BY <2>1, <2>4, WriteFinishes
  <2>5. CASE Check(r)
    <3>1. CASE CheckTarget(r)
      <4> DEFINE pc == IF Op(r) = "detail" THEN "describe" ELSE "write"
                 none == <<>>
                 roles == IF Op(r) = "detail" THEN req[r].roles ELSE none
      <4>1. CASE TargetRefusal(r) # "none"
        BY <2>1, <3>1, <4>1 DEF CheckTarget
      <4>2. CASE TargetRefusal(r) = "none"
        <5>1. req' = [req EXCEPT ![r].pc = pc, ![r].roles = roles]
          BY <3>1, <4>2, <1>0 DEF CheckTarget, Request
        <5>2. pc \notin {"resolve", "keep"}
          OBVIOUS
        <5> HIDE DEF pc, roles
        <5> QED
          BY <2>0, <5>1, <5>2, <1>0 DEF Request
      <4> QED
        BY <4>1, <4>2
    <3>2. CASE ~CheckTarget(r)
      BY <2>1, <2>2, <2>5, <3>2 DEF Check, ValidateInput, RejectInput,
           DescribeTarget, CheckName, CheckCredentials, CheckAvailable,
           OpenSession, PCs
    <3> QED
      BY <3>1, <3>2
  <2>6. CASE Authorise(r)
    <3>1. CASE OperatorFound(r)
      <4> DEFINE seen == req[r].seen
                 none == <<>>
                 roles == IF seen.is_super_admin THEN none ELSE req[r].roles
                 pc == IF seen.is_super_admin THEN "validate" ELSE "permit"
      <4>1. req' = [req EXCEPT ![r].operator = seen.id,
                      ![r].isSuper = seen.is_super_admin,
                      ![r].seen = NoSnapshot, ![r].roles = roles, ![r].pc = pc]
        BY <3>1, <1>0 DEF OperatorFound, Request
      <4>2. pc \notin {"resolve", "keep"}
        OBVIOUS
      <4> HIDE DEF pc, roles, seen
      <4> QED
        BY <2>0, <4>1, <4>2, <1>0 DEF Request
    <3>2. CASE LetThrough(r)
      <4> DEFINE none == <<>>
      <4>1. req' = [req EXCEPT ![r].pc = "validate", ![r].roles = none]
        BY <3>2 DEF LetThrough
      <4> HIDE DEF none
      <4> QED
        BY <2>0, <4>1, <1>0 DEF Request
    <3>3. CASE (\E o \in Outcomes : Finish(r, o)) \/ Goto(r, "match")
      BY <2>1, <2>2, <3>3 DEF PCs
    <3> QED
      BY <2>6, <3>1, <3>2, <3>3, AuthoriseEffect
  <2>7. CASE Lookup(r)
    <3>1. CASE QueryAccount(r)
      BY <2>0, <2>2, <3>1, <1>0, ZenonT(30) DEF QueryAccount, PCs, Request
    <3>2. CASE ReadBindings(r)
      <4> DEFINE ids == bindings[req[r].seen.id]
                 pc == CASE Len(ids) = 0 -> Unbound(r)
                         [] Len(ids) = 1 -> "found"
                         [] OTHER -> "resolve"
      <4>1. req[r].seen.id \in Ids
        BY <3>2, <1>0 DEF ReadBindings, At, TypeInv, RolesNormalised, Request,
                          Snapshot
      <4>2. ids \in Seq(Roles) /\ Len(ids) <= 1
        BY <4>1, <1>0 DEF OneRoleInv, TypeOK
      <4>3. req' = [req EXCEPT ![r].roles = ids, ![r].pc = pc]
        BY <3>2 DEF ReadBindings
      <4> HIDE DEF ids
      <4>4. Len(ids) = 0 \/ Len(ids) = 1
        BY <4>2, RoleSeqOne
      <4>5. pc \notin {"resolve", "keep"}
        BY <4>4 DEF Unbound
      <4> HIDE DEF pc
      <4> QED
        BY <2>0, <4>3, <4>5, <1>0 DEF Request
    <3>3. ~ResolveRole(r) /\ ~KeepOnlyRole(r)
      BY <2>0 DEF ResolveRole, KeepOnlyRole, At
    <3> QED
      BY <2>7, <3>1, <3>2, <3>3 DEF Lookup
  <2>8. CASE List(r)
    <3>1. CASE CountAccounts(r)
      BY <2>2, <3>1 DEF CountAccounts, PCs
    <3>2. CASE QueryPage(r)
      <4>1. ASSUME NEW page,
                   req' = [req EXCEPT ![r].pc = "row", ![r].rows = page]
            PROVE  \A q \in Requests : req'[q].pc \notin {"resolve", "keep"}
        BY <2>0, <4>1, <1>0 DEF Request
      <4> QED
        BY <2>1, <3>2, <4>1 DEF QueryPage
    <3>3. CASE NextRow(r)
      <4> DEFINE none == <<>>
                 row == Head(req[r].rows)
                 rest == Tail(req[r].rows)
      <4>1. CASE req' = [req EXCEPT ![r].pc = "bindings", ![r].roles = none,
                           ![r].seen = row, ![r].rows = rest]
        <5> HIDE DEF none, row, rest
        <5> QED
          BY <2>0, <4>1, <1>0 DEF Request
      <4> QED
        BY <2>1, <3>3, <4>1, <1>0 DEF NextRow, Request
    <3> QED
      BY <2>8, <3>1, <3>2, <3>3 DEF List
  <2> QED
    BY <1>2, <2>3, <2>4, <2>5, <2>6, <2>7, <2>8 DEF Step
<1> QED
  BY <1>1, <1>2 DEF Next

\* What a change of the tables does to the bindings when nobody prunes: an
\* account gets one role, loses all with itself, or keeps what it has.
LEMMA BindingsEffect ==
  ASSUME TypeInv, [Next]_vars, \A r \in Requests : ~At(r, "keep"),
         NEW i \in Ids
  PROVE  \/ bindings'[i] = bindings[i]
         \/ \E role \in Roles : bindings'[i] = <<role>>
         \/ bindings'[i] = <<>> /\ i \notin Live'
<1>0. TypeOK
  BY DEF TypeInv
<1>1. CASE UNCHANGED tables \/ Restore \/ Recolumn
  BY <1>1 DEF tables, Restore, Recolumn
<1>2. CASE Insert \/ Rebind
  BY <1>0, <1>2 DEF Insert, Rebind, TypeOK
<1>3. CASE Remove
  BY <1>0, <1>3 DEF Remove, TypeOK, Live
<1>4. ~Prune
  BY DEF Prune
<1> QED
  BY <1>1, <1>2, <1>3, <1>4, StepEffect

LEMMA OneRoleStep ==
  ASSUME TypeInv, OneRoleInv, [Next]_vars
  PROVE  OneRoleInv'
<1>0. TypeOK /\ TypeOK' /\ ~Prune /\ \A r \in Requests : ~At(r, "keep")
  BY NextTypeInv DEF TypeInv, OneRoleInv, At, Prune
<1>1. \A r \in Requests : req'[r].pc \notin {"resolve", "keep"}
  BY NoResolve
<1>2. ASSUME NEW i \in Ids PROVE Len(bindings'[i]) <= 1
  <2>1. \A role \in Roles : Len(<<role>>) = 1
    OBVIOUS
  <2>2. Len(<<>>) = 0
    OBVIOUS
  <2>3. Len(bindings[i]) <= 1
    BY DEF OneRoleInv
  <2>4. ASSUME NEW role \in Roles, bindings'[i] = <<role>>
        PROVE  Len(bindings'[i]) <= 1
    <3>1. Len(bindings'[i]) = 1
      BY <2>1, <2>4
    <3> QED
      BY <3>1
  <2>5. ASSUME bindings'[i] = <<>> PROVE Len(bindings'[i]) <= 1
    <3>1. Len(bindings'[i]) = 0
      BY <2>2, <2>5
    <3> QED
      BY <3>1
  <2>6. ASSUME bindings'[i] = bindings[i] PROVE Len(bindings'[i]) <= 1
    BY <2>3, <2>6
  <2> QED
    BY <1>0, <2>4, <2>5, <2>6, BindingsEffect
<1>3. BindingsBelongToAccounts'
  BY BelongStep, <1>0 DEF OneRoleInv, SingleRoleKept
<1>4. ASSUME NEW i \in Live', ~account'[i].is_super_admin
      PROVE  Len(bindings'[i]) = 1
  <2>0. /\ i \in Ids /\ account \in [Ids -> Row \cup {NoRow}]
        /\ bindings \in [Ids -> Seq(Roles)] /\ Live \subseteq Ids
    BY <1>0 DEF Live, TypeOK
  <2>1. \A role \in Roles : Len(<<role>>) = 1
    OBVIOUS
  <2>2. ASSUME i \in Live, ~account[i].is_super_admin,
               bindings'[i] = bindings[i]
        PROVE  Len(bindings'[i]) = 1
    BY <2>2 DEF OneRoleInv, SingleRoleKept, OneRoleEach
  <2>3. ASSUME NEW role \in Roles, bindings'[i] = <<role>>
        PROVE  Len(bindings'[i]) = 1
    BY <2>1, <2>3
  <2>4. CASE UNCHANGED tables
    BY <1>4, <2>2, <2>4 DEF tables, Live
  <2>5. CASE Recolumn
    BY <1>4, <2>2, <2>5 DEF Recolumn, SameAccounts
  <2>6. CASE Restore
    BY <1>4, <2>0, <2>2, <2>6 DEF Restore, Live
  <2>7. CASE Insert
    BY <1>4, <2>0, <2>2, <2>3, <2>7 DEF Insert, Live
  <2>8. CASE Rebind
    BY <1>4, <2>0, <2>2, <2>3, <2>8 DEF Rebind, SameAccounts
  <2>9. CASE Remove
    BY <1>4, <2>0, <2>2, <2>9 DEF Remove, Live
  <2> QED
    BY <1>0, <2>4, <2>5, <2>6, <2>7, <2>8, <2>9, StepEffect
<1> QED
  BY <1>1, <1>2, <1>3, <1>4 DEF OneRoleInv, SingleRoleKept, OneRoleEach

\* On a database without legacy data every ordinary account has exactly one
\* role for ever, whatever requests race.
THEOREM SingleRole ==
  ASSUME OneRoleInitially
  PROVE  Spec => []SingleRoleKept
<1>1. Init => OneRoleInv
  BY OneRoleInitially, TablesAssumption
     DEF Init, OneRoleInitially, OneRoleInv, SingleRoleKept, OneRoleEach,
         BindingsBelongToAccounts, Live, Idle
<1>2. TypeInv /\ OneRoleInv /\ [Next]_vars => OneRoleInv'
  BY OneRoleStep
<1>3. OneRoleInv => SingleRoleKept
  BY DEF OneRoleInv
<1> QED
  BY <1>1, <1>2, <1>3, TypeInvariant, PTL DEF Spec
-----------------------------------------------------------------------------
(* Super administrators are changed by super administrators only            *)

\* Nobody but the seed becomes or ceases to be a super administrator.
Supers == {i \in Ids \ {Seed} : InitAccounts[i] # NoRow
                                 /\ InitAccounts[i].is_super_admin}

\* What the database says of every other id, whenever it says anything.
SupersKnown ==
  /\ Supers \subseteq issued /\ Live \subseteq issued /\ Seed \in issued
  /\ \A i \in Live \ {Seed} : account[i].is_super_admin <=> i \in Supers

\* What a handler remembers: the flag of the account it looked up never goes
\* stale but for the seed's, that account is the target, and a handler about to
\* write still has it in hand and has compared its flag with its operator's. (A
\* list writes nothing but bindings it prunes; the rows it goes through are not
\* looked at.)
Guarded(s) ==
  LET changes == s.input.op \in {"update", "reset", "delete"}
      looked  == s.pc \in {"bindings", "resolve", "keep", "found"}
  IN
  /\ s.input.op # "list" /\ s.seen.id \notin {NoId, Seed}
       => (s.seen.is_super_admin <=> s.seen.id \in Supers)
  /\ s.pc = "idle" => s.seen.id = NoId
  /\ changes /\ s.operator # NoId /\ looked => s.seen.id = s.input.target
  /\ changes /\ s.pc = "write" =>
       /\ s.seen.id = s.input.target
       /\ s.seen.is_super_admin => s.isSuper

GuardInv == SupersKnown /\ \A r \in Requests : Guarded(req[r])

LEMMA SupersKnownStep ==
  ASSUME TypeInv, SupersKnown, [Next]_vars
  PROVE  SupersKnown'
<1>0. /\ account \in [Ids -> Row \cup {NoRow}] /\ NoRow \notin Row
      /\ Live \subseteq Ids /\ Seed \in Ids /\ Seed \notin Supers
      /\ Seed \in issued
  BY ConstantsAssumption DEF TypeInv, TypeOK, Live, Supers, SupersKnown
<1>1. CASE UNCHANGED tables \/ Prune
  BY <1>1 DEF tables, Prune, SupersKnown, Live
<1>2. CASE Rebind \/ Recolumn
  BY <1>2 DEF Rebind, Recolumn, SameAccounts, SupersKnown
<1>3. CASE Insert
  BY <1>0, <1>3 DEF Insert, SupersKnown, Live
<1>4. CASE Remove
  BY <1>0, <1>4 DEF Remove, SupersKnown, Live
<1>5. CASE Restore
  BY <1>0, <1>5 DEF Restore, SupersKnown, Live
<1> QED
  BY <1>1, <1>2, <1>3, <1>4, <1>5, StepEffect

LEMMA GuardedLookup ==
  ASSUME TypeInv, GuardInv, NEW r \in Requests, Lookup(r)
  PROVE  Guarded(req'[r])
<1>0. /\ req \in [Requests -> Request] /\ req[r] \in Request /\ Guarded(req[r])
      /\ Live \subseteq Ids
  BY DEF TypeInv, TypeOK, GuardInv, Live
<1>1. CASE QueryAccount(r)
  <2>1. CASE Goto(r, "absent")
    BY <1>0, <2>1 DEF Goto, Guarded, Request
  <2>2. ASSUME NEW i \in Wanted(r),
               req' = [req EXCEPT ![r].pc = "bindings",
                                  ![r].seen = SnapshotOf(i)]
        PROVE  Guarded(req'[r])
    <3>1. i \in Live
      BY DEF Wanted
    <3>2. /\ SnapshotOf(i).id = i
          /\ i # Seed => (SnapshotOf(i).is_super_admin <=> i \in Supers)
      BY <3>1 DEF SnapshotOf, GuardInv, SupersKnown
    <3>3. Op(r) \in {"update", "reset", "delete"} /\ req[r].operator # NoId
            => i = req[r].input.target
      BY DEF Wanted, ByName, IsLogin, AsOperator
    <3>4. /\ req'[r].seen = SnapshotOf(i) /\ req'[r].pc = "bindings"
          /\ req'[r].input = req[r].input
          /\ req'[r].operator = req[r].operator
      BY <1>0, <2>2 DEF Request
    <3> QED
      BY <3>2, <3>3, <3>4 DEF Guarded, Op
  <2> QED
    BY <1>1, <2>1, <2>2 DEF QueryAccount
<1>2. ASSUME /\ req[r].pc \in {"bindings", "resolve", "keep"}
             /\ req'[r].pc \notin {"idle", "write"}
             /\ req'[r].seen = req[r].seen /\ req'[r].input = req[r].input
             /\ req'[r].operator = req[r].operator
      PROVE  Guarded(req'[r])
  BY <1>0, <1>2 DEF Guarded
<1>3. CASE ReadBindings(r)
  <2> DEFINE ids == bindings[req[r].seen.id]
             pc == CASE Len(ids) = 0 -> Unbound(r)
                     [] Len(ids) = 1 -> "found"
                     [] OTHER -> "resolve"
  <2>1. req' = [req EXCEPT ![r].roles = ids, ![r].pc = pc]
    BY <1>3 DEF ReadBindings
  <2>2. pc \notin {"idle", "write"}
    BY DEF Unbound
  <2> HIDE DEF ids, pc
  <2>3. /\ req'[r].pc = pc /\ req'[r].seen = req[r].seen
        /\ req'[r].input = req[r].input /\ req'[r].operator = req[r].operator
    BY <1>0, <2>1 DEF Request
  <2>4. req[r].pc = "bindings"
    BY <1>3 DEF ReadBindings, At
  <2> QED
    BY <1>2, <2>2, <2>3, <2>4
<1>4. CASE ResolveRole(r)
  <2> DEFINE ids == req[r].roles
             one == <<Head(ids)>>
             rest == Tail(ids)
             pc == IF rest # <<>> THEN "resolve" ELSE Unbound(r)
  <2>1. \/ req' = [req EXCEPT ![r].roles = one, ![r].pc = "keep"]
        \/ req' = [req EXCEPT ![r].roles = rest, ![r].pc = pc]
    BY <1>4 DEF ResolveRole
  <2>2. pc \notin {"idle", "write"}
    BY DEF Unbound
  <2> HIDE DEF one, rest, pc
  <2>3. req[r].pc = "resolve"
    BY <1>4 DEF ResolveRole, At
  <2>4. CASE req' = [req EXCEPT ![r].roles = one, ![r].pc = "keep"]
    BY <1>0, <1>2, <2>3, <2>4 DEF Request
  <2>5. CASE req' = [req EXCEPT ![r].roles = rest, ![r].pc = pc]
    BY <1>0, <1>2, <2>2, <2>3, <2>5 DEF Request
  <2> QED
    BY <2>1, <2>4, <2>5
<1>5. CASE KeepOnlyRole(r)
  BY <1>0, <1>2, <1>5 DEF KeepOnlyRole, Goto, At, Request
<1> QED
  BY <1>1, <1>3, <1>4, <1>5 DEF Lookup

LEMMA GuardedRest ==
  ASSUME TypeInv, GuardInv, NEW r \in Requests,
         \/ Start(r) \/ Authorise(r) \/ Check(r) \/ List(r) \/ Write(r)
         \/ Fail(r) \/ Reply(r)
  PROVE  Guarded(req'[r])
<1>0. /\ req \in [Requests -> Request] /\ req[r] \in Request /\ Guarded(req[r])
  BY DEF TypeInv, TypeOK, GuardInv
<1>1. ASSUME NEW o, Finish(r, o) PROVE Guarded(req'[r])
  BY <1>0, <1>1 DEF Finish, Idle, NoSnapshot, Guarded
<1>2. ASSUME /\ req'[r].pc \notin {"idle", "bindings", "resolve", "keep",
                                 "found", "write"}
             /\ req'[r].input = req[r].input
             /\ req'[r].seen = req[r].seen \/ req'[r].seen = NoSnapshot
      PROVE  Guarded(req'[r])
  BY <1>0, <1>2 DEF Guarded, NoSnapshot
<1>3. ASSUME NEW pc \in PCs \ {"idle", "bindings", "resolve", "keep", "found",
                               "write"},
             Goto(r, pc)
      PROVE  Guarded(req'[r])
  BY <1>0, <1>2, <1>3 DEF Goto, Request
<1>4. CASE Start(r)
  <2>1. PICK input \in Inputs :
          req' = [req EXCEPT ![r].pc = "query", ![r].input = input]
    BY <1>4 DEF Start, Arrive
  <2>2. req[r].seen.id = NoId
    BY <1>0, <1>4 DEF Start, Arrive, At, Guarded
  <2> QED
    BY <1>0, <2>1, <2>2 DEF Request, Guarded
<1>5. CASE Reply(r)
  BY <1>0, <1>5 DEF Reply, Idle, NoSnapshot, Guarded
<1>6. CASE Fail(r) \/ Write(r)
  BY <1>1, <1>6, WriteFinishes DEF Fail
<1>7. CASE Authorise(r)
  <2>1. CASE OperatorFound(r)
    <3> DEFINE seen == req[r].seen
               none == <<>>
               roles == IF seen.is_super_admin THEN none ELSE req[r].roles
               pc == IF seen.is_super_admin THEN "validate" ELSE "permit"
    <3>1. req' = [req EXCEPT ![r].operator = seen.id,
                    ![r].isSuper = seen.is_super_admin,
                    ![r].seen = NoSnapshot, ![r].roles = roles, ![r].pc = pc]
      BY <2>1, <1>0 DEF OperatorFound, Request
    <3>2. pc \in {"validate", "permit"}
      OBVIOUS
    <3> HIDE DEF pc, roles, seen
    <3>3. /\ req'[r].pc = pc /\ req'[r].seen = NoSnapshot
          /\ req'[r].input = req[r].input
      BY <3>1, <1>0 DEF Request
    <3> QED
      BY <1>2, <3>2, <3>3
  <2>2. CASE LetThrough(r)
    <3> DEFINE none == <<>>
    <3>1. req' = [req EXCEPT ![r].pc = "validate", ![r].roles = none]
      BY <2>2 DEF LetThrough
    <3> HIDE DEF none
    <3> QED
      BY <3>1, <1>0, <1>2 DEF Request
  <2>3. CASE (\E o \in Outcomes : Finish(r, o)) \/ Goto(r, "match")
    BY <1>1, <1>3, <2>3 DEF PCs
  <2> QED
    BY <1>7, <2>1, <2>2, <2>3, AuthoriseEffect
<1>8. CASE Check(r) /\ ~CheckTarget(r) /\ ~CheckName(r)
  BY <1>1, <1>3, <1>8 DEF Check, ValidateInput, RejectInput, DescribeTarget,
       CheckCredentials, CheckAvailable, OpenSession, PCs
<1>9. CASE CheckName(r)
  <2>1. CASE Goto(r, "write")
    BY <1>0, <1>9, <2>1 DEF Goto, CheckName, Op, Guarded, Request
  <2> QED
    BY <1>1, <1>9, <2>1 DEF CheckName
<1>10. CASE CheckTarget(r)
  <2>1. CASE TargetRefusal(r) # "none"
    BY <1>1, <1>10, <2>1 DEF CheckTarget
  <2>2. CASE TargetRefusal(r) = "none"
    <3> DEFINE pc == IF Op(r) = "detail" THEN "describe" ELSE "write"
               none == <<>>
               roles == IF Op(r) = "detail" THEN req[r].roles ELSE none
    <3>1. req' = [req EXCEPT ![r].pc = pc, ![r].roles = roles]
      BY <1>10, <2>2, <1>0 DEF CheckTarget, Request
    <3>2. pc \in {"describe", "write"}
      OBVIOUS
    <3>3. /\ At(r, "found") /\ Op(r) \in {"update", "reset", "delete", "detail"}
          /\ ~AsOperator(r)
          /\ Op(r) # "detail" => ~SuperOnly(r)
      BY <1>10, <2>2 DEF CheckTarget, TargetRefusal, At
    <3>4. req[r].operator # NoId
      BY <3>3 DEF AsOperator, IsLogin
    <3>5. Op(r) # "detail" =>
            /\ req[r].seen.id = req[r].input.target
            /\ req[r].seen.is_super_admin => req[r].isSuper
      BY <1>0, <3>3, <3>4 DEF Guarded, At, Op, SuperOnly
    <3> HIDE DEF pc, roles
    <3>6. /\ req'[r].pc = pc /\ req'[r].seen = req[r].seen
          /\ req'[r].input = req[r].input /\ req'[r].isSuper = req[r].isSuper
      BY <3>1, <1>0 DEF Request
    <3> QED
      BY <1>0, <3>2, <3>5, <3>6 DEF Guarded, Op
  <2> QED
    BY <2>1, <2>2
<1>11. CASE List(r)
  <2>1. CASE CountAccounts(r)
    BY <1>3, <2>1 DEF CountAccounts, PCs
  <2>2. CASE QueryPage(r)
    <3>1. ASSUME NEW page,
                 req' = [req EXCEPT ![r].pc = "row", ![r].rows = page]
          PROVE  Guarded(req'[r])
      BY <1>0, <1>2, <3>1 DEF Request
    <3> QED
      BY <1>1, <2>2, <3>1 DEF QueryPage
  <2>3. CASE NextRow(r)
    <3> DEFINE none == <<>>
               row == Head(req[r].rows)
               rest == Tail(req[r].rows)
    <3>1. CASE req' = [req EXCEPT ![r].pc = "bindings", ![r].roles = none,
                         ![r].seen = row, ![r].rows = rest]
      <4>1. req[r].input.op = "list"
        BY <2>3 DEF NextRow, Listing, Op
      <4> HIDE DEF none, row, rest
      <4>2. req'[r].pc = "bindings" /\ req'[r].input = req[r].input
        BY <3>1, <1>0 DEF Request
      <4> QED
        BY <4>1, <4>2 DEF Guarded
    <3> QED
      BY <1>1, <2>3, <3>1, <1>0 DEF NextRow, Request
  <2> QED
    BY <1>11, <2>1, <2>2, <2>3 DEF List
<1> QED
  BY <1>4, <1>5, <1>6, <1>7, <1>8, <1>9, <1>10, <1>11

\* A request's record changes on its own goroutine only.
LEMMA OthersKeep ==
  ASSUME TypeInv, [Next]_vars, NEW r \in Requests, req'[r] # req[r]
  PROVE  Start(r) \/ Step(r) \/ Fail(r) \/ Reply(r)
<1>1. req \in [Requests -> Request]
  BY DEF TypeInv, TypeOK
<1>2. ~UNCHANGED vars /\ ~Environment
  BY DEF vars, Environment, CreateTemporaryAdmin, SweepTemporaryAdmins,
         ExpiryPasses, ChangeRole
<1>3. PICK q \in Requests : Start(q) \/ Step(q) \/ Fail(q) \/ Reply(q)
  BY <1>2 DEF Next
<1>4. q # r => req'[r] = req[r]
  <2> SUFFICES ASSUME q # r PROVE req'[r] = req[r]
    OBVIOUS
  <2>1. ASSUME NEW o, Finish(q, o) PROVE req'[r] = req[r]
    BY <1>1, <2>1 DEF Finish
  <2>2. ASSUME NEW pc, Goto(q, pc) PROVE req'[r] = req[r]
    BY <1>1, <2>2 DEF Goto
  <2>3. CASE Start(q) \/ Fail(q) \/ Reply(q)
    BY <1>1, <2>1, <2>3 DEF Start, Arrive, Fail, Reply
  <2>4. CASE Lookup(q)
    BY <1>1, <2>2, <2>4 DEF Lookup, QueryAccount, ReadBindings, ResolveRole,
         KeepOnlyRole
  <2>5. CASE Authorise(q)
    BY <1>1, <2>1, <2>2, <2>5, AuthoriseEffect DEF OperatorFound, LetThrough
  <2>6. CASE Check(q)
    BY <1>1, <2>1, <2>2, <2>6 DEF Check, ValidateInput, RejectInput,
         CheckTarget, DescribeTarget, CheckName, CheckCredentials,
         CheckAvailable, OpenSession
  <2>7. CASE Write(q)
    BY <2>1, <2>7, WriteFinishes
  <2>8. CASE List(q)
    BY <1>1, <2>1, <2>2, <2>8 DEF List, CountAccounts, QueryPage, NextRow
  <2> QED
    BY <1>3, <2>3, <2>4, <2>5, <2>6, <2>7, <2>8 DEF Step
<1> QED
  BY <1>3, <1>4

LEMMA GuardStep ==
  ASSUME TypeInv, GuardInv, [Next]_vars
  PROVE  GuardInv'
<1>1. SupersKnown'
  BY SupersKnownStep DEF GuardInv
<1>2. ASSUME NEW r \in Requests PROVE Guarded(req'[r])
  <2>1. CASE req'[r] = req[r]
    BY <2>1 DEF GuardInv
  <2>2. CASE req'[r] # req[r]
    BY <2>2, OthersKeep, GuardedLookup, GuardedRest DEF Step
  <2> QED
    BY <2>1, <2>2
<1> QED
  BY <1>1, <1>2 DEF GuardInv, Guarded, Supers

\* A handler that writes a super administrator's row or bindings acts for a
\* super administrator, although it compared the flags several queries ago; but
\* for a seed that had no flag when the handler looked at it.
THEOREM SuperAdminsProtected == Spec => SuperAdminProtected
<1>1. Init => GuardInv
  <2> SUFFICES ASSUME Init PROVE GuardInv
    OBVIOUS
  <2>1. SupersKnown
    BY ConstantsAssumption DEF Init, SupersKnown, Supers, InitIds, Live
  <2>2. \A r \in Requests : Guarded(req[r])
    BY DEF Init, Guarded, Idle, NoSnapshot
  <2> QED
    BY <2>1, <2>2 DEF GuardInv
<1>2. TypeInv /\ GuardInv /\ [Next]_vars => GuardInv'
  BY GuardStep
<1>3. TypeInv /\ GuardInv /\ [Next]_vars =>
        [\A r \in Requests, i \in Ids :
           WritesSuper(r, i) =>
             \/ req[r].isSuper
             \/ i = Seed /\ req[r].seen.id = i
                /\ ~req[r].seen.is_super_admin]_vars
  <2> SUFFICES ASSUME TypeInv, GuardInv, [Next]_vars, NEW r \in Requests,
                      NEW i \in Ids, WritesSuper(r, i)
               PROVE  \/ req[r].isSuper
                      \/ i = Seed /\ req[r].seen.id = i
                         /\ ~req[r].seen.is_super_admin
    OBVIOUS
  <2>0. /\ account \in [Ids -> Row \cup {NoRow}]
        /\ bindings \in [Ids -> Seq(Roles)] /\ i # NoId
        /\ i \in Live /\ i \in issued /\ Guarded(req[r])
        /\ i # Seed => i \in Supers
        /\ At(r, "write") /\ req'[r] # req[r]
        /\ <<account[i], bindings[i]>> # <<account'[i], bindings'[i]>>
    BY ConstantsAssumption
       DEF TypeInv, TypeOK, GuardInv, SupersKnown, IsSuper, WritesSuper
  <2>1. ~UNCHANGED tables
    BY <2>0 DEF tables
  <2>2. Write(r)
    <3>1. /\ ~Start(r) /\ ~Fail(r) /\ ~Reply(r) /\ ~Check(r) /\ ~Authorise(r)
          /\ ~List(r)
      BY <2>1, AuthoriseEffect
         DEF Start, Arrive, Fail, Reply, Check, ValidateInput, RejectInput,
             CheckTarget, DescribeTarget, CheckName, CheckCredentials,
             CheckAvailable, OpenSession, List, CountAccounts, QueryPage,
             NextRow
    <3>2. ~Lookup(r)
      BY <2>0 DEF Lookup, QueryAccount, ReadBindings, ResolveRole,
                  KeepOnlyRole, At
    <3> QED
      BY <2>0, <3>1, <3>2, OthersKeep DEF Step
  <2>3. ~createAccount(r)
    BY <2>0, <2>1 DEF createAccount, NewIds, tables
  <2>4. /\ Op(r) \in {"update", "reset", "delete"}
        /\ i = req[r].input.target
    BY <2>0, <2>1, <2>2, <2>3
       DEF Write, TargetGone, updateAccount, resetPassword, deleteAccount,
           tables
  <2> QED
    BY <2>0, <2>4 DEF Guarded, At, Op
<1> QED
  BY <1>1, <1>2, <1>3, TypeInvariant, PTL DEF Spec, SuperAdminProtected
-----------------------------------------------------------------------------
(* Steps of one request, and what they leave alone *)

SameRequest(r) ==
  /\ req'[r].input = req[r].input /\ req'[r].operator = req[r].operator
  /\ req'[r].outcome = req[r].outcome

LEMMA GotoMoves ==
  ASSUME TypeInv, NEW r \in Requests, NEW pc, Goto(r, pc)
  PROVE  /\ SameRequest(r) /\ req'[r].pc = pc
         /\ req'[r].seen = req[r].seen /\ req'[r].roles = req[r].roles
         /\ req'[r].rows = req[r].rows
<1>1. req \in [Requests -> Request] /\ req[r] \in Request
  BY DEF TypeInv, TypeOK
<1> QED
  BY <1>1 DEF Goto, SameRequest, Request

LEMMA FinishMoves ==
  ASSUME TypeInv, NEW r \in Requests, NEW o, Finish(r, o)
  PROVE  /\ req'[r].pc = "done" /\ req'[r].outcome = o
         /\ req'[r].input = req[r].input
         /\ req'[r].operator = req[r].operator
<1>1. req \in [Requests -> Request] /\ req[r] \in Request
  BY DEF TypeInv, TypeOK
<1> QED
  BY <1>1 DEF Finish, Idle

LEMMA QueryMoves ==
  ASSUME TypeInv, NEW r \in Requests, QueryAccount(r)
  PROVE  /\ SameRequest(r) /\ req'[r].rows = req[r].rows
         /\ \/ req'[r].pc = "absent"
            \/ /\ req'[r].pc = "bindings"
               /\ \E i \in Wanted(r) : req'[r].seen = SnapshotOf(i)
<1>1. req \in [Requests -> Request] /\ req[r] \in Request
  BY DEF TypeInv, TypeOK
<1>2. CASE Goto(r, "absent")
  BY <1>2, GotoMoves
<1>3. ASSUME NEW i \in Wanted(r),
             req' = [req EXCEPT ![r].pc = "bindings",
                                ![r].seen = SnapshotOf(i)]
      PROVE  /\ SameRequest(r) /\ req'[r].pc = "bindings"
             /\ req'[r].rows = req[r].rows /\ req'[r].seen = SnapshotOf(i)
  BY <1>1, <1>3 DEF SameRequest, Request
<1> QED
  BY <1>2, <1>3 DEF QueryAccount

\* The roles a look-up has in hand are what it read, or some of what it had.
LEMMA RolesMove ==
  ASSUME TypeInv, NEW r \in Requests,
         ReadBindings(r) \/ ResolveRole(r) \/ KeepOnlyRole(r)
  PROVE  /\ SameRequest(r) /\ req'[r].seen = req[r].seen
         /\ req[r].pc \in {"bindings", "resolve", "keep"}
         /\ req'[r].pc \in {"resolve", "keep", "found", "unbound"}
         /\ \/ /\ req[r].pc = "bindings"
               /\ req'[r].roles = bindings[req[r].seen.id]
            \/ /\ req[r].pc # "bindings"
               /\ \A n \in DOMAIN req'[r].roles : \E m \in DOMAIN req[r].roles :
                    req'[r].roles[n] = req[r].roles[m]
<1>1. req \in [Requests -> Request] /\ req[r] \in Request
  BY DEF TypeInv, TypeOK
<1>2. CASE ReadBindings(r)
  <2> DEFINE ids == bindings[req[r].seen.id]
             pc == CASE Len(ids) = 0 -> Unbound(r)
                     [] Len(ids) = 1 -> "found"
                     [] OTHER -> "resolve"
  <2>1. req' = [req EXCEPT ![r].roles = ids, ![r].pc = pc]
    BY <1>2 DEF ReadBindings
  <2>2. pc \in {"resolve", "found", "unbound"}
    BY DEF Unbound
  <2> HIDE DEF ids, pc
  <2>3. /\ req'[r].roles = ids /\ req'[r].pc = pc
        /\ req'[r].seen = req[r].seen /\ SameRequest(r)
    BY <1>1, <2>1 DEF SameRequest, Request
  <2>4. req[r].pc = "bindings"
    BY <1>2 DEF ReadBindings, At
  <2> QED
    BY <2>2, <2>3, <2>4 DEF ids
<1>3. CASE ResolveRole(r)
  <2> DEFINE ids == req[r].roles
             one == <<Head(ids)>>
             rest == Tail(ids)
             pc == IF rest # <<>> THEN "resolve" ELSE Unbound(r)
  <2>1. \/ req' = [req EXCEPT ![r].roles = one, ![r].pc = "keep"]
        \/ req' = [req EXCEPT ![r].roles = rest, ![r].pc = pc]
    BY <1>3 DEF ResolveRole
  <2>2. pc \in {"resolve", "found", "unbound"}
    BY DEF Unbound
  <2>3. req[r].pc = "resolve" /\ ids \in Seq(Roles) /\ ids # <<>>
    BY <1>1, <1>3 DEF ResolveRole, At, Request, TypeInv, RolesNormalised
  <2>4. \A n \in DOMAIN one : \E m \in DOMAIN ids : one[n] = ids[m]
    <3>1. 1 \in DOMAIN ids /\ Head(ids) = ids[1]
      BY <2>3
    <3>2. \A n \in DOMAIN one : one[n] = Head(ids)
      OBVIOUS
    <3> QED
      BY <3>1, <3>2
  <2>5. \A n \in DOMAIN rest : \E m \in DOMAIN ids : rest[n] = ids[m]
    <3>1. \A n \in DOMAIN rest : n + 1 \in DOMAIN ids /\ rest[n] = ids[n + 1]
      BY <2>3
    <3> QED
      BY <3>1
  <2> HIDE DEF one, rest, pc
  <2>6. CASE req' = [req EXCEPT ![r].roles = one, ![r].pc = "keep"]
    <3>1. /\ req'[r].roles = one /\ req'[r].pc = "keep"
          /\ req'[r].seen = req[r].seen /\ SameRequest(r)
      BY <1>1, <2>6 DEF SameRequest, Request
    <3> QED
      BY <2>3, <2>4, <3>1
  <2>7. CASE req' = [req EXCEPT ![r].roles = rest, ![r].pc = pc]
    <3>1. /\ req'[r].roles = rest /\ req'[r].pc = pc
          /\ req'[r].seen = req[r].seen /\ SameRequest(r)
      BY <1>1, <2>7 DEF SameRequest, Request
    <3> QED
      BY <2>2, <2>3, <2>5, <3>1
  <2> QED
    BY <2>1, <2>6, <2>7
<1>4. CASE KeepOnlyRole(r)
  <2>1. Goto(r, "found") /\ req[r].pc = "keep"
    BY <1>4 DEF KeepOnlyRole, At
  <2> QED
    BY <2>1, GotoMoves
<1> QED
  BY <1>2, <1>3, <1>4

LEMMA RowsStay ==
  ASSUME TypeInv, NEW r \in Requests,
         ReadBindings(r) \/ ResolveRole(r) \/ KeepOnlyRole(r)
  PROVE  req'[r].rows = req[r].rows
<1>0. req \in [Requests -> Request] /\ req[r] \in Request
  BY DEF TypeInv, TypeOK
<1>1. CASE ReadBindings(r)
  <2> DEFINE ids == bindings[req[r].seen.id]
             pc == CASE Len(ids) = 0 -> Unbound(r)
                     [] Len(ids) = 1 -> "found"
                     [] OTHER -> "resolve"
  <2>1. req' = [req EXCEPT ![r].roles = ids, ![r].pc = pc]
    BY <1>1 DEF ReadBindings
  <2> HIDE DEF ids, pc
  <2> QED
    BY <1>0, <2>1 DEF Request
<1>2. CASE ResolveRole(r)
  <2> DEFINE one == <<Head(req[r].roles)>>
             rest == Tail(req[r].roles)
             pc == IF rest # <<>> THEN "resolve" ELSE Unbound(r)
  <2>1. \/ req' = [req EXCEPT ![r].roles = one, ![r].pc = "keep"]
        \/ req' = [req EXCEPT ![r].roles = rest, ![r].pc = pc]
    BY <1>2 DEF ResolveRole
  <2> HIDE DEF one, rest, pc
  <2> QED
    BY <1>0, <2>1 DEF Request
<1>3. CASE KeepOnlyRole(r)
  BY <1>0, <1>3 DEF KeepOnlyRole, Goto, Request
<1> QED
  BY <1>1, <1>2, <1>3

-----------------------------------------------------------------------------
(* Bindings without an account                                              *)

\* A late clean-up could only touch an account that is gone if that account
\* had been found while it was there, and its bindings went with it.
Clean(i) == i \in Live \/ bindings[i] = <<>>
InHand(q, i) == q.seen.id = i \/ \E n \in DOMAIN q.rows : q.rows[n].id = i
HandsClean == \A r \in Requests, i \in Ids : InHand(req[r], i) => Clean(i)

LEMMA CleanStays ==
  ASSUME TypeInv, [Next]_vars, NEW i \in Ids, Clean(i)
  PROVE  Clean(i)'
<1>0. /\ account \in [Ids -> Row \cup {NoRow}] /\ NoRow \notin Row
      /\ bindings \in [Ids -> Seq(Roles)] /\ Live \subseteq Ids /\ Seed \in Ids
  BY ConstantsAssumption DEF TypeInv, TypeOK, Live
<1>1. CASE UNCHANGED tables \/ Restore \/ Insert \/ Remove
  BY <1>0, <1>1 DEF tables, Restore, Insert, Remove, Clean, Live
<1>2. CASE Rebind \/ Recolumn
  BY <1>0, <1>2 DEF Rebind, Recolumn, SameAccounts, Clean
<1>3. CASE Prune
  <2>1. \A role : KeepOnly(<<>>, role) = <<>>
    BY DEF KeepOnly
  <2> QED
    BY <1>0, <1>3, <2>1 DEF Prune, Clean, Live
<1> QED
  BY <1>1, <1>2, <1>3, StepEffect

\* A handler takes in hand what it finds among the accounts, and nothing else.
LEMMA HandsStep ==
  ASSUME TypeInv, NEW r \in Requests,
         Start(r) \/ Step(r) \/ Fail(r) \/ Reply(r),
         NEW i \in Ids, InHand(req'[r], i)
  PROVE  InHand(req[r], i) \/ i \in Live
<1>0. req \in [Requests -> Request] /\ req[r] \in Request /\ NoId \notin Ids
  BY ConstantsAssumption DEF TypeInv, TypeOK
<1>1. ASSUME NEW o, Finish(r, o) PROVE FALSE
  <2>1. req'[r].seen = NoSnapshot /\ req'[r].rows = <<>>
    BY <1>0, <1>1 DEF Finish, Idle
  <2> QED
    BY <1>0, <2>1 DEF InHand, NoSnapshot
<1>2. ASSUME req'[r].seen = req[r].seen \/ req'[r].seen = NoSnapshot,
             req'[r].rows = req[r].rows
      PROVE  InHand(req[r], i)
  BY <1>0, <1>2 DEF InHand, NoSnapshot
<1>3. ASSUME NEW pc, Goto(r, pc) PROVE InHand(req[r], i)
  BY <1>2, <1>3, GotoMoves
<1>4. CASE Start(r)
  <2>1. PICK input \in Inputs :
          req' = [req EXCEPT ![r].pc = "query", ![r].input = input]
    BY <1>4 DEF Start, Arrive
  <2>2. req'[r].seen = req[r].seen /\ req'[r].rows = req[r].rows
    BY <1>0, <2>1 DEF Request
  <2> QED
    BY <1>2, <2>2
<1>5. CASE Reply(r)
  <2>1. req'[r].seen = NoSnapshot /\ req'[r].rows = <<>>
    BY <1>0, <1>5 DEF Reply, Idle
  <2> QED
    BY <1>0, <2>1 DEF InHand, NoSnapshot
<1>6. CASE Fail(r) \/ Write(r)
  BY <1>1, <1>6, WriteFinishes DEF Fail
<1>7. CASE Lookup(r)
  <2>1. CASE QueryAccount(r)
    <3>1. CASE Goto(r, "absent")
      BY <1>3, <3>1
    <3>2. ASSUME NEW j \in Wanted(r),
                 req' = [req EXCEPT ![r].pc = "bindings",
                                    ![r].seen = SnapshotOf(j)]
          PROVE  InHand(req[r], i) \/ i \in Live
      <4>1. req'[r].seen.id = j /\ req'[r].rows = req[r].rows /\ j \in Live
        BY <1>0, <3>2 DEF SnapshotOf, Wanted, Request
      <4> QED
        BY <4>1 DEF InHand
    <3> QED
      BY <2>1, <3>1, <3>2 DEF QueryAccount
  <2>2. CASE ReadBindings(r) \/ ResolveRole(r) \/ KeepOnlyRole(r)
    BY <1>2, <2>2, RolesMove, RowsStay
  <2> QED
    BY <1>7, <2>1, <2>2 DEF Lookup
<1>8. CASE Authorise(r)
  <2>1. CASE OperatorFound(r)
    <3> DEFINE seen == req[r].seen
               none == <<>>
               roles == IF seen.is_super_admin THEN none ELSE req[r].roles
               pc == IF seen.is_super_admin THEN "validate" ELSE "permit"
    <3>1. req' = [req EXCEPT ![r].operator = seen.id,
                    ![r].isSuper = seen.is_super_admin,
                    ![r].seen = NoSnapshot, ![r].roles = roles, ![r].pc = pc]
      BY <2>1, <1>0 DEF OperatorFound, Request
    <3> HIDE DEF pc, roles, seen
    <3> QED
      BY <1>0, <1>2, <3>1 DEF Request
  <2>2. CASE LetThrough(r)
    <3> DEFINE none == <<>>
    <3>1. req' = [req EXCEPT ![r].pc = "validate", ![r].roles = none]
      BY <2>2 DEF LetThrough
    <3> HIDE DEF none
    <3> QED
      BY <1>0, <1>2, <3>1 DEF Request
  <2> QED
    BY <1>1, <1>3, <1>8, <2>1, <2>2, AuthoriseEffect
<1>9. CASE Check(r)
  <2>1. CASE CheckTarget(r)
    <3>1. CASE TargetRefusal(r) # "none"
      BY <1>1, <2>1, <3>1 DEF CheckTarget
    <3>2. CASE TargetRefusal(r) = "none"
      BY <1>0, <1>2, <2>1, <3>2 DEF CheckTarget, Request
    <3> QED
      BY <3>1, <3>2
  <2>2. CASE ~CheckTarget(r)
    BY <1>1, <1>3, <1>9, <2>2 DEF Check, ValidateInput, RejectInput,
       DescribeTarget, CheckName, CheckCredentials, CheckAvailable, OpenSession
  <2> QED
    BY <2>1, <2>2
<1>10. CASE List(r)
  <2>1. CASE CountAccounts(r)
    BY <1>3, <2>1 DEF CountAccounts
  <2>2. CASE QueryPage(r)
    <3>1. ASSUME NEW page \in Pages(req[r].input),
                 req' = [req EXCEPT ![r].pc = "row",
                   ![r].rows = [n \in DOMAIN page |-> SnapshotOf(page[n])]]
          PROVE  InHand(req[r], i) \/ i \in Live
      <4>1. /\ req'[r].seen = req[r].seen
            /\ req'[r].rows = [n \in DOMAIN page |-> SnapshotOf(page[n])]
        BY <1>0, <3>1 DEF Request
      <4>2. \A n \in DOMAIN page : page[n] \in Live
        BY DEF Pages, Matching
      <4>3. \A n \in DOMAIN req'[r].rows :
              n \in DOMAIN page /\ req'[r].rows[n].id = page[n]
        BY <4>1 DEF SnapshotOf
      <4> QED
        BY <4>1, <4>2, <4>3 DEF InHand
    <3> QED
      BY <1>1, <2>2, <3>1 DEF QueryPage
  <2>3. CASE NextRow(r)
    <3> DEFINE none == <<>>
               rows == req[r].rows
               row == Head(rows)
               rest == Tail(rows)
    <3>1. CASE /\ rows # <<>>
               /\ req' = [req EXCEPT ![r].pc = "bindings", ![r].roles = none,
                            ![r].seen = row, ![r].rows = rest]
      <4>1. rows \in Seq(Listed)
        BY <1>0 DEF Request
      <4>2. 1 \in DOMAIN rows /\ row = rows[1]
        BY <3>1, <4>1
      <4>3. \A n \in DOMAIN rest : n + 1 \in DOMAIN rows /\ rest[n] = rows[n + 1]
        BY <3>1, <4>1
      <4> HIDE DEF none, row, rest, rows
      <4>4. req'[r].seen = row /\ req'[r].rows = rest
        BY <1>0, <3>1 DEF Request
      <4> QED
        BY <4>2, <4>3, <4>4 DEF InHand, rows
    <3> QED
      BY <1>1, <2>3, <3>1, <1>0 DEF NextRow, Request
  <2> QED
    BY <1>10, <2>1, <2>2, <2>3 DEF List
<1> QED
  BY <1>4, <1>5, <1>6, <1>7, <1>8, <1>9, <1>10 DEF Step

LEMMA HandsStayClean ==
  ASSUME TypeInv, HandsClean, [Next]_vars
  PROVE  HandsClean'
<1> SUFFICES ASSUME NEW r \in Requests, NEW i \in Ids, InHand(req'[r], i)
             PROVE  Clean(i)'
  BY DEF HandsClean, InHand
<1>1. InHand(req[r], i) \/ i \in Live
  BY OthersKeep, HandsStep
<1>2. Clean(i)
  BY <1>1 DEF HandsClean, Clean
<1> QED
  BY <1>2, CleanStays

\* On any database, also one with bindings left of accounts that are gone, no
\* step leaves an account's bindings behind, adds one to what is left, or gives
\* one to an id that has no account.
THEOREM NoOrphansMade == Spec => []NoNewOrphans
<1> DEFINE OInv == HandsClean /\ NoNewOrphans
<1>1. Init => OInv
  BY ConstantsAssumption
     DEF Init, HandsClean, InHand, Idle, NoSnapshot, NoNewOrphans, Live
<1>2. TypeInv /\ OInv /\ [Next]_vars => OInv'
  <2> SUFFICES ASSUME TypeInv, OInv, [Next]_vars PROVE NoNewOrphans'
    BY HandsStayClean
  <2> SUFFICES ASSUME NEW i \in Ids, i \notin Live', bindings'[i] # <<>>
               PROVE  InitAccounts[i] = NoRow /\ bindings'[i] = InitBindings[i]
    BY DEF NoNewOrphans
  <2>0. /\ account \in [Ids -> Row \cup {NoRow}] /\ NoRow \notin Row
        /\ bindings \in [Ids -> Seq(Roles)] /\ Live \subseteq Ids
        /\ Seed \in Ids
    BY ConstantsAssumption DEF TypeInv, TypeOK, Live
  <2>1. ~Clean(i)
    BY CleanStays DEF Clean
  <2>2. i \notin Live /\ bindings[i] # <<>>
    BY <2>1 DEF Clean
  <2>3. bindings'[i] = bindings[i]
    <3>1. CASE UNCHANGED tables \/ Restore \/ Recolumn
      BY <3>1 DEF tables, Restore, Recolumn
    <3>2. CASE Insert \/ Remove
      BY <2>0, <2>2, <3>2 DEF Insert, Remove, Live
    <3>3. CASE Rebind
      BY <2>0, <2>2, <3>3 DEF Rebind
    <3>4. CASE Prune
      BY <2>0, <2>1, <3>4 DEF Prune, HandsClean, InHand
    <3> QED
      BY <3>1, <3>2, <3>3, <3>4, StepEffect
  <2> QED
    BY <2>2, <2>3 DEF NoNewOrphans
<1> QED
  BY <1>1, <1>2, TypeInvariant, PTL DEF Spec

-----------------------------------------------------------------------------
(* Handlers get nearer to their answer *)

Midway == {"permit", "match", "validate", "count", "page"}
Working == {"query", "bindings", "resolve", "keep", "absent", "unbound",
            "found", "available", "describe", "session", "row", "write"}

LEMMA Places ==
  /\ Place("session") = 0 /\ Place("done") = 0
  /\ Place("available") = 1 /\ Place("describe") = 1 /\ Place("write") = 1
  /\ Place("absent") = 2 /\ Place("unbound") = 2 /\ Place("found") = 2
  /\ Place("row") = 2 /\ Place("keep") = 3 /\ Place("resolve") = 4
  /\ Place("bindings") = 5 /\ Place("query") = 6 /\ Place("page") = 7
  /\ Place("count") = 8 /\ Place("validate") = 9 /\ Place("match") = 10
  /\ Place("permit") = 11
  BY DEF Place

LEMMA FinishNearer ==
  ASSUME TypeInv, NEW r \in Requests, NEW o, Finish(r, o),
         req[r].pc \in Midway \cup Working
  PROVE  Nearer(req'[r], req[r])
<1>1. Stage(req'[r]) = 0
  BY FinishMoves DEF Stage
<1>2. Stage(req[r]) > 0
  BY DEF Stage, Midway, Working
<1> QED
  BY <1>1, <1>2 DEF Nearer

\* The next call of the same stage.
LEMMA PlaceNearer ==
  ASSUME NEW p, NEW q, q.rows = p.rows,
         \/ p.pc \in Midway /\ q.pc \in Midway
         \/ /\ p.pc \in Working /\ q.pc \in Working
            /\ q.operator = p.operator /\ q.input = p.input,
         Place(q.pc) < Place(p.pc)
  PROVE  Nearer(q, p)
<1>1. Stage(q) = Stage(p)
  BY DEF Stage, Midway, Working
<1> QED
  BY <1>1 DEF Nearer

\* The next stage.
LEMMA StageNearer ==
  ASSUME NEW p, NEW q,
         \/ p.pc \in Midway /\ q.pc \in Working /\ q.operator # NoId
         \/ /\ p.pc \in Working /\ q.pc \in Midway
            /\ p.operator = NoId /\ p.input.op \notin {"login", "validate"}
  PROVE  Nearer(q, p)
<1>1. Stage(q) < Stage(p)
  BY DEF Stage, Midway, Working
<1> QED
  BY <1>1 DEF Nearer



\* The loop of normalizeAccountRoles asks about fewer roles each time.
LEMMA ResolveShortens ==
  ASSUME TypeInv, NEW r \in Requests, ResolveRole(r), req'[r].pc = "resolve"
  PROVE  Len(req'[r].roles) < Len(req[r].roles)
<1>0. req \in [Requests -> Request] /\ req[r] \in Request
  BY DEF TypeInv, TypeOK
<1> DEFINE ids == req[r].roles
           one == <<Head(ids)>>
           rest == Tail(ids)
           pc == IF rest # <<>> THEN "resolve" ELSE Unbound(r)
<1>1. \/ req' = [req EXCEPT ![r].roles = one, ![r].pc = "keep"]
      \/ req' = [req EXCEPT ![r].roles = rest, ![r].pc = pc]
  BY DEF ResolveRole
<1>2. ids \in Seq(Roles) /\ ids # <<>>
  BY <1>0 DEF ResolveRole, At, Request, TypeInv, RolesNormalised
<1>3. Len(rest) < Len(ids)
  BY <1>2
<1> HIDE DEF one, rest, pc
<1>4. req' = [req EXCEPT ![r].roles = rest, ![r].pc = pc]
  <2>1. ASSUME req' = [req EXCEPT ![r].roles = one, ![r].pc = "keep"]
        PROVE  req'[r].pc = "keep"
    BY <1>0, <2>1 DEF Request
  <2> QED
    BY <1>1, <2>1
<1>5. req'[r].roles = rest
  BY <1>0, <1>4 DEF Request
<1> QED
  BY <1>3, <1>5

LEMMA LookupNearer ==
  ASSUME TypeInv, NEW r \in Requests, Lookup(r)
  PROVE  Nearer(req'[r], req[r])
<1> DEFINE p == req[r]
           q == req'[r]
<1>1. /\ q.operator = p.operator /\ q.input = p.input /\ q.rows = p.rows
      /\ p.pc \in {"query", "bindings", "resolve", "keep"}
      /\ q.pc \in Working
  BY QueryMoves, RolesMove, RowsStay
     DEF Lookup, QueryAccount, At, SameRequest, Working
<1>2. Place(q.pc) < Place(p.pc) => Nearer(q, p)
  BY <1>1, PlaceNearer DEF Working
<1>3. CASE QueryAccount(r)
  <2>1. p.pc = "query" /\ q.pc \in {"absent", "bindings"}
    BY <1>3, QueryMoves DEF QueryAccount, At
  <2> QED
    BY <1>2, <2>1, Places
<1>4. CASE ReadBindings(r)
  <2>1. p.pc = "bindings" /\ q.pc \in {"resolve", "keep", "found", "unbound"}
    BY <1>4, RolesMove DEF ReadBindings, At
  <2> QED
    BY <1>2, <2>1, Places
<1>5. CASE ResolveRole(r)
  <2>1. p.pc = "resolve" /\ q.pc \in {"resolve", "keep", "found", "unbound"}
    BY <1>5, RolesMove DEF ResolveRole, At
  <2>2. CASE q.pc = "resolve"
    <3>1. Len(q.roles) < Len(p.roles)
      BY <1>5, <2>2, ResolveShortens
    <3>2. Stage(q) = Stage(p)
      BY <1>1, <2>1, <2>2 DEF Stage
    <3> QED
      BY <1>1, <2>1, <2>2, <3>1, <3>2 DEF Nearer
  <2> QED
    BY <1>2, <2>1, <2>2, Places
<1>6. CASE KeepOnlyRole(r)
  <2>1. p.pc = "keep" /\ q.pc = "found"
    BY <1>6, GotoMoves DEF KeepOnlyRole, At
  <2> QED
    BY <1>2, <2>1, Places
<1> QED
  BY <1>3, <1>4, <1>5, <1>6 DEF Lookup

\* A call that is next on the way of a handler.
LEMMA GotoNearer ==
  ASSUME TypeInv, NEW r \in Requests, NEW pc, Goto(r, pc),
         \/ req[r].pc \in Midway /\ pc \in Midway
         \/ req[r].pc \in Working /\ pc \in Working,
         Place(pc) < Place(req[r].pc)
  PROVE  Nearer(req'[r], req[r])
  BY GotoMoves, PlaceNearer DEF SameRequest

\* A handler that asks for a permission or has it knows its operator.
OperatorKnown ==
  \A r \in Requests :
    req[r].pc \in {"permit", "match", "validate"} => req[r].operator # NoId

LEMMA OperatorFoundMoves ==
  ASSUME TypeInv, NEW r \in Requests, OperatorFound(r)
  PROVE  /\ req[r].pc = "found" /\ AsOperator(r)
         /\ req'[r].pc \in {"validate", "permit"}
         /\ req'[r].operator # NoId
<1>0. req \in [Requests -> Request] /\ req[r] \in Request
  BY DEF TypeInv, TypeOK
<1> DEFINE seen == req[r].seen
           none == <<>>
           roles == IF seen.is_super_admin THEN none ELSE req[r].roles
           pc == IF seen.is_super_admin THEN "validate" ELSE "permit"
<1>1. req' = [req EXCEPT ![r].operator = seen.id,
                ![r].isSuper = seen.is_super_admin,
                ![r].seen = NoSnapshot, ![r].roles = roles,
                ![r].pc = pc]
  BY <1>0 DEF OperatorFound, Request
<1>2. pc \in {"validate", "permit"} /\ req[r].pc = "found" /\ AsOperator(r)
  BY DEF OperatorFound, At
<1>3. seen.id # NoId
  BY <1>2 DEF TypeInv, RolesNormalised
<1> HIDE DEF pc, roles
<1>4. req'[r].operator = seen.id /\ req'[r].pc = pc
  BY <1>0, <1>1 DEF Request
<1> QED
  BY <1>2, <1>3, <1>4

LEMMA AuthoriseNearer ==
  ASSUME TypeInv, NEW r \in Requests, Authorise(r)
  PROVE  Nearer(req'[r], req[r])
<1>0. req \in [Requests -> Request] /\ req[r] \in Request
  BY DEF TypeInv, TypeOK
<1>1. req[r].pc \in Midway \cup Working
  BY DEF Authorise, OperatorRefused, AnswerSuper, OperatorFound, PermitRole,
     MatchPermission, At, Midway, Working
<1>2. ASSUME NEW o \in Outcomes, Finish(r, o) PROVE Nearer(req'[r], req[r])
  BY <1>1, <1>2, FinishNearer
<1>3. CASE OperatorFound(r)
  <2>1. /\ req[r].pc \in Working /\ req[r].operator = NoId
        /\ req[r].input.op \notin {"login", "validate"}
        /\ req'[r].pc \in Midway
    BY <1>3, OperatorFoundMoves
       DEF AsOperator, IsLogin, Op, Working, Midway
  <2> QED
    BY <2>1, StageNearer
<1>4. CASE At(r, "permit") /\ Goto(r, "match")
  BY <1>4, GotoNearer, Places DEF At, Midway
<1>5. CASE LetThrough(r)
  <2>1. req[r].pc = "match" /\ req'[r].pc = "validate"
        /\ req'[r].rows = req[r].rows
    BY <1>0, <1>5 DEF LetThrough, At, Request
  <2> QED
    BY <2>1, PlaceNearer, Places DEF Midway
<1> QED
  BY <1>2, <1>3, <1>4, <1>5, AuthoriseEffect

LEMMA CheckNearer ==
  ASSUME TypeInv, OperatorKnown, NEW r \in Requests, Check(r)
  PROVE  Nearer(req'[r], req[r])
<1>0. req \in [Requests -> Request] /\ req[r] \in Request
  BY DEF TypeInv, TypeOK
<1>1. req[r].pc \in Midway \cup Working
  BY DEF Check, ValidateInput, RejectInput, CheckTarget, DescribeTarget,
     CheckName, CheckCredentials, CheckAvailable, OpenSession, At, Midway,
     Working
<1>2. ASSUME NEW o, Finish(r, o) PROVE Nearer(req'[r], req[r])
  BY <1>1, <1>2, FinishNearer
<1>3. CASE ValidateInput(r)
  <2>1. req[r].pc = "validate" /\ req[r].operator # NoId
    BY <1>3 DEF ValidateInput, At, OperatorKnown
  <2>2. CASE Goto(r, "count")
    BY <2>1, <2>2, GotoNearer, Places DEF Midway
  <2>3. CASE Goto(r, "query")
    <3>1. req'[r].pc = "query" /\ req'[r].operator # NoId
      BY <2>1, <2>3, GotoMoves DEF SameRequest
    <3> QED
      BY <2>1, <3>1, StageNearer DEF Midway, Working
  <2> QED
    BY <1>2, <1>3, <2>2, <2>3 DEF ValidateInput
<1>4. CASE CheckTarget(r)
  <2>1. CASE TargetRefusal(r) # "none"
    BY <1>2, <1>4, <2>1 DEF CheckTarget
  <2>2. CASE TargetRefusal(r) = "none"
    <3>1. req[r].pc \in {"absent", "unbound", "found"}
      BY <1>4 DEF CheckTarget
    <3>2. /\ req'[r].pc \in {"describe", "write"} /\ req'[r].rows = req[r].rows
          /\ req'[r].operator = req[r].operator
          /\ req'[r].input = req[r].input
      BY <1>0, <1>4, <2>2 DEF CheckTarget, Request
    <3>3. Place(req'[r].pc) < Place(req[r].pc)
      BY <3>1, <3>2, Places
    <3> QED
      BY <3>1, <3>2, <3>3, PlaceNearer DEF Working
  <2> QED
    BY <2>1, <2>2
<1>5. CASE CheckName(r)
  <2>1. CASE At(r, "absent") /\ Goto(r, "write")
    BY <2>1, GotoNearer, Places DEF At, Working
  <2> QED
    BY <1>2, <1>5, <2>1 DEF CheckName
<1>6. CASE CheckCredentials(r)
  <2>1. req[r].pc \in {"absent", "unbound", "found"}
    BY <1>6 DEF CheckCredentials
  <2>2. ASSUME NEW pc \in {"session", "available"}, Goto(r, pc)
        PROVE  Nearer(req'[r], req[r])
    BY <2>1, <2>2, GotoNearer, Places DEF Working
  <2> QED
    BY <1>2, <1>6, <2>2 DEF CheckCredentials
<1>7. CASE CheckAvailable(r)
  <2>1. CASE Goto(r, "session")
    BY <1>7, <2>1, GotoNearer, Places DEF CheckAvailable, At, Working
  <2> QED
    BY <1>2, <1>7, <2>1 DEF CheckAvailable
<1>8. CASE RejectInput(r) \/ DescribeTarget(r) \/ OpenSession(r)
  BY <1>2, <1>8 DEF RejectInput, DescribeTarget, OpenSession
<1> QED
  BY <1>3, <1>4, <1>5, <1>6, <1>7, <1>8 DEF Check


LEMMA ListNearer ==
  ASSUME TypeInv, NEW r \in Requests, List(r)
  PROVE  Nearer(req'[r], req[r])
<1>0. req \in [Requests -> Request] /\ req[r] \in Request
  BY DEF TypeInv, TypeOK
<1>1. req[r].pc \in Midway \cup Working
  BY DEF List, CountAccounts, QueryPage, NextRow, At, Midway, Working
<1>2. ASSUME NEW o, Finish(r, o) PROVE Nearer(req'[r], req[r])
  BY <1>1, <1>2, FinishNearer
<1>3. CASE CountAccounts(r)
  BY <1>3, GotoNearer, Places DEF CountAccounts, At, Midway
<1>4. CASE QueryPage(r)
  <2>1. req[r].pc = "page" /\ req[r].operator # NoId
    BY <1>4 DEF QueryPage, At, Listing, AsOperator, IsLogin, Op
  <2>2. ASSUME NEW rows, req' = [req EXCEPT ![r].pc = "row", ![r].rows = rows]
        PROVE  Nearer(req'[r], req[r])
    <3>1. req'[r].pc = "row" /\ req'[r].operator = req[r].operator
      BY <1>0, <2>2 DEF Request
    <3> QED
      BY <2>1, <3>1, StageNearer DEF Midway, Working
  <2> QED
    BY <1>2, <1>4, <2>2 DEF QueryPage
<1>5. CASE NextRow(r)
  <2>1. CASE req[r].rows = <<>>
    BY <1>2, <1>5, <2>1 DEF NextRow
  <2>2. CASE req[r].rows # <<>>
    <3> DEFINE none == <<>>
               first == Head(req[r].rows)
               rest == Tail(req[r].rows)
    <3>1. req' = [req EXCEPT ![r].pc = "bindings", ![r].roles = none,
                             ![r].seen = first, ![r].rows = rest]
      BY <1>0, <1>5, <2>2 DEF NextRow, Request
    <3>2. Len(rest) < Len(req[r].rows)
      BY <1>0, <2>2 DEF Request
    <3> HIDE DEF none, first, rest
    <3>3. /\ req'[r].pc = "bindings" /\ req'[r].rows = rest
          /\ req'[r].operator = req[r].operator
          /\ req'[r].input = req[r].input
      BY <1>0, <3>1 DEF Request
    <3>4. Stage(req'[r]) = Stage(req[r])
      BY <1>5, <3>3 DEF Stage, NextRow
    <3> QED
      BY <3>2, <3>3, <3>4 DEF Nearer
  <2> QED
    BY <2>1, <2>2
<1> QED
  BY <1>3, <1>4, <1>5 DEF List

LEMMA StepNearer ==
  ASSUME TypeInv, OperatorKnown, NEW r \in Requests, Step(r) \/ Fail(r)
  PROVE  Nearer(req'[r], req[r])
<1>1. CASE Write(r)
  <2>1. req[r].pc \in Working
    BY <1>1 DEF Write, createAccount, TargetGone, updateAccount,
       resetPassword, deleteAccount, At, Working
  <2> QED
    BY <1>1, <2>1, WriteFinishes, FinishNearer
<1>2. CASE Fail(r)
  <2>1. req[r].pc \in Midway \cup Working
    BY <1>2 DEF Fail, TypeInv, TypeOK, Request, PCs, Midway, Working
  <2> QED
    BY <1>2, <2>1, FinishNearer DEF Fail
<1> QED
  BY <1>1, <1>2, LookupNearer, AuthoriseNearer, CheckNearer, ListNearer
     DEF Step

\* Only authorisation leads to these places, and it remembers the operator.
LEMMA OperatorKnownStep ==
  ASSUME TypeInv, OperatorKnown, [Next]_vars
  PROVE  OperatorKnown'
<1> DEFINE Asked == {"permit", "match", "validate"}
<1> SUFFICES ASSUME NEW r \in Requests, req'[r] # req[r], req'[r].pc \in Asked
             PROVE  req'[r].operator # NoId
  BY DEF OperatorKnown
<1>0. req \in [Requests -> Request] /\ req[r] \in Request
  BY DEF TypeInv, TypeOK
<1>1. ASSUME NEW o, Finish(r, o) PROVE FALSE
  BY <1>1, FinishMoves
<1>2. ~Start(r) /\ ~Fail(r) /\ ~Reply(r)
  <2>1. ~Start(r) /\ ~Reply(r)
    BY <1>0 DEF Start, Arrive, Reply, Idle, Request
  <2> QED
    BY <1>1, <2>1 DEF Fail
<1>3. ~Lookup(r)
  BY QueryMoves, RolesMove DEF Lookup
<1>4. CASE Authorise(r)
  <2>1. CASE At(r, "permit") /\ Goto(r, "match")
    BY <2>1, GotoMoves DEF At, OperatorKnown, SameRequest
  <2>2. CASE LetThrough(r)
    BY <1>0, <2>2 DEF LetThrough, At, OperatorKnown, Request
  <2> QED
    BY <1>1, <1>4, <2>1, <2>2, OperatorFoundMoves, AuthoriseEffect
<1>5. ~Check(r)
  <2>1. ASSUME CheckTarget(r) PROVE FALSE
    BY <1>0, <1>1, <2>1 DEF CheckTarget, Request
  <2>2. ASSUME NEW pc \in {"count", "query", "write", "session", "available"},
               Goto(r, pc)
        PROVE  FALSE
    BY <2>2, GotoMoves
  <2> QED
    BY <1>1, <2>1, <2>2 DEF Check, ValidateInput, RejectInput, DescribeTarget,
       CheckName, CheckCredentials, CheckAvailable, OpenSession
<1>6. ~List(r)
  <2>1. ASSUME NextRow(r) PROVE FALSE
    BY <1>0, <1>1, <2>1 DEF NextRow, Request
  <2>2. ASSUME QueryPage(r) PROVE FALSE
    BY <1>0, <1>1, <2>2 DEF QueryPage, Request
  <2> QED
    BY <2>1, <2>2, GotoMoves DEF List, CountAccounts
<1>7. ~Write(r)
  BY <1>1, WriteFinishes
<1> QED
  BY <1>2, <1>3, <1>4, <1>5, <1>6, <1>7, OthersKeep DEF Step

\* A step of a handler, whatever it meets, brings it nearer to its answer: no
\* handler goes round in a circle, with any number of roles and of rows.
THEOREM HandlersNeverCircle == Spec => HandlersAdvance
<1>1. Init => OperatorKnown
  BY DEF Init, OperatorKnown, Idle
<1>2. TypeInv /\ OperatorKnown /\ [Next]_vars => OperatorKnown'
  BY OperatorKnownStep
<1>3. TypeInv /\ OperatorKnown /\ [Next]_vars =>
        [\A r \in Requests :
           req[r].pc \notin {"idle", "done"} /\ req'[r] # req[r]
           => Nearer(req'[r], req[r])]_vars
  <2> SUFFICES ASSUME TypeInv, OperatorKnown, [Next]_vars,
                      NEW r \in Requests, req[r].pc \notin {"idle", "done"},
                      req'[r] # req[r]
               PROVE  Nearer(req'[r], req[r])
    OBVIOUS
  <2>1. ~Start(r) /\ ~Reply(r)
    BY DEF Start, Arrive, Reply, At
  <2> QED
    BY <2>1, OthersKeep, StepNearer
<1> QED
  BY <1>1, <1>2, <1>3, TypeInvariant, PTL DEF Spec, HandlersAdvance
=============================================================================
