---------------------------- MODULE AccountService ----------------------------
(***************************************************************************)
(* The request handlers of the account module over its PostgreSQL tables.  *)
(*                                                                         *)
(* Every HTTP request runs on a goroutine of its own and takes several     *)
(* steps: each query of the database and each call of the role module is   *)
(* one action, and steps of other requests, of the role module, of the     *)
(* CreateTemporaryAdmin method and of the expiry worker come in between.   *)
(* What a handler remembers across two calls is in its record req[r].      *)
(*                                                                         *)
(* A transaction (create, update, delete) is one action: its first         *)
(* statement takes a row lock the conflicting transactions wait for.       *)
(* Time is the ordering of an expiry and of "now": an expires_at is null,  *)
(* in the future or in the past, and ExpiryPasses moves it.                *)
(***************************************************************************)
EXTENDS Integers, Sequences, FiniteSets

CONSTANTS
  Ids,            \* primary keys of account_accounts
  Seed,           \* temporarySuperAdminSeedID
  Roles,          \* role ids of the role module
  VolatileRoles,  \* the roles whose state changes while the run lasts
  Names,          \* user names (column account, UNIQUE)
  TempNames,      \* names CreateTemporaryAdmin may draw; {}: it is not called
  Passwords,
  Requests,       \* goroutines serving requests
  Inputs,         \* the request bodies that arrive
  InitAccounts,   \* the tables as the process finds them
  InitBindings,
  InitRoles,      \* the role module's roles at that moment
  IntBits,        \* width of int
  NoId, NoRow

hashPassword(p) == <<"sha256", p>>
NoHash == <<>>                                   \* the seed's empty hash
Hashes == {hashPassword(p) : p \in Passwords} \cup {NoHash}
Statuses == {"enabled", "disabled"}

Row == [account : Names, password_hash : Hashes, status : Statuses,
        is_super_admin : BOOLEAN, is_temporary : BOOLEAN,
        expires_at : {"null", "future", "past"}]

LoginInput  == [op : {"login", "validate"}, name : Names, password : Passwords]
CreateInput == [op : {"create"}, operator : Ids, name : Names,
                password : Passwords, status : Statuses, role : Roles]
UpdateInput == [op : {"update"}, operator : Ids, target : Ids,
                status : Statuses, role : Roles]
ResetInput  == [op : {"reset"}, operator : Ids, target : Ids,
                password : Passwords]
TargetInput == [op : {"delete", "detail"}, operator : Ids, target : Ids]
OwnInput == [op : {"me", "check"}, operator : Ids]

\* The keyword of a list is the set of names it matches.
ListInput == [op : {"list"}, operator : Ids, status : Statuses \cup {"any"},
              keyword : SUBSET Names, page : 1..(2^(IntBits - 1) - 1),
              size : 1..100]
Input == LoginInput \cup CreateInput \cup UpdateInput \cup ResetInput
           \cup TargetInput \cup OwnInput \cup ListInput
NoInput == [op |-> "none"]

\* The ids in use before the process starts; an id is drawn once and for all.
\* Bindings may be left of an account that is gone: initStorage adds their
\* foreign key NOT VALID.
InitIds == {i \in Ids : InitAccounts[i] # NoRow \/ InitBindings[i] # <<>>}
             \cup {Seed}

ASSUME ConstantsAssumption ==
  /\ Seed \in Ids /\ NoId \notin Ids
  /\ NoRow \notin Row \cup [account : Names, is_super_admin : BOOLEAN]
  /\ VolatileRoles \subseteq Roles
  /\ TempNames \subseteq Names
  /\ IntBits \in Nat \ {0}
  /\ Inputs \subseteq Input

ASSUME TablesAssumption ==
  /\ InitAccounts \in [Ids -> Row \cup {NoRow}]
  /\ InitBindings \in [Ids -> Seq(Roles)]
  /\ InitRoles \in [Roles -> [enabled : BOOLEAN, manage : BOOLEAN]]
  /\ \A i \in Ids : \A m, n \in DOMAIN InitBindings[i] :
       InitBindings[i][m] = InitBindings[i][n] => m = n
  /\ \A i, j \in Ids :
       /\ InitAccounts[i] # NoRow /\ InitAccounts[j] # NoRow
       /\ InitAccounts[i].account = InitAccounts[j].account
       => i = j

VARIABLES
  account,    \* account_accounts: id -> row or NoRow
  bindings,   \* account_role_bindings: id -> its role ids in creation order
  issued,     \* every id that has ever named an account
  roleState,  \* the role module: enabled?, grants admin_account.manage?
  req         \* the requests in flight

vars == <<account, bindings, issued, roleState, req>>
tables == <<account, bindings, issued>>

RoleState == [enabled : BOOLEAN, manage : BOOLEAN]

\* What queryAccount scans of a row (accountRecord).
Snapshot == [id : Ids \cup {NoId}, password_hash : Hashes, status : Statuses,
             is_super_admin : BOOLEAN]
NoSnapshot == [id |-> NoId, password_hash |-> NoHash, status |-> "disabled",
               is_super_admin |-> FALSE]

\* A row of the page a list answers.
Listed == {s \in Snapshot : s.id # NoId}

PCs == {"idle", "query", "bindings", "resolve", "keep", "absent", "unbound",
        "found", "permit", "match", "validate", "available", "describe",
        "session", "count", "page", "row", "write", "done"}

Outcomes == {"none", "ok", "notLoggedIn", "denied", "invalid",
             "roleUnavailable", "missing", "exists", "self", "superOnly",
             "badCredentials", "disabled", "failed"}

Request == [pc : PCs, input : Inputs \cup {NoInput},
            operator : Ids \cup {NoId}, isSuper : BOOLEAN,
            seen : Snapshot, roles : Seq(Roles), rows : Seq(Listed),
            outcome : Outcomes]

Idle == [pc |-> "idle", input |-> NoInput, operator |-> NoId,
         isSuper |-> FALSE, seen |-> NoSnapshot, roles |-> <<>>,
         rows |-> <<>>, outcome |-> "none"]

Live == {i \in Ids : account[i] # NoRow}

TypeOK ==
  /\ account \in [Ids -> Row \cup {NoRow}]
  /\ bindings \in [Ids -> Seq(Roles)]
  /\ issued \subseteq Ids
  /\ roleState \in [Roles -> RoleState]
  /\ req \in [Requests -> Request]

Init ==
  /\ account = InitAccounts
  /\ bindings = InitBindings
  /\ issued = InitIds
  /\ roleState = InitRoles
  /\ req = [r \in Requests |-> Idle]
-----------------------------------------------------------------------------
(* Control of one request *)

At(r, pc) == req[r].pc = pc
Op(r) == req[r].input.op
IsLogin(r) == Op(r) \in {"login", "validate"}

\* me and check-permission are about the operator itself; check-permission is
\* asked for admin_account.manage.
IsOwn(r) == Op(r) \in {"me", "check"}

\* Every other handler looks its operator up first: until the operator is
\* accepted, the account looked up is the operator.
AsOperator(r) == ~IsLogin(r) /\ req[r].operator = NoId

Goto(r, pc) == req' = [req EXCEPT ![r].pc = pc]
Finish(r, o) == req' = [req EXCEPT ![r] =
  [Idle EXCEPT !.pc = "done", !.input = req[r].input,
               !.operator = req[r].operator, !.isSuper = req[r].isSuper,
               !.outcome = o]]

\* Bound: there is an unused id for every create in flight.
RoomFor(input) ==
  input.op = "create" =>
    Cardinality({r \in Requests : req[r].pc # "idle" /\ Op(r) = "create"})
      < Cardinality(Ids \ issued)

\* A request arrives. A session names an id that was issued, of an account
\* that may be gone; a client can only name ids it has been given.
Arrive(r, input) ==
  /\ At(r, "idle")
  /\ input.op \notin {"login", "validate"} => input.operator \in issued
  /\ input.op \in {"update", "reset", "delete", "detail"}
       => input.target \in issued
  /\ RoomFor(input)
  /\ req' = [req EXCEPT ![r].pc = "query", ![r].input = input]
  /\ UNCHANGED <<tables, roleState>>

Start(r) == \E input \in Inputs : Arrive(r, input)

Reply(r) ==
  /\ At(r, "done")
  /\ req' = [req EXCEPT ![r] = Idle]
  /\ UNCHANGED <<tables, roleState>>

-----------------------------------------------------------------------------
(* getAccountByID and getAccountByAccount: row, bindings, normalisation.   *)
(* They end in "absent" (no such account), "unbound" (errNoValidAccountRole)*)
(* or "found".                                                             *)

ByName(r) == IsLogin(r) \/ (Op(r) = "create" /\ ~AsOperator(r))

Wanted(r) ==
  IF ByName(r) THEN {i \in Live : account[i].account = req[r].input.name}
  ELSE Live \cap {IF AsOperator(r) THEN req[r].input.operator
                                   ELSE req[r].input.target}

SnapshotOf(i) == [id |-> i, password_hash |-> account[i].password_hash,
                  status |-> account[i].status,
                  is_super_admin |-> account[i].is_super_admin]

\* Mutation of Unbound: errNoValidAccountRole is ignored for everybody.
UnboundIgnored(r) == "found"

\* errNoValidAccountRole is no error for a super administrator.
Unbound(r) == IF req[r].seen.is_super_admin THEN "found" ELSE "unbound"

QueryAccount(r) ==
  /\ At(r, "query")
  /\ \/ \E i \in Wanted(r) :
          req' = [req EXCEPT ![r].pc = "bindings", ![r].seen = SnapshotOf(i)]
     \/ Wanted(r) = {} /\ Goto(r, "absent")
  /\ UNCHANGED <<tables, roleState>>

\* accountRoleIDs, then normalizeAccountRoles up to its first role call.
ReadBindings(r) ==
  LET ids == bindings[req[r].seen.id] IN
  /\ At(r, "bindings")
  /\ req' = [req EXCEPT ![r].roles = ids,
               ![r].pc = CASE Len(ids) = 0 -> Unbound(r)
                           [] Len(ids) = 1 -> "found"
                           [] OTHER -> "resolve"]
  /\ UNCHANGED <<tables, roleState>>

\* Mutation of ResolveRole: the loop asks about a disabled role again.
ResolveRoleAgain(r) ==
  LET ids == req[r].roles IN
  /\ At(r, "resolve") /\ roleState[Head(ids)].enabled
  /\ req' = [req EXCEPT ![r].roles = <<Head(ids)>>, ![r].pc = "keep"]
  /\ UNCHANGED <<tables, roleState>>

\* The loop of normalizeAccountRoles: skip disabled roles, keep the first
\* enabled one.
ResolveRole(r) ==
  LET ids == req[r].roles IN
  /\ At(r, "resolve")
  /\ req' = IF roleState[Head(ids)].enabled
            THEN [req EXCEPT ![r].roles = <<Head(ids)>>, ![r].pc = "keep"]
            ELSE [req EXCEPT ![r].roles = Tail(ids),
                    ![r].pc = IF Tail(ids) # <<>> THEN "resolve"
                              ELSE Unbound(r)]
  /\ UNCHANGED <<tables, roleState>>

\* Mutation of KeepOnly: the role is written, as replaceAccountRoles does.
KeepOnlyWritten(ids, role) == <<role>>

\* keepOnlyAccountRole: one DELETE ... role_id <> $2 outside any transaction,
\* whatever the bindings have become since they were read. An account has a
\* role at most once (UNIQUE (account_id, role_id)).
KeepOnly(ids, role) ==
  IF \E n \in DOMAIN ids : ids[n] = role THEN <<role>> ELSE <<>>

KeepOnlyRole(r) ==
  LET i == req[r].seen.id IN
  /\ At(r, "keep")
  /\ bindings' = [bindings EXCEPT ![i] = KeepOnly(@, Head(req[r].roles))]
  /\ Goto(r, "found")
  /\ UNCHANGED <<account, issued, roleState>>

Lookup(r) == QueryAccount(r) \/ ReadBindings(r) \/ ResolveRole(r)
               \/ KeepOnlyRole(r)
-----------------------------------------------------------------------------
(* requireAccountManageToken; the same look-up and role calls answer me and *)
(* check-permission.                                                        *)

OperatorRefusal(r) ==
  CASE ~IsOwn(r) -> "notLoggedIn"
    [] IsOwn(r) /\ At(r, "absent") -> "missing"
    [] OTHER -> "disabled"

OperatorRefused(r) ==
  /\ AsOperator(r)
  /\ \/ At(r, "absent") \/ At(r, "unbound")
     \/ At(r, "found") /\ req[r].seen.status # "enabled"
  /\ Finish(r, OperatorRefusal(r))
  /\ UNCHANGED <<tables, roleState>>

\* A super administrator has every permission and no role to report.
AnswerSuper(r) ==
  /\ IsOwn(r) /\ AsOperator(r) /\ At(r, "found")
  /\ req[r].seen.status = "enabled" /\ req[r].seen.is_super_admin
  /\ Finish(r, "ok")
  /\ UNCHANGED <<tables, roleState>>

\* The operator's flag and role stay in the handler from here on.
OperatorFound(r) ==
  LET seen == req[r].seen IN
  /\ AsOperator(r) /\ At(r, "found") /\ seen.status = "enabled"
  /\ ~(IsOwn(r) /\ seen.is_super_admin)
  /\ req' = [req EXCEPT
       ![r].operator = seen.id, ![r].isSuper = seen.is_super_admin,
       ![r].seen = NoSnapshot,
       ![r].roles = IF seen.is_super_admin THEN <<>> ELSE @,
       ![r].pc = IF seen.is_super_admin THEN "validate" ELSE "permit"]
  /\ UNCHANGED <<tables, roleState>>

\* evaluateRolePermission: adminRoleDetail, then adminRoleCheckPermission. me
\* asks for the detail only (accountPermissionResponse).
RoleDisabled(r) == Finish(r, IF IsOwn(r) THEN "disabled" ELSE "denied")

PermitRole(r) ==
  /\ At(r, "permit")
  /\ IF ~roleState[Head(req[r].roles)].enabled THEN RoleDisabled(r)
     ELSE IF Op(r) = "me" THEN Finish(r, "ok")
     ELSE Goto(r, "match")
  /\ UNCHANGED <<tables, roleState>>

\* Mutation of Grants: that the role grants the permission is not looked at.
GrantsAnything(role) == roleState[role].enabled

Grants(role) == roleState[role].enabled /\ roleState[role].manage

MatchPermission(r) ==
  LET role == Head(req[r].roles) IN
  /\ At(r, "match")
  /\ \/ ~roleState[role].enabled /\ RoleDisabled(r)
     \/ roleState[role].enabled /\ ~Grants(role) /\ Finish(r, "denied")
     \/ Grants(role) /\ Op(r) = "check" /\ Finish(r, "ok")
     \/ /\ Grants(role) /\ Op(r) # "check"
        /\ req' = [req EXCEPT ![r].pc = "validate", ![r].roles = <<>>]
  /\ UNCHANGED <<tables, roleState>>

Authorise(r) == OperatorRefused(r) \/ AnswerSuper(r) \/ OperatorFound(r)
                  \/ PermitRole(r) \/ MatchPermission(r)
-----------------------------------------------------------------------------
(* The handlers after authorisation *)

\* cleanAndValidateRoles asks the role module about the requested role.
RoleRequested(r) == Op(r) \in {"create", "update"}

ValidateInput(r) ==
  /\ At(r, "validate")
  /\ IF RoleRequested(r) => roleState[req[r].input.role].enabled
     THEN Goto(r, IF Op(r) = "list" THEN "count" ELSE "query")
     ELSE Finish(r, "roleUnavailable")
  /\ UNCHANGED <<tables, roleState>>

\* Malformed fields (name, password, status, ids) answer without any effect,
\* after authorisation, or before the first query of the other requests.
RejectInput(r) ==
  /\ At(r, "validate") \/ ((IsLogin(r) \/ IsOwn(r)) /\ At(r, "query"))
  /\ Finish(r, "invalid")
  /\ UNCHANGED <<tables, roleState>>

\* Mutation of SuperOnly: handleResetPassword does not ask.
SuperOnlyButReset(r) ==
  Op(r) # "reset" /\ req[r].seen.is_super_admin /\ ~req[r].isSuper

\* A super administrator is changed by super administrators only.
SuperOnly(r) == req[r].seen.is_super_admin /\ ~req[r].isSuper

\* What the handlers ask of the target, as they have seen it, before they act
\* on it.
TargetRefusal(r) ==
  CASE At(r, "absent") -> "missing"
    [] At(r, "unbound") -> "failed"
    [] At(r, "found") /\ Op(r) = "delete" /\ req[r].seen.id = req[r].operator
         -> "self"
    [] At(r, "found") /\ Op(r) # "detail" /\ SuperOnly(r) -> "superOnly"
    [] OTHER -> "none"

CheckTarget(r) ==
  /\ Op(r) \in {"update", "reset", "delete", "detail"} /\ ~AsOperator(r)
  /\ req[r].pc \in {"absent", "unbound", "found"}
  /\ IF TargetRefusal(r) # "none" THEN Finish(r, TargetRefusal(r))
     ELSE req' = [req EXCEPT ![r].pc =
            IF Op(r) = "detail" THEN "describe" ELSE "write",
            ![r].roles = IF Op(r) = "detail" THEN @ ELSE <<>>]
  /\ UNCHANGED <<tables, roleState>>

\* accountDetailResponse: role details for the answer only.
DescribeTarget(r) ==
  /\ At(r, "describe")
  /\ Finish(r, "ok")
  /\ UNCHANGED <<tables, roleState>>

\* handleAccountCreate looks the name up before the INSERT.
CheckName(r) ==
  /\ Op(r) = "create" /\ ~AsOperator(r)
  /\ \/ At(r, "found") /\ Finish(r, "exists")
     \/ At(r, "unbound") /\ Finish(r, "failed")
     \/ At(r, "absent") /\ Goto(r, "write")
  /\ UNCHANGED <<tables, roleState>>

\* handleLogin and handleValidatePassword after getAccountByAccount.
verifyPassword(hash, password) == hash = hashPassword(password)

\* Mutation of LoginRefusal: the status is not checked.
LoginRefusalAnyStatus(r) ==
  IF At(r, "found") /\
     verifyPassword(req[r].seen.password_hash, req[r].input.password)
  THEN "none" ELSE "badCredentials"

LoginRefusal(r) ==
  CASE At(r, "absent") -> "badCredentials"
    [] At(r, "unbound") -> "disabled"
    [] At(r, "found") /\
       ~verifyPassword(req[r].seen.password_hash, req[r].input.password)
         -> "badCredentials"
    [] At(r, "found") /\ req[r].seen.status # "enabled" -> "disabled"
    [] OTHER -> "none"

CheckCredentials(r) ==
  /\ IsLogin(r) /\ req[r].pc \in {"absent", "unbound", "found"}
  /\ IF LoginRefusal(r) # "none" THEN Finish(r, LoginRefusal(r))
     ELSE Goto(r, IF req[r].roles = <<>> THEN "session" ELSE "available")
  /\ UNCHANGED <<tables, roleState>>

\* rolesAvailable for the one role the account has.
CheckAvailable(r) ==
  /\ At(r, "available")
  /\ IF roleState[Head(req[r].roles)].enabled THEN Goto(r, "session")
     ELSE Finish(r, "disabled")
  /\ UNCHANGED <<tables, roleState>>

\* createSession (login), or the answer of validate-password.
OpenSession(r) ==
  /\ At(r, "session")
  /\ Finish(r, "ok")
  /\ UNCHANGED <<tables, roleState>>

-----------------------------------------------------------------------------
(* handleAccountList and listAccounts. The order of the rows is PostgreSQL's *)
(* (created_at is not kept), the total is part of the answer only.         *)

Listing(r) == Op(r) = "list" /\ ~AsOperator(r)

Matching(input) ==
  {i \in Live : /\ account[i].account \in input.keyword
                /\ input.status \in {"any", account[i].status}}

\* SELECT COUNT(*), before and apart from the page.
CountAccounts(r) ==
  /\ At(r, "count")
  /\ Goto(r, "page")
  /\ UNCHANGED <<tables, roleState>>

\* An int wraps around.
Wrapped(n) == LET m == n % 2^IntBits IN
              IF m < 2^(IntBits - 1) THEN m ELSE m - 2^IntBits

\* Mutation of Offset: pages are counted from 0.
OffsetFromZero(input) == Wrapped(input.page * input.size)

Offset(input) == Wrapped((input.page - 1) * input.size)

\* What LIMIT size OFFSET offset leaves of n rows.
PageLength(input, n) ==
  IF n <= Offset(input) THEN 0
  ELSE IF n - Offset(input) < input.size THEN n - Offset(input)
  ELSE input.size

Pages(input) ==
  LET ids == Matching(input) IN
  {page \in UNION {[1..n -> ids] : n \in 0..input.size} :
     /\ Len(page) = PageLength(input, Cardinality(ids))
     /\ \A m, n \in DOMAIN page : page[m] = page[n] => m = n}

\* PostgreSQL refuses a negative OFFSET.
QueryPage(r) ==
  LET input == req[r].input IN
  /\ At(r, "page") /\ Listing(r)
  /\ \/ Offset(input) < 0 /\ Finish(r, "failed")
     \/ /\ Offset(input) >= 0
        /\ \E page \in Pages(input) :
             req' = [req EXCEPT ![r].pc = "row",
                       ![r].rows = [n \in DOMAIN page |-> SnapshotOf(page[n])]]
  /\ UNCHANGED <<tables, roleState>>

\* Mutation of NextRow: the row that was read is met again.
NextRowAgain(r) ==
  /\ Listing(r) /\ req[r].pc \in {"row", "found", "unbound"}
  /\ IF req[r].rows = <<>> THEN Finish(r, "ok")
     ELSE req' = [req EXCEPT ![r].pc = "bindings", ![r].roles = <<>>,
                    ![r].seen = Head(req[r].rows)]
  /\ UNCHANGED <<tables, roleState>>

\* rows.Next: the bindings of the next row are read and normalised as any
\* look-up does it, while the other rows wait; errNoValidAccountRole shows an
\* account without a role. After the last row the list is answered.
NextRow(r) ==
  /\ Listing(r) /\ req[r].pc \in {"row", "found", "unbound"}
  /\ IF req[r].rows = <<>> THEN Finish(r, "ok")
     ELSE req' = [req EXCEPT ![r].pc = "bindings", ![r].roles = <<>>,
                    ![r].seen = Head(req[r].rows), ![r].rows = Tail(@)]
  /\ UNCHANGED <<tables, roleState>>

List(r) == CountAccounts(r) \/ QueryPage(r) \/ NextRow(r)
-----------------------------------------------------------------------------
\* Any query or call may fail, time out or be cancelled before its effect.
\* The operator's lookup then answers "not logged in", cleanAndValidateRoles
\* "role unavailable".
Fail(r) ==
  /\ \/ req[r].pc \notin {"idle", "absent", "unbound", "found", "done"}
     \/ Listing(r) /\ req[r].pc \in {"unbound", "found"}
  /\ At(r, "validate") => RoleRequested(r)
  /\ Finish(r, IF AsOperator(r) THEN "notLoggedIn"
               ELSE IF At(r, "validate") /\ RoleRequested(r)
                    THEN "roleUnavailable"
               ELSE "failed")
  /\ UNCHANGED <<tables, roleState>>

Check(r) == ValidateInput(r) \/ RejectInput(r) \/ CheckTarget(r)
              \/ DescribeTarget(r) \/ CheckName(r) \/ CheckCredentials(r)
              \/ CheckAvailable(r) \/ OpenSession(r)
-----------------------------------------------------------------------------
(* The writes. A commit whose acknowledgement is lost answers "failed".    *)

Committed(r) == \E o \in {"ok", "failed"} : Finish(r, o)

\* Mutation of NameFree: the column account is not UNIQUE.
NameFreeUnchecked(name, except) == TRUE

\* INSERT INTO account_accounts fails on a name in use (UNIQUE).
NameFree(name, except) ==
  \A i \in Live \ {except} : account[i].account # name

\* Mutation of NewRow: the password is stored as it came.
NewRowUnhashed(input) ==
  [account |-> input.name, password_hash |-> <<input.password>>,
   status |-> input.status, is_super_admin |-> FALSE, is_temporary |-> FALSE,
   expires_at |-> "null"]

NewRow(input) ==
  [account |-> input.name, password_hash |-> hashPassword(input.password),
   status |-> input.status, is_super_admin |-> FALSE, is_temporary |-> FALSE,
   expires_at |-> "null"]

\* Mutation of NewIds: a new account may take a deleted account's id.
NewIdsReused == Ids \ Live

\* generate_short_id() draws at random: no id is drawn twice.
NewIds == Ids \ issued

\* Mutation of replaceAccountRolesTx: the DELETE of the old bindings is gone.
replaceAccountRolesTxAdding(ids, role) == Append(ids, role)

\* DELETE every binding of the account, INSERT the new one, in the
\* transaction that writes the account.
replaceAccountRolesTx(ids, role) == <<role>>

createAccount(r) ==
  LET input == req[r].input IN
  /\ At(r, "write") /\ Op(r) = "create"
  /\ \/ /\ NameFree(input.name, NoId)
        /\ \E i \in NewIds :
             /\ account' = [account EXCEPT ![i] = NewRow(input)]
             /\ bindings' = [bindings EXCEPT ![i] =
                               replaceAccountRolesTx(@, input.role)]
             /\ issued' = issued \cup {i}
        /\ Committed(r)
     \/ /\ ~NameFree(input.name, NoId)
        /\ Finish(r, "failed")
        /\ UNCHANGED tables
  /\ UNCHANGED roleState

\* UPDATE ... WHERE id RETURNING: no row, no change.
TargetGone(r) ==
  /\ At(r, "write") /\ Op(r) \in {"update", "reset", "delete"}
  /\ req[r].input.target \notin Live
  /\ Finish(r, "missing")
  /\ UNCHANGED <<tables, roleState>>

updateAccount(r) ==
  LET input == req[r].input IN
  /\ At(r, "write") /\ Op(r) = "update" /\ input.target \in Live
  /\ account' = [account EXCEPT ![input.target].status = input.status]
  /\ bindings' = [bindings EXCEPT ![input.target] =
                    replaceAccountRolesTx(@, input.role)]
  /\ Committed(r)
  /\ UNCHANGED <<issued, roleState>>

resetPassword(r) ==
  LET input == req[r].input IN
  /\ At(r, "write") /\ Op(r) = "reset" /\ input.target \in Live
  /\ account' = [account EXCEPT ![input.target].password_hash =
                   hashPassword(input.password)]
  /\ Committed(r)
  /\ UNCHANGED <<bindings, issued, roleState>>

deleteAccount(r) ==
  LET input == req[r].input IN
  /\ At(r, "write") /\ Op(r) = "delete" /\ input.target \in Live
  /\ account' = [account EXCEPT ![input.target] = NoRow]
  /\ bindings' = [bindings EXCEPT ![input.target] = <<>>]
  /\ Committed(r)
  /\ UNCHANGED <<issued, roleState>>

Write(r) == createAccount(r) \/ TargetGone(r) \/ updateAccount(r)
              \/ resetPassword(r) \/ deleteAccount(r)
-----------------------------------------------------------------------------
(* The temporary administrator and the world around the handlers *)

\* INSERT ... ON CONFLICT (id) DO UPDATE on the seed: every column but the
\* bindings. A name another account has fails on UNIQUE and changes nothing.
CreateTemporaryAdmin ==
  /\ \E name \in TempNames, password \in Passwords :
       /\ NameFree(name, Seed)
       /\ account' = [account EXCEPT ![Seed] =
            [account |-> name, password_hash |-> hashPassword(password),
             status |-> "enabled", is_super_admin |-> TRUE,
             is_temporary |-> TRUE, expires_at |-> "future"]]
  /\ UNCHANGED <<bindings, issued, roleState, req>>

\* One tick of startTemporaryAdminWorker.
Expired(i) == /\ account[i].is_temporary /\ account[i].status = "enabled"
              /\ account[i].expires_at = "past"

\* Mutation of SweepTemporaryAdmins: the worker's UPDATE leaves super
\* administrators alone.
SweepTemporaryAdminsButSuper ==
  LET gone == {i \in Live : Expired(i) /\ ~account[i].is_super_admin} IN
  /\ gone # {}
  /\ account' = [i \in Ids |-> IF i \in gone
                               THEN [account[i] EXCEPT !.status = "disabled"]
                               ELSE account[i]]
  /\ UNCHANGED <<bindings, issued, roleState, req>>

SweepTemporaryAdmins ==
  /\ \E i \in Live : Expired(i)
  /\ account' = [i \in Ids |-> IF i \in Live /\ Expired(i)
                               THEN [account[i] EXCEPT !.status = "disabled"]
                               ELSE account[i]]
  /\ UNCHANGED <<bindings, issued, roleState, req>>

\* Ten minutes go by.
ExpiryPasses ==
  /\ \E i \in Live : /\ account[i].expires_at = "future"
                     /\ account' = [account EXCEPT ![i].expires_at = "past"]
  /\ UNCHANGED <<bindings, issued, roleState, req>>

\* The role module enables, disables or deletes a role, or changes its
\* permissions.
ChangeRole ==
  /\ \E role \in VolatileRoles, s \in RoleState :
       /\ s # roleState[role]
       /\ roleState' = [roleState EXCEPT ![role] = s]
  /\ UNCHANGED <<tables, req>>

Environment == CreateTemporaryAdmin \/ SweepTemporaryAdmins \/ ExpiryPasses
                 \/ ChangeRole

Step(r) == Lookup(r) \/ Authorise(r) \/ Check(r) \/ List(r) \/ Write(r)

Next == (\E r \in Requests : Start(r) \/ Step(r) \/ Fail(r) \/ Reply(r))
          \/ Environment

Spec == Init /\ [][Next]_vars

\* A goroutine that has begun is run, every call it makes returns or times
\* out; the ticker fires every minute as long as the module is loaded.
Fairness == /\ \A r \in Requests : WF_vars(Step(r))
            /\ WF_vars(SweepTemporaryAdmins)

FairSpec == Spec /\ Fairness
-----------------------------------------------------------------------------
(* What is promised *)

\* The tables implement the directory of accounts: however the steps of the
\* handlers, of CreateTemporaryAdmin and of the worker interleave, each of them
\* makes one of its five changes or none.
View(row) == IF row = NoRow THEN NoRow
             ELSE [account |-> row.account,
                   is_super_admin |-> row.is_super_admin]
RolesOf(i) == {bindings[i][n] : n \in DOMAIN bindings[i]}

Directory == INSTANCE AccountDirectory WITH
  accounts <- [i \in Ids |-> View(account[i])],
  roles <- [i \in Ids |-> RolesOf(i)]

ImplementsDirectory == Directory!Spec

IsSuper(i) == i \in Live /\ account[i].is_super_admin

\* Request r writes the row or the bindings of a super administrator.
WritesSuper(r, i) ==
  /\ At(r, "write") /\ req'[r] # req[r] /\ IsSuper(i)
  /\ <<account[i], bindings[i]>> # <<account'[i], bindings'[i]>>

\* A handler decides on the super flag of operator and target several queries
\* before it writes (handleAccountUpdate, handleAccountDelete,
\* handleResetPassword): when it writes a super administrator's row or
\* bindings, its operator is a super administrator all the same. The one
\* exception is a seed of historic data that had no flag when the handler saw
\* it, and that CreateTemporaryAdmin made a super administrator since.
SuperAdminProtected ==
  [][\A r \in Requests, i \in Ids :
       WritesSuper(r, i) =>
         \/ req[r].isSuper
         \/ i = Seed /\ req[r].seen.id = i /\ ~req[r].seen.is_super_admin]_vars

\* An ordinary account cannot reset the password of a super administrator
\* (api-docs/endpoints/put_api_account_reset_password.json:74).
SuperResetBySuper ==
  [][\A r \in Requests, i \in Ids :
       Op(r) = "reset" /\ WritesSuper(r, i) => req[r].isSuper]_vars

\* Two accounts never share a user name, whatever creations and temporary
\* administrators race between getAccountByAccount and the INSERT.
UniqueNames ==
  \A i, j \in Live : account[i].account = account[j].account => i = j

\* An account that was deleted stays deleted: a late update, reset or role
\* replacement of a handler that still holds it brings nothing back. (The
\* seed alone is restored, by CreateTemporaryAdmin.)
DeletedStaysDeleted ==
  [][\A i \in issued \ {Seed} : i \notin Live => i \notin Live']_vars

\* No binding outlives or precedes its account, however the transactions of
\* replaceAccountRoles, the cascade of a deletion and late clean-ups interleave:
\* what there is without an account was found so and is as it was found.
NoNewOrphans ==
  \A i \in Ids \ Live : bindings[i] # <<>> =>
    InitAccounts[i] = NoRow /\ bindings[i] = InitBindings[i]

BindingsBelongToAccounts == \A i \in Ids \ Live : bindings[i] = <<>>

\* Once every ordinary account has exactly one role, and no absent one any, it
\* keeps exactly one, across every interleaving of creations, updates and reads.
OneRoleEach ==
  \A i \in Live : ~account[i].is_super_admin => Len(bindings[i]) = 1
SingleRoleKept == OneRoleEach /\ BindingsBelongToAccounts

\* An ordinary account never loses its last role while it exists.
RoleNeverLost ==
  \A i \in Live : ~account[i].is_super_admin => bindings[i] # <<>>

\* Several bindings exist only as legacy data: nobody adds one to an account
\* that has one, and the clean-up of reads only removes.
NoNewMultiBinding ==
  [][\A i \in Ids : Len(bindings'[i]) > 1 => bindings'[i] = bindings[i]]_vars

\* What normalizeAccountRoles hands to the handlers, whatever happens to the
\* bindings meanwhile: a super administrator comes with one role or none, every
\* other account with exactly one, and no handler asks for the role of an
\* account that has none.
RolesNormalised ==
  \A r \in Requests :
    /\ req[r].pc \in {"bindings", "resolve", "keep", "found"}
         => req[r].seen.id # NoId
    /\ At(r, "resolve") => req[r].roles # <<>>
    /\ At(r, "found") => /\ Len(req[r].roles) <= 1
                         /\ req[r].roles = <<>> => req[r].seen.is_super_admin
    /\ req[r].pc \in {"keep", "permit", "match", "available"}
         => Len(req[r].roles) = 1

\* While a temporary administrator is valid, its login is never turned down
\* for a disabled account or role (account_temporary_admin.go:64).
TemporaryAdminValid ==
  /\ Seed \in Live /\ account[Seed].is_temporary
  /\ account[Seed].status = "enabled" /\ account[Seed].expires_at = "future"

TemporaryAdminCanLogIn ==
  [][\A r \in Requests :
       /\ IsLogin(r) /\ req[r].seen.id = Seed /\ At(r, "available")
       /\ TemporaryAdminValid
       => req'[r].outcome # "disabled"]_vars

\* Every request that has arrived is answered.
RequestsFinish ==
  \A r \in Requests : req[r].pc # "idle" ~> req[r].pc = "done"

\* How far a handler is from its answer: what it has to do for its operator,
\* for its permission and its input, and for its target; and, in a look-up or
\* on the way to the next one, which of these calls comes next.
Stage(q) ==
  IF q.pc \in {"idle", "done"} THEN 0
  ELSE IF q.pc \in {"permit", "match", "validate", "count", "page"} THEN 2
  ELSE IF q.operator = NoId /\ q.input.op \notin {"login", "validate"} THEN 3
  ELSE 1

Place(pc) ==
  CASE pc \in {"idle", "session", "done"} -> 0
    [] pc \in {"available", "describe", "write"} -> 1
    [] pc \in {"absent", "unbound", "found", "row"} -> 2
    [] pc = "keep" -> 3
    [] pc = "resolve" -> 4
    [] pc = "bindings" -> 5
    [] pc = "query" -> 6
    [] pc = "page" -> 7
    [] pc = "count" -> 8
    [] pc = "validate" -> 9
    [] pc = "match" -> 10
    [] pc = "permit" -> 11

\* In the order of: stage, rows still to read, place, roles still to ask about.
Nearer(q, p) ==
  \/ Stage(q) < Stage(p)
  \/ /\ Stage(q) = Stage(p)
     /\ \/ Len(q.rows) < Len(p.rows)
        \/ /\ Len(q.rows) = Len(p.rows)
           /\ \/ Place(q.pc) < Place(p.pc)
              \/ Place(q.pc) = Place(p.pc) /\ Len(q.roles) < Len(p.roles)

\* No handler goes round in a circle, however many roles and rows its look-ups
\* meet and whatever changes under it meanwhile: each of its steps brings it
\* nearer to its answer. (normalizeAccountRoles' loop, one look-up after the
\* other, listAccounts' rows.)
HandlersAdvance ==
  [][\A r \in Requests :
       req[r].pc \notin {"idle", "done"} /\ req'[r] # req[r]
       => Nearer(req'[r], req[r])]_vars

\* A temporary administrator past its expiry does not stay enabled.
ExpiredAdminDisabled ==
  Seed \in Live /\ Expired(Seed) ~> ~(Seed \in Live /\ Expired(Seed))
=============================================================================
