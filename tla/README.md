# Verification of the account module

TLA+ models, TLC configurations and TLAPS proofs for the `account` plugin: back
office accounts, their one role each, login, account management, the temporary
super administrator, the schema migration and the internal endpoints. Paths
below are relative to the repository.

Run a check with `tlc -config accounts.cfg MCAccount`, a proof with
`tlapm AccountServiceProofs.tla`. `PROJECT.json` lists runs, the code each
definition stands for, hazards, mutants, findings and theorems.

## The system

| part | code | state | operations |
|---|---|---|---|
| Request handlers | `account_handlers.go`, `account_delete.go`, `account_reset_password.go`, `account_validation.go` | locals of one goroutine per request | login, validate-password, me, check-permission, create, list, detail, update, reset-password, delete |
| Account and role storage | `account_storage.go`, `account_role_storage.go`, `account_delete_storage.go` | tables `account_accounts`, `account_role_bindings` (PostgreSQL) | look-ups with normalisation of the bindings; create, update, reset, delete, list |
| Temporary super administrator | `account_temporary_admin.go` | one seed row with a fixed id | `CreateTemporaryAdmin`, expiry worker (one tick a minute) |
| Role client | `admin_role_client.go` | none; the role module's roles | detail, check-permission over the runtime's request bridge, 3 s timeout |
| Sessions | `account_session_storage.go`, `account_tokens.go` | Redis hashes with a TTL; project sessions in `rt_admin_sessions` | create, look up, fall back |
| Schema migration | `initStorage` | the tables, the one-role index | statements at every start |
| In-memory store | `account_storage.go` (`p.db == nil`) | two maps behind a mutex | the same operations |
| Internal methods, trigger | `method_call.go`, `scheduled_trigger.go` | `triggerMu` | method call, scheduled task |
| Self test | `selftest.go`, `tests/*.test.json` | `selftestMu` | the embedded cases, run through the handlers |
| Lifecycle and routes, WebSocket example | `main.go`, `ws_example.go` | clients | wiring, template |

Every request runs on its own goroutine. A management request looks up its
operator (session, account, bindings, role calls), asks the role module for the
permission, validates the requested role, looks up the target, compares it with
the operator, and only then writes. Nothing is locked between these queries, so
requests, the worker, `CreateTemporaryAdmin` and changes in the role module come
in between, and what a handler remembers may be stale when it acts. Look-ups write as well: an
account with several bindings is reduced to one by a `DELETE` outside any
transaction. The hard behaviours are therefore interleaving and stale reads,
failures of single queries, creations and restorations racing for a name, and
legacy data: accounts with several roles, a seed without its super flag, bindings left of
accounts that are gone. Below the handlers, transactions take their row locks in different orders, and
`initStorage` changes constraints and an index statement by statement while an
instance that is being replaced may still write. What makes each part correct:

- handlers: only authorised operators act; what a handler finds to be a super
  administrator is changed by super administrators only; a login needs the right password, an enabled
  account and an available role; every request is answered;
- storage: unique names; deleted accounts stay deleted; no step leaves a
  binding without its account; one role for each ordinary account; an operation takes effect at once or
  not at all; transactions end;
- migration: an interrupted start can be repeated, it ends, and the plugin serves
  with its constraints in force;
- internal endpoints: nobody gets in without the runtime's mark; mutexes are given
  back whatever panics; every request is answered; the self test reports on every case;
- temporary administrator: its credentials work until they expire, and then it is
  disabled.

## The modules

| module | models |
|---|---|
| `AccountService` | the core: the handlers over the tables, a query or role call at a time |
| `AccountHistory` | the core with a history variable, for the properties about evidence |
| `AccountSession` | the core with tokens and sessions; implements the core |
| `AccountDirectory` | what the storage promises: accounts and their roles, changed by five operations, each at once |
| `AccountStorage` | the transactions statement by statement, with snapshots, row locks, deadlocks and aborts; implements the directory |
| `AccountMigration` | `initStorage` over `AccountStorage`: table locks, interruption, restart |
| `AccountInternal` | method calls, the trigger and the self test: who gets in, mutexes, panics |

`AccountServiceProofs`, `AccountHistoryProofs`, `AccountListProofs`,
`AccountSessionProofs`, `AccountDirectoryProofs`, `AccountStorageProofs`,
`AccountMigrationProofs` and `AccountInternalProofs` hold the theorems; `MCAccount`, `MCHistory`, `MCSession`, `MCStorage`, `MCMigration` and
`MCInternal` give small databases, requests and suites.

### The core and the sessions

How the state corresponds to the code:

- `account[i]` is the row with primary key `i` or `NoRow`; `bindings[i]` its role
  ids in the order of `accountRoleIDs`; `issued` the ids that ever named a row
  (`generate_short_id()` is assumed never to draw an id twice, and a client names
  only ids it was given). Ids of bindings count as issued: an account that is gone had one.
- `roleState[role]` is what the role module answers: enabled or not (missing and
  deleted are "not"), and whether it grants `admin_account.manage`.
- `req[r]` is a goroutine: `pc` is the next query or call, `input` the request,
  `operator` and `isSuper` what `requireAccountManageToken` returned, `seen` and
  `roles` what the current look-up has read, `outcome` the answer.
- Time is only the ordering of `expires_at` and now.

How the actions correspond: a query or role call is one action, with the checks
on its result. A look-up is `QueryAccount`, `ReadBindings` (accountRoleIDs),
`ResolveRole` (one round of normalizeAccountRoles' loop), `KeepOnlyRole`; it ends
in "absent", "unbound" (errNoValidAccountRole) or "found". The operator's look-up
and the target's use the same actions; `AsOperator` tells them apart. `OperatorFound`,
`PermitRole`, `MatchPermission` are the rest of requireAccountManageToken;
`ValidateInput` is cleanAndValidateRoles; `CheckTarget`, `CheckName`,
`CheckCredentials`, `CheckAvailable` the handlers' own checks; `createAccount`,
`updateAccount`, `resetPassword`, `deleteAccount` the writes; `TargetGone` the writes that
find no row. `Fail` is any query or call that errs, times out or is cancelled; a
write may also commit and still answer "failed" (`Committed`). A list is
`CountAccounts`, `QueryPage` (the page as it is then, in any order, since `created_at`
is not modelled) and, for each row, the same `ReadBindings`, `ResolveRole` and
`KeepOnlyRole`, then `NextRow`. Its offset `(page-1)*pageSize` wraps around at `IntBits` bits.

me and check-permission (asked for `admin_account.manage`) end where their operator
is refused, found super (`AnswerSuper`), or its role looked at (`PermitRole`,
`MatchPermission`).

In `AccountService` a request names its operator. `AccountSession` says where the
name comes from: `redis` and `project` are the two stores of sessions (the second is
written by another module and appears as its reader sees it), `owner[t]` is the
account token `t` was drawn for, `given` the tokens clients hold, `call[r]` what the
handler knows of its session. `Ask`, `ReadRedis`, `ReadProject`, `FromHeader` are the
steps before `AccountService` sees the request; `LookupFails` is the fallback after
an error; `StoreSession` (`HSET`) and `SetExpiry` (`EXPIRE`) are createSession,
whose end is `AccountService`'s `OpenSession`. The other steps are `AccountService`'s
own. Since the variables of the core are kept, the refinement mapping is the
identity and `ImplementsAccountService` is `Spec` itself. Assumed: tokens are drawn
at random and never twice, by either store.

A handler's next step may be arbitrarily late, and in `AccountService` a transaction
is one action. The next module justifies that.

### Storage

`AccountStorage` takes `createAccount`, `updateAccount`, `deleteAccount`,
`keepOnlyAccountRole` and `createTemporaryAdmin` apart. `Script` gives the
statements of each in the order of the code; `tx[t].todo` is what is left of them. A
statement on existing rows is two steps, as at READ COMMITTED: `Ask` takes
its snapshot (`seen`, `version`), and `DeleteBindings`, `ChangeRow`, `RemoveRow` or
`Prune` carries it out when no other transaction holds a row of it, on what those it
waited for have left. `RowGone` is "no row", with its rollback;
`InsertRow`, `Upsert` and `NameTaken` wait for whoever holds the name; `Commit` makes
everything visible; `Abort` is a lost connection or a crash; `DetectDeadlock` is
PostgreSQL ending one of a cycle of waiting transactions. `holds` is the lock on the
account's row, `gone` the bindings deleted and not yet committed, `by` tells a row
from a later one with the same contents. Lists take connections only: one for the page, which they keep,
and for each row another (`ReadPage`, `ReadRow`); nothing limits how many run.

`ImplementsDirectory` is stated of `AccountService` and of `AccountStorage`, with
different mappings: in the first the directory is read off `account` and `bindings`
without passwords, status, expiry and the order of bindings; in the second off what is
committed. The two agree on what a transaction does to accounts and roles, which
is why a transaction may be one action of `AccountService`.

### Migration

`AccountMigration` extends `AccountStorage`. `Migration` lists the statements of
`initStorage` that change a constraint, an index or a row or lock a table; each commits by itself.
`Lock` takes the tables a statement needs, one after the other, as soon as no
transaction has used them (`Touched`); a transaction whose next statement is on a locked
table is `Blocked`. `CheckOneRole` is the condition of the DO block, which looks before
`CREATE UNIQUE INDEX` has its lock. `Stop` is an error, a crash or a Shutdown after any
statement; the next `Start` meets what was left. `BreakEmbrace` is a deadlock between
the start and a transaction, of which PostgreSQL ends either.

### Internal endpoints

`AccountInternal` gives each goroutine a stack of handlers (`stack[c]`), because the self
test serves the requests of its cases on its own goroutine through the same
handlers. `Receive` is a request of the runtime with its mark
(`X-Internal-Authenticated`), `Refuse` the check every internal endpoint makes,
`Reject`, `Dispatch` and `CallMethod` the decoding and dispatch, `LockTrigger`, `RunTask`,
`LockSelftest`, `SkipCase`, `RunCase` (with `Marked`, the runner's own check of the
token) and `Report` the rest. A panic of a handler in a case is the answer "panic" that
`runSingleCase` makes of it. Around that inner `recover` (`selftest.go:229`) the case's
templates are replaced, `httptest.NewRequest` makes its request and, afterwards, the
templates of its expectation are replaced. A case where one of these may panic is `fragile`;
`SuiteUnwinds` is that panic: it passes the deferred `Unlock` and reaches the `recover` of
`handleSelftestInternal` (`selftest.go:96`), which answers status 1 and no results.

## The runs

| run | expects | question |
|---|---|---|
| `accounts` | pass | Do managers, super administrators, two creations of a name, a deletion and `CreateTemporaryAdmin` interleave as steps of the directory, with unique names, one role kept, deleted accounts deleted, and no ordinary operator changing what it was told is a super administrator, while a legacy seed gets its flag between check and write? |
| `legacy` | pass | Do look-ups and a list that normalise bob's two roles stay correct, get nearer to their answers with each step, and are steps of the directory, while bob is updated and deleted, and leave no binding without its account but the one that was so before? |
| `progress` | pass | Is every request answered and every expired temporary administrator disabled? |
| `evidence` | pass | Does an operator who is moved and disabled, a login while password, status and role change, and a list while accounts come and go, succeed only on facts that held while it ran? |
| `session` | pass | Do logins, expiry, failing look-ups and the fallback implement `AccountService`, with every token acting for its account, and every token in a client's hands expiring? |
| `storage` | pass | Do three transactions, interleaved by statements, with deadlocks and aborts, implement the directory, never meet each other's bindings, and end, unless lists hold every connection? |
| `migration` | pass | Does a start that is interrupted and repeated while transactions run end, serve only with the foreign key, and leave an index nobody runs into? |
| `internal` | pass | Do self tests, triggers and method calls give mutexes back, let cases in only with the token, all return, and report on every case, unless one cannot be made? |
| `lost_role` | violation | Finding 1 |
| `super_reset` | violation | Finding 2 |
| `refused_recovery` | violation | Finding 3 |
| `session_ttl` | violation | Finding 4 |

Each property of a passing run has a mutant in `PROJECT.json`: a small change of
one definition, as a plausible bug would make it, that violates the property in that run.

**Bounds.** Two concurrent requests (one in `super_reset`, `refused_recovery`
and `session_ttl`), since every hazard listed is a race of one request with one
other request, the worker or the role module; each may be followed by further
ones, so sequences of any length occur. Three accounts (a super administrator, a manager, an account
without the permission), the seed, and ids for two creations; two or three roles
of which one changes freely; two passwords where resets matter. The inputs of a
run are the few that conflict with each other. `RoomFor` bounds the number of creations
by the ids left. The two requests are interchangeable (symmetry) in the runs
without liveness. `accounts` and `super_reset` start with the seed of a historic database: no
flags and a role like any other account; `legacy` with bob's two roles and the
binding of an account that is gone (`former`). `evidence` leaves `CreateTemporaryAdmin` out for
its size: what a login sees of a seed that is restored under it is in the proof of
`LoginsOnEvidence`. `progress` takes one password and two inputs because liveness
checking is expensive; they are a list with a
row that has two roles and an update of the seed, so both look-ups and a write are met. `session` takes two tokens, since a token can only be confused with
one other, two accounts (one of which expires and one of which is deleted under its
session), and deletion as the only request with a token, since the look-up is
the same code for all of them. `IntBits` is 8 in the runs: `evidence` lists a
page whose offset fits, one whose offset wraps around to a negative number and one whose
offset wraps around to 0, which 64 bits allow in the same ways.

`storage` has three transactions, because a cycle of waiting transactions or a row that
changes hands twice needs no more here (an account has one row, and its bindings are
taken together), and what each may be asked for are the jobs that conflict: an account
updated twice while it is deleted or pruned, the seed deleted, updated and restored,
two creations of one name, and lists, in any number up to all three. With three connections a list
finds none for its rows while two other transactions are open, and three lists wait for
each other. `migration` has two writing transactions and a list, and two starts, so
that one meets what an interrupted one left; the foreign key and the index may or may not
be there before. `internal` has two goroutines, since a mutex has a
holder and a waiter, a suite with a case of each sort that `tests/*.test.json` has and a ninth that
no file there has, whose query holds a blank (`fragile`), and a
token that is set or not.

**Fairness.** In `progress`, `WF_vars(Step(r))`: a goroutine that is
serving a request is scheduled, and each call it makes returns. Role
calls do after 3 s at the latest. Database calls have no timeout of their own: they run under
the request's context, so the assumption is that the database answers or the client goes
away, and that lists do not hold every connection (below). Arrival of
requests, failures, the role module, `CreateTemporaryAdmin` and the passing of time are not fair.
`WF_vars(SweepTemporaryAdmins)`: the ticker fires every minute while the module
is loaded. A sweep that fails is the same as one that comes later. Weak fairness is enough there only because nothing but an
administrator's own action ends the enabledness of the sweep: an expired, enabled
record stays so until it is swept, disabled, deleted or restored.

In `storage`, `WF(Advance(t))`: a statement that can go on does, since the
database runs it; `WF(DetectDeadlock(t))`: `deadlock_timeout`. Nothing makes
transactions begin or abort. `migration` adds `WF` of the start's statements and of the
break of an embrace between a start and a transaction, and `WF(SeedNameTaken)`: an INSERT
that fails ends Init. In `internal` a handler that can go on does (`WF(Work(c))`), and
`SF` of the two `Lock` steps: under weak fairness a goroutine could lose a `sync.Mutex` to
newcomers for ever, but after a millisecond of waiting Go hands the mutex over in the
order of arrival.

Deadlock is not checked in these three: `storage` and `migration` end when every
transaction has ended, and there and in `internal` actors that waited for each other
would violate the liveness property.

## Findings

1. `lost_role`: a look-up decides which legacy role to keep from bindings it read
   earlier; after an update has replaced them, its `DELETE ... role_id <> $2`
   removes the account's only role (`account_role_storage.go:77`, against `README.md:34`).
2. `super_reset`: the seed of a historic database may lack its super flag
   (`account_temporary_admin.go:63`, `main_test.go:16`). `CreateTemporaryAdmin` raises it between an
   ordinary manager's check (`account_reset_password.go:40`) and `resetPassword`, which checks
   nothing: an ordinary account has reset a super administrator's password
   (against `account_reset_password.go:41` and `api-docs/endpoints/put_api_account_reset_password.json:74`).
   The theorem `SuperAdminsProtected` says that this is the only way: of the seed, and only while
   it gets a flag it did not have.
3. `refused_recovery`: restoring the seed keeps its bindings; with a disabled role bound,
   the new credentials are refused (against `account_temporary_admin.go:64`).
4. `session_ttl`: if `EXPIRE` fails after `HSET`, the session stays in Redis without
   a TTL (`account_session_storage.go:26`, against `README.md:32`). Its token was not handed out.

Finding 1 needs legacy data: the theorem `SingleRole` shows that without it the same
property holds.

Met while modelling, without a run: another super administrator can delete the seed
(`account_delete.go:40`), which `account_temporary_admin.go:6` says is always there;
`CreateTemporaryAdmin` and the next start insert it again. A case whose method, path or templates
panic before or after its handler runs ends the whole self test with status 1 and no
report, although `selftest.go:11` and the last line of `tests/README.md` say that any case's
panic fails that case alone; no case of the shipped suite does, `ReportsComplete` names the
exception, and the ninth case of the run `internal` meets it. A page number so large that `(page-1)*pageSize` wraps
around (`account_storage.go:279`) is answered with an earlier page or with an error, although
`api-docs/endpoints/get_api_account_list.json` admits any page from 1; `ListAnswersItsPage`
promises the page only where the offset fits. Two of the embedded self-test cases
(`tests/hello.test.json:23` and its like in `ping.test.json`) expect the answer of a route the
runner has no handler for, and `tests/create.test.json:48` reads `data.role_ids.0` through
`jsonGet`, which follows maps only; they fail in the runner's suite whatever the handlers do.
A self test also really calls `CreateTemporaryAdmin` (`tests/method-call.test.json`).

## What is proved

`AccountServiceProofs` proves, for any sets of ids, roles, names and requests, any
initial tables that satisfy `TablesAssumption` and any inputs:

| theorem | states |
|---|---|
| `TypeCorrect` | `TypeOK` always |
| `RolesAlwaysNormalised` | a handler that goes on after a look-up has one role, or none for a super administrator |
| `NamesStayUnique` | `UniqueNames` always |
| `DeletedNeverReturns` | `DeletedStaysDeleted` |
| `NoOrphansMade` | `NoNewOrphans` always, also from tables with orphans |
| `BindingsNeverMultiply` | `NoNewMultiBinding` |
| `SingleRole` | `SingleRoleKept` always, assuming `OneRoleInitially` (no legacy data: one role each, no orphans) |
| `SuperAdminsProtected` | `SuperAdminProtected` |
| `HandlersNeverCircle` | `HandlersAdvance` |

`AccountDirectoryProofs` proves `DirectoryImplemented`: `Spec` implies
`ImplementsDirectory`, under the same assumptions.

`AccountHistoryProofs` proves, under the same assumptions:

| theorem | states |
|---|---|
| `AuthorisedOnEvidence` | `AuthorisedByEvidence` always |
| `LoginsOnEvidence` | `LoginByEvidence` always |

`AccountListProofs` proves, for any widths, pages, sizes and rows:

| theorem | states |
|---|---|
| `ListsAnswerTheirPage` | `ListAnswersItsPage` always |

`AccountStorageProofs` proves, for any number of transactions, any jobs and any tables
that satisfy their constraints:

| theorem | states |
|---|---|
| `TransactionsKeepTheirPlace` | the inductive invariant `TInv`, and the foreign key, always |
| `BindsNeverConflict` | `BindNeverConflicts` always |
| `TransactionsImplementDirectory` | `TSpec` implies `ImplementsDirectory` |

`AccountMigrationProofs` proves, for any number of starts, interrupted anywhere:

| theorem | states |
|---|---|
| `MigrationKeepsItsPlace` | the inductive invariant `MInv` always |
| `ServesGuarded` | `ServingIsGuarded` always |
| `IndexInNobodysWay` | `IndexHolds` always |
| `GuardedStepsAreTheDirectorys` | `DirectoryWhileGuarded` |

`AccountSessionProofs` proves, for any number of tokens and requests:

| theorem | states |
|---|---|
| `SessionsImplement` | `SSpec` implies `ImplementsAccountService` |
| `TokensNameAccounts` | `TokenNamesItsAccount` always |
| `TokensExpire` | `GivenTokensExpire` always |
| `SessionsKeepPromises` | `SSpec` implies `UniqueNames`, `NoNewOrphans` and `RolesNormalised` always, `DeletedStaysDeleted`, `NoNewMultiBinding`, `HandlersAdvance` |
| `SessionsKeepPrivileges` | `SSpec` implies `SuperAdminProtected` |
| `SessionsKeepOneRole` | `SSpec` implies `SingleRoleKept` always, assuming `OneRoleInitially` |

`AccountInternalProofs` proves, for any number of goroutines, any requests and any suite:

| theorem | states |
|---|---|
| `InternalTypeCorrect` | `ITypeOK` always |
| `MutexesGivenBack` | `MutexesMatch` always |
| `CasesNeedTheToken` | `CasesAuthenticated` always |
| `SelftestsReport` | `ReportsComplete` always |

Assumptions are `ConstantsAssumption` (constants have the expected types) and
`TablesAssumption` (the initial tables satisfy their keys and UNIQUE constraints; bindings of
accounts that are gone are admitted, as the foreign key is added `NOT VALID`,
`account_storage.go:96`); TLC evaluates both on every run. `SingleRole` and
`SessionsKeepOneRole` alone assume more. The session theorems add `OperatorsAssumption` (a body
may come with any operator) and `SessionAssumption` (null values are none of the values); `InternalAssumption` gives
the constants of `AccountInternal` their types, `StorageAssumption` and a `TablesAssumption` of
its own those of `AccountStorage` (there every initial binding has its account: the
module is asked to clean up any account, and does not know, as the core does, that only
accounts some look-up has found are cleaned up); `MigrationAssumption` says that the name the migration
gives the seed is a name. `IdsAssumption`, for the evidence, says that ids are
finitely many (12 characters of 62), so that accounts can be counted.

The argument. `TypeInv` (types and `RolesNormalised`) is inductive: types alone
are not, because `Head(roles)` is a role only where the look-up left one. On it
rests `StepEffect`: every step leaves the tables alone or makes one of six changes
(`Insert`, `Rebind`, `Remove`, `Prune`, `Restore`, `Recolumn`). The table theorems
follow from these six, without looking at the handlers again. `SingleRoleKept` is
not inductive: a `Prune` decided earlier could empty an account. `OneRoleInv` adds
that nobody has several bindings, hence that no request is about to prune.
`SuperAdminProtected` rests on `GuardInv`: a handler holds the flag of
the account it looked up and compared flags before it came to write; that a flag
read earlier is still right when the handler writes holds of every account but the seed
because no step but a restoration of the seed changes a flag, and ids are not reused.
`Supers` is therefore fixed: the other accounts that were super from the start. Of the
seed a handler that saw it super compared the flag, and one that saw it ordinary is the
exception the property names.

`NoNewOrphans` needs `HandsClean`: an id that a handler has in hand (its operator, or the account
it looked up) is live or has no bindings (`Clean`). A handler gets ids in hand only from rows it
has read; an account that goes takes its bindings along; ids are not reused; and only the seed is
restored. So a late clean-up of an account that is gone finds nothing, and what is left of
accounts that were gone before stays as it was.

`HandlersAdvance` is the part of "every request is answered" that does not need fairness.
A handler is at a stage (its operator's look-up; permission, input, count and page; the
target's look-up and what follows), and within it has rows to read, a place on the way from
one query to the next, and roles to ask about; `Nearer` orders these four, the first that
differs deciding, and every step goes down. Each of the four is a natural number, so a
handler takes finitely many steps however many roles and rows it meets; no bound on their
number follows, since the page may have any length. `OperatorKnown` is what makes it
inductive: a handler that goes from its permission to its target has its operator, and does
not look it up again. What fairness adds, that the next step is taken, is `RequestsFinish`.

`DirectoryImplemented` takes the six changes of `StepEffect` to the directory's five
operations: `Insert` to `Create`, `Rebind` to `Assign`, `Prune` to `KeepOnly`, `Remove`
and `Restore` to their namesakes, `Recolumn` (a password, a status) to a stutter.
That names stay unique, that an id drawn for a new account has no bindings yet, and that a
clean-up of an account that is gone finds nothing (`HandsClean`) makes the operations' guards
true.

For the sessions, `SessionInv` says what ties the parts together: a token belongs to
one store and one account (`TokenOK`), that account was issued, so the request it
names is one `Start` admits; a handler that fell back from Redis has a token behind
which the project has no session (`NoSwitch`), so its operator cannot change; a
login that reaches its session holds an issued account (`Held`). With it every
action of `SNext` is an action of `Next` or leaves its variables alone, one lemma each.

Since they are steps of `Next`, all that is proved of `Spec` holds of `SSpec`
(`SessionsKeepPromises`, `SessionsKeepPrivileges`).

For the internal endpoints, `InternalInv` says what a stack of handlers looks like (`StackOK`):
at most two, since the self test that holds the mutex is at its bottom and another one
above it cannot get it; the upper one serves the case the lower one is at, with the mark
`Marked` gave it (`Nested`); and the results so far are as foreseen (`PassedSoFar`). Every
step either answers (`AnswerKeepsInv`), goes on in its handler (`GotoKeepsInv`), calls
one or skips a case, and each of these keeps the invariant.

For the evidence, `OperatorOK` and `LoginOK` say what a handler in a given place has in hand
was witnessed: the row it scanned, each role it read, the permission it was told of. They
speak of a request's record and a set of facts, so a step of somebody else, which only adds
facts, keeps them; a step of the request adds what it has just read, which is among the facts
of that moment (`WitnessedNow`). Roles read of an account that was deleted meanwhile are none, by
`HandsClean`. For a login, what it may witness includes the account it has in hand
(`LoginFacts`), whatever that is called by then: the seed changes its name.

For the list, `ListOK` says that there was a set of accounts, those the page query saw, all of
which are witnessed as matched and all others as unmatched; that the accounts shown and those
in the waiting rows are among them, and together as many as `PageLength` says of it. Rows only move from
waiting to shown, so at the end the shown ones are the page. The set lies between the accounts
that matched throughout and those that ever did, and `PageLength` grows with the number
(`LengthGrows`); that the offset is the product where that fits the width is arithmetic modulo
`2^IntBits` (`OffsetExact`), for which the prover needs to be told what powers of two are:
`PowersOfTwo` gets it from the number of subsets of a set. The witnesses are kept only from
the page query on: what matched before is no excuse for a page.

For the storage, `TInv` says of each open transaction (`OwnOK`) which suffix of its script is
left, that it holds its row from the statement that takes it to the commit, and that what its
account has is among what it deleted once it comes to insert (`Cleared`); of two, that they
hold different rows (`RowsApart`) and insert different names (`NamesApart`); and that nobody
has seen a binding of a transaction still open (`MadeAtTheEnd`). `BindNeverConflicts` and the refinement are not inductive without
them: that a commit leaves exactly one role needs that nobody bound another since its "unbind",
which is the held row, and that a deletion leaves none needs the cascade and so the foreign
key (`DeletesEmpty`). A commit is then a step of the directory, any other step a stutter.

For the migration, `MInv` adds what the statements that are behind a start have put in force
(`BootOK`), that no account has two bindings once the DO block has found none that has
(`IndexOK`), and that no transaction is past its first statement on the bindings while a start
has them locked (`LocksKeepOut`). A commit leaves no account with more than one binding unless it had
them before, which is why the check may come before the lock. All of `TInv` but `DeletesEmpty` is
kept while a start has dropped the foreign key, and when it is added again no deletion is
half done.

Only model-checked: the five liveness properties `RequestsFinish`, `ExpiredAdminDisabled`,
`TransactionsEnd`, `InitEnds` and `EveryRequestAnswered` (fairness is beyond the prover here).
Every other property of a passing run is a theorem. The four runs that expect a violation
refute what they state.

## What is assumed

- Ids and tokens are never drawn twice; clients name ids they were given.
- PostgreSQL behaves as documented for READ COMMITTED: row locks until the end of a
  transaction, a re-check of the row waited for, deadlock detection, cascades over what is
  committed when they run.
- For the answers of `progress` only: lists do not hold every connection of the pool. Each list
  holds the connection of its page while it asks for each row on another; as many lists as
  connections wait for each other until a request is cancelled. `AccountStorage` has this
  state, and `TransactionsEnd` names it as its one exception (`ListsHoldPool`). `src` sets no
  limit on the pool; the connection handed to it may have one. The list sends its page (at most 100 rows)
  before its rows' bindings are asked for, so the page's statement holds no lock by then.
- One instance runs `initStorage` at a time; transactions of others may run.
- The runtime sets `X-Internal-Authenticated` itself; clients cannot.

## Not modelled

- The in-memory store: used when there is no database, that is by unit tests; each of its
  operations is one step under one mutex, and it has no UNIQUE constraint.
- Routes, configuration and registration in `main.go`, and the WebSocket example: no state of
  the module.
- Templates, the comparison of fields and the texts of the self test: a case's answer is one
  it expects or not.
- HTTP and JSON of the role client: a call answers the role's state or fails.
- Creation of the extension, `generate_short_id`, tables and columns: done once, changes
  nothing the model has.
- Validation of formats is one step (`RejectInput`) that may refuse any request; hashes are an
  injective constructor; role ids are never blank.

See `components` in `PROJECT.json`.

## Plan

Every safety property the runs check is proved. What could follow:

- The hazards without a property: two super administrators deleting each other
  (`account_delete.go:36`) leaves only the seed, which the code allows and nothing in the
  repository excludes; an expired administrator logging in before the next tick
  (`account_temporary_admin.go:106`) needs clock time, which the model has only as an
  order; names in the in-memory store (`account_storage.go:256`) need a model of that store.
- The role client's timeout and decoding, now one failure among others.
