---------------------------- MODULE AccountStorage ----------------------------
(***************************************************************************)
(* The transactions of the account module, statement by statement, on      *)
(* PostgreSQL at READ COMMITTED: a statement sees what was committed when  *)
(* it began, then waits for the row locks it needs, and goes on with what  *)
(* the transactions it waited for have left. rows and bindings are what is *)
(* committed; tx[t] is a transaction and what it has done so far.          *)
(*                                                                         *)
(* AccountService takes a transaction for one step; this module shows that *)
(* createAccount, updateAccount, deleteAccount, keepOnlyAccountRole and    *)
(* createTemporaryAdmin change the directory of accounts at once or not at *)
(* all. resetPassword and the worker's UPDATE change no column of it.      *)
(***************************************************************************)
EXTENDS Integers, Sequences, FiniteSets

CONSTANTS
  Ids, Seed, Roles, Names,
  Txs,           \* goroutines with a transaction each
  Jobs,          \* what each of them may be asked to do
  Connections,   \* size of the connection pool
  InitRows, InitBindings,
  NoId, NoRow, NoTx

\* by: the transaction that inserted the row, NoTx for rows found at the start.
\* It tells a row from a later one with the same contents.
Row == [account : Names, is_super_admin : BOOLEAN, by : Txs \cup {NoTx}]
Binding == [account_id : Ids, role_id : Roles, by : Txs \cup {NoTx}]

Job == [op : {"create"}, name : Names, role : Roles]
         \cup [op : {"update", "keepOnly"}, target : Ids, role : Roles]
         \cup [op : {"delete"}, target : Ids]
         \cup [op : {"restore"}, name : Names]
         \cup [op : {"list"}]
NoJob == [op |-> "none"]

ASSUME StorageAssumption ==
  /\ Seed \in Ids /\ NoId \notin Ids /\ NoTx \notin Txs
  /\ NoRow \notin Row \cup Txs \cup {NoTx}
  /\ NoRow \notin [account : Names, is_super_admin : BOOLEAN]
  /\ Jobs \in [Txs -> SUBSET Job]

\* The tables satisfy their keys and constraints.
ASSUME TablesAssumption ==
  /\ InitRows \in [Ids -> Row \cup {NoRow}]
  /\ InitBindings \subseteq Binding
  /\ \A i \in Ids : InitRows[i] # NoRow => InitRows[i].by = NoTx
  /\ \A b \in InitBindings : InitRows[b.account_id] # NoRow /\ b.by = NoTx
  /\ \A i, j \in Ids :
       /\ InitRows[i] # NoRow /\ InitRows[j] # NoRow
       /\ InitRows[i].account = InitRows[j].account
       => i = j

VARIABLES
  rows,      \* account_accounts: id -> row or NoRow
  bindings,  \* account_role_bindings
  issued,    \* every id that has ever named an account
  fk,        \* the foreign key of the bindings is in force
  tx

stored == <<rows, bindings, issued>>
tvars == <<rows, bindings, issued, fk, tx>>

Statements == {"insert", "change", "unbind", "bind", "remove", "cascade",
               "commit", "prune", "upsert", "page", "row"}

Tx == [pc : {"new", "open", "ended"}, job : Job \cup {NoJob},
       todo : Seq(Statements),
       asked : BOOLEAN,                  \* the statement has its snapshot
       seen : SUBSET Binding,            \* the bindings in it
       version : Txs \cup {NoTx, NoRow}, \* the account row in it
       id : Ids \cup {NoId}, holds : BOOLEAN,
       new : Row \cup {NoRow}, gone : SUBSET Binding, left : Nat]

NoTransaction ==
  [pc |-> "new", job |-> NoJob, todo |-> <<>>, asked |-> FALSE, seen |-> {},
   version |-> NoRow, id |-> NoId, holds |-> FALSE, new |-> NoRow,
   gone |-> {}, left |-> 0]

TInit ==
  /\ rows = InitRows
  /\ bindings = InitBindings
  /\ issued = {i \in Ids : InitRows[i] # NoRow} \cup {Seed}
  /\ fk = TRUE
  /\ tx = [t \in Txs |-> NoTransaction]
-----------------------------------------------------------------------------
(* Transactions and connections *)

Open == {t \in Txs : tx[t].pc = "open"}
Op(t) == tx[t].job.op
At(t, statement) == t \in Open /\ tx[t].todo # <<>> /\ Head(tx[t].todo) = statement
Present == {i \in Ids : rows[i] # NoRow}

\* Mutation of Script: replaceAccountRolesTx before the UPDATE.
ScriptUnbindFirst(op) ==
  CASE op = "create" -> <<"insert", "unbind", "bind", "commit">>
    [] op = "update" -> <<"unbind", "bind", "change", "commit">>
    [] op = "delete" -> <<"unbind", "remove", "cascade", "commit">>
    [] op = "keepOnly" -> <<"prune">>
    [] op = "restore" -> <<"upsert">>
    [] op = "list" -> <<"page", "row">>

\* The statements of each function, in the order of the code.
Script(op) ==
  CASE op = "create" -> <<"insert", "unbind", "bind", "commit">>
    [] op = "update" -> <<"change", "unbind", "bind", "commit">>
    [] op = "delete" -> <<"unbind", "remove", "cascade", "commit">>
    [] op = "keepOnly" -> <<"prune">>
    [] op = "restore" -> <<"upsert">>
    [] op = "list" -> <<"page", "row">>

\* A transaction, and a statement outside of any, has a connection of its own.
Free == Cardinality(Open) < Connections

Begin(t) ==
  /\ tx[t].pc = "new" /\ Free
  /\ \E job \in Jobs[t] :
       /\ job.op \in {"update", "keepOnly", "delete"} => job.target \in issued
       /\ tx' = [tx EXCEPT ![t] =
            [NoTransaction EXCEPT !.pc = "open", !.job = job,
               !.todo = Script(job.op),
               !.id = IF job.op \in {"update", "keepOnly", "delete"}
                      THEN job.target ELSE NoId]]
  /\ UNCHANGED <<stored, fk>>

\* Commit, or the deferred Rollback: locks and connection are given back.
End(t) == tx' = [tx EXCEPT ![t] = [NoTransaction EXCEPT !.pc = "ended"]]

Proceed(t, after) ==
  tx' = [tx EXCEPT ![t] = [after EXCEPT !.todo = Tail(@), !.asked = FALSE,
                                        !.seen = {}, !.version = NoRow]]

\* Another transaction has deleted one of these bindings, or changed or
\* deleted the row of this account, and has not ended.
BindingsHeld(t, S) == \E u \in Open \ {t} : tx[u].gone \cap S # {}
RowHeld(t, i) == \E u \in Open \ {t} : tx[u].holds /\ tx[u].id = i

\* An uncommitted row has this name, or one that has it is being changed.
NameHeld(t, name) ==
  \/ \E u \in Open \ {t} : tx[u].new # NoRow /\ tx[u].new.account = name
  \/ \E i \in Present : rows[i].account = name /\ RowHeld(t, i)

Taken(name, except) == \E i \in Present \ {except} : rows[i].account = name
-----------------------------------------------------------------------------
(* Statements on rows that are there: begun, then carried out *)

Version(i) == IF i \in Present THEN rows[i].by ELSE NoRow

Matched(t) ==
  {b \in bindings \ tx[t].gone :
     /\ b.account_id = tx[t].id
     /\ At(t, "prune") => b.role_id # tx[t].job.role}

Ask(t) ==
  /\ \/ At(t, "unbind") \/ At(t, "cascade") \/ At(t, "prune")
     \/ At(t, "change") \/ At(t, "remove")
  /\ ~tx[t].asked
  /\ tx' = [tx EXCEPT ![t].asked = TRUE, ![t].seen = Matched(t),
                      ![t].version = Version(tx[t].id)]
  /\ UNCHANGED <<stored, fk>>

\* DELETE FROM account_role_bindings, the transaction's own or the cascade of
\* the foreign key.
DeleteBindings(t) ==
  /\ At(t, "unbind") \/ At(t, "cascade")
  /\ tx[t].asked /\ ~BindingsHeld(t, tx[t].seen)
  /\ Proceed(t, [tx[t] EXCEPT !.gone = @ \cup (tx[t].seen \cap bindings)])
  /\ UNCHANGED <<stored, fk>>

\* The row of the snapshot is still there: not deleted, nor deleted and
\* restored.
StillThere(t) == tx[t].version # NoRow /\ tx[t].version = Version(tx[t].id)

\* UPDATE ... RETURNING
ChangeRow(t) ==
  /\ At(t, "change") /\ tx[t].asked /\ StillThere(t)
  /\ ~RowHeld(t, tx[t].id)
  /\ Proceed(t, [tx[t] EXCEPT !.holds = TRUE])
  /\ UNCHANGED <<stored, fk>>

\* DELETE FROM account_accounts; without the foreign key nothing cascades.
RemoveRow(t) ==
  /\ At(t, "remove") /\ tx[t].asked /\ StillThere(t)
  /\ ~RowHeld(t, tx[t].id)
  /\ Proceed(t, [tx[t] EXCEPT !.holds = TRUE,
                              !.todo = IF fk THEN @ ELSE Tail(@)])
  /\ UNCHANGED <<stored, fk>>

\* Mutation of RowGone: no Rollback when there is nothing to change.
RowGoneLeftOpen(t) ==
  /\ At(t, "change") \/ At(t, "remove")
  /\ tx[t].asked /\ ~StillThere(t)
  /\ tx' = [tx EXCEPT ![t].todo = <<>>, ![t].asked = FALSE]
  /\ UNCHANGED <<stored, fk>>

\* No row: what the transaction has done is undone.
RowGone(t) ==
  /\ At(t, "change") \/ At(t, "remove")
  /\ tx[t].asked /\ ~StillThere(t)
  /\ End(t)
  /\ UNCHANGED <<stored, fk>>

\* keepOnlyAccountRole, outside of any transaction.
Prune(t) ==
  /\ At(t, "prune") /\ tx[t].asked /\ ~BindingsHeld(t, tx[t].seen)
  /\ bindings' = bindings \ tx[t].seen
  /\ End(t)
  /\ UNCHANGED <<rows, issued, fk>>
-----------------------------------------------------------------------------
(* Statements that insert, and the end *)

\* INSERT INTO account_accounts under a random id; UNIQUE (account).
InsertRow(t) ==
  LET name == tx[t].job.name IN
  /\ At(t, "insert") /\ ~NameHeld(t, name) /\ ~Taken(name, NoId)
  /\ \E i \in Ids \ (issued \cup {tx[u].id : u \in Open}) :
       Proceed(t, [tx[t] EXCEPT !.id = i, !.holds = TRUE, !.new =
         [account |-> name, is_super_admin |-> FALSE, by |-> t]])
  /\ UNCHANGED <<stored, fk>>

\* A name in use: the INSERT, or createTemporaryAdmin's, fails.
NameTaken(t) ==
  /\ At(t, "insert") \/ (At(t, "upsert") /\ ~RowHeld(t, Seed))
  /\ ~NameHeld(t, tx[t].job.name)
  /\ Taken(tx[t].job.name, IF At(t, "upsert") THEN Seed ELSE NoId)
  /\ End(t)
  /\ UNCHANGED <<stored, fk>>

\* INSERT ... ON CONFLICT (id) DO UPDATE on the seed.
Upsert(t) ==
  LET name == tx[t].job.name IN
  /\ At(t, "upsert") /\ ~RowHeld(t, Seed)
  /\ ~NameHeld(t, name) /\ ~Taken(name, Seed)
  /\ rows' = [rows EXCEPT ![Seed] =
       [account |-> name, is_super_admin |-> TRUE,
        by |-> IF Seed \in Present THEN rows[Seed].by ELSE t]]
  /\ End(t)
  /\ UNCHANGED <<bindings, issued, fk>>

\* INSERT INTO account_role_bindings: nobody sees it before the COMMIT.
Bind(t) ==
  /\ At(t, "bind")
  /\ Proceed(t, tx[t])
  /\ UNCHANGED <<stored, fk>>

Bound(t) == IF Op(t) = "delete" THEN {}
            ELSE {[account_id |-> tx[t].id, role_id |-> tx[t].job.role,
                   by |-> t]}

Commit(t) ==
  /\ At(t, "commit")
  /\ rows' = [rows EXCEPT ![tx[t].id] = CASE Op(t) = "create" -> tx[t].new
                                          [] Op(t) = "update" -> @
                                          [] Op(t) = "delete" -> NoRow]
  /\ bindings' = (bindings \ tx[t].gone) \cup Bound(t)
  /\ issued' = issued \cup {tx[t].id}
  /\ End(t)
  /\ UNCHANGED fk

\* listAccounts keeps the connection of its page while it asks for the
\* bindings of each row on another one.
ReadPage(t) ==
  /\ At(t, "page")
  /\ \E n \in 0..Cardinality(Present) : Proceed(t, [tx[t] EXCEPT !.left = n])
  /\ UNCHANGED <<stored, fk>>

ReadRow(t) ==
  /\ At(t, "row")
  /\ IF tx[t].left = 0 THEN End(t)
     ELSE Free /\ tx' = [tx EXCEPT ![t].left = @ - 1]
  /\ UNCHANGED <<stored, fk>>
-----------------------------------------------------------------------------
(* Failure and waiting *)

\* A lost connection, a cancelled request, a crash.
Abort(t) ==
  /\ t \in Open
  /\ End(t)
  /\ UNCHANGED <<stored, fk>>

WaitsFor(t, u) ==
  /\ t \in Open /\ u \in Open \ {t} /\ tx[t].asked
  /\ \/ /\ At(t, "unbind") \/ At(t, "cascade") \/ At(t, "prune")
        /\ tx[u].gone \cap tx[t].seen # {}
     \/ /\ At(t, "change") \/ At(t, "remove")
        /\ StillThere(t) /\ tx[u].holds /\ tx[u].id = tx[t].id

\* PostgreSQL looks for a cycle of waiting transactions and ends one of it.
Deadlocked(t) ==
  /\ \E u \in Open : WaitsFor(t, u)
  /\ \E S \in SUBSET Open : t \in S /\
    \E next \in [S -> S] :
      /\ \A u \in S : WaitsFor(u, next[u])
      /\ \A u, v \in S : next[u] = next[v] => u = v

DetectDeadlock(t) ==
  /\ Deadlocked(t)
  /\ End(t)
  /\ UNCHANGED <<stored, fk>>

Advance(t) ==
  \/ Ask(t) \/ DeleteBindings(t) \/ ChangeRow(t) \/ RemoveRow(t) \/ RowGone(t)
  \/ Prune(t) \/ InsertRow(t) \/ NameTaken(t) \/ Upsert(t) \/ Bind(t)
  \/ Commit(t) \/ ReadPage(t) \/ ReadRow(t)

TNext == \E t \in Txs : \/ Begin(t) \/ Advance(t) \/ Abort(t)
                        \/ DetectDeadlock(t)

TSpec == TInit /\ [][TNext]_tvars

\* A statement that can go on does; a deadlock is noticed.
TFairness == \A t \in Txs : WF_tvars(Advance(t)) /\ WF_tvars(DetectDeadlock(t))

TFairSpec == TSpec /\ TFairness
-----------------------------------------------------------------------------
(* What is promised *)

\* The tables implement the directory of accounts: whatever transactions
\* interleave, wait for each other, deadlock or are aborted, a commit changes
\* the account and all its bindings as its function means to, or nothing.
View(row) == IF row = NoRow THEN NoRow
             ELSE [account |-> row.account,
                   is_super_admin |-> row.is_super_admin]
RolesOf(i) == {b.role_id : b \in {c \in bindings : c.account_id = i}}

Directory == INSTANCE AccountDirectory WITH
  accounts <- [i \in Ids |-> View(rows[i])],
  roles <- [i \in Ids |-> RolesOf(i)]

ImplementsDirectory == Directory!Spec

\* The INSERT of replaceAccountRolesTx meets no other binding of its account:
\* it never fails on UNIQUE (account_id, role_id) nor on the one-role index,
\* although other updates, deletions and clean-ups run.
BindNeverConflicts ==
  \A t \in Open : At(t, "bind") \/ (At(t, "commit") /\ Op(t) # "delete") =>
    /\ \A b \in bindings \ tx[t].gone : b.account_id # tx[t].id
    /\ \A u \in Open \ {t} : tx[u].id = tx[t].id => ~At(u, "bind")

\* listAccounts asks for the bindings of a row while it still has the
\* connection of its page: lists alone have every connection, and each of them
\* waits for one more.
ListsHoldPool ==
  /\ ~Free
  /\ \A t \in Open : At(t, "row") /\ tx[t].left > 0

\* Every transaction ends, whatever it waits for: row locks and connections
\* are given back on every path. The one exception is a pool held by lists,
\* which wait for each other until one is cancelled.
TransactionsEnd ==
  \A t \in Txs : t \in Open ~> t \notin Open \/ ListsHoldPool
=============================================================================
