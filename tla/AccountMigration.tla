--------------------------- MODULE AccountMigration ---------------------------
(***************************************************************************)
(* initStorage on PostgreSQL, while transactions of the instance that is   *)
(* being replaced, or of another one, still run. Its statements commit one *)
(* by one: Init may fail or the process die after any of them, and the     *)
(* next start meets what was left. ALTER TABLE and CREATE INDEX lock whole *)
(* tables, against every transaction that has used them.                   *)
(*                                                                         *)
(* Assumed: one start at a time. What is created once and never changed    *)
(* (extension, function, tables, columns) is left out.                     *)
(***************************************************************************)
EXTENDS AccountStorage, Functions

CONSTANTS SeedName, MaxStarts

ASSUME MigrationAssumption == SeedName \in Names

VARIABLES
  boot,      \* "down", "init" or "serving"
  rest,      \* the statements of initStorage still to run
  locks,     \* the tables the current one has locked
  oneRole,   \* the one-role index exists
  starts

bvars == <<boot, rest, locks, oneRole, starts>>
mvars == <<tvars, bvars>>

\* Mutation of Migration: the foreign key is dropped after it was added.
MigrationDropsLast ==
  <<"dropForeignKey", "alterAccounts", "alterBindings", "checkOneRole",
    "oneRoleIndex", "addForeignKey", "dropForeignKey", "seed">>

\* account_id's foreign key is dropped twice, so that both columns can change
\* their type whether or not the tables were there.
Migration ==
  <<"dropForeignKey", "alterAccounts", "dropForeignKey", "alterBindings",
    "checkOneRole", "oneRoleIndex", "addForeignKey", "seed">>

Duplicates ==
  \E b, c \in bindings : b # c /\ b.account_id = c.account_id

\* The tables may come from any earlier version or an interrupted start.
MInit ==
  /\ rows = InitRows
  /\ bindings \in {InitBindings, {}}
  /\ issued = {i \in Ids : InitRows[i] # NoRow} \cup {Seed}
  /\ fk \in BOOLEAN
  /\ tx = [t \in Txs |-> NoTransaction]
  /\ boot = "down" /\ rest = <<>> /\ locks = {} /\ starts = 0
  /\ oneRole \in BOOLEAN /\ (oneRole => ~Duplicates)
-----------------------------------------------------------------------------
(* Table locks *)

Table(statement) ==
  IF statement \in {"insert", "change", "remove", "upsert", "page"}
  THEN "accounts" ELSE "bindings"

\* A transaction keeps the tables of the statements it has begun. The page of
\* a list is a transaction of its own, over once its rows are sent.
Touched(t) ==
  IF t \notin Open \/ Op(t) = "list" THEN {}
  ELSE {Table(s) : s \in Range(Script(Op(t))) \ Range(tx[t].todo)}
         \cup (IF tx[t].asked THEN {Table(Head(tx[t].todo))} ELSE {})

Exclusive == {"dropForeignKey", "alterAccounts", "alterBindings"}

\* A list waits for ALTER TABLE, but not for CREATE INDEX or ADD CONSTRAINT.
Blocked(t) ==
  /\ t \in Open /\ tx[t].todo # <<>> /\ ~At(t, "commit")
  /\ Table(Head(tx[t].todo)) \in locks
  /\ Op(t) = "list" => Head(rest) \in Exclusive

Running(statement) == boot = "init" /\ Head(rest) = statement

Needs ==
  CASE Running("dropForeignKey") ->
         IF fk THEN {"bindings", "accounts"} ELSE {"bindings"}
    [] Running("addForeignKey") ->
         IF fk THEN {} ELSE {"bindings", "accounts"}
    [] Running("alterAccounts") -> {"accounts"}
    [] Running("alterBindings") \/ Running("oneRoleIndex") -> {"bindings"}
    [] OTHER -> {}

\* The altered table is locked before the one it refers to.
Wanted == IF "bindings" \in Needs \ locks THEN {"bindings"} ELSE Needs \ locks

Lock ==
  /\ boot = "init" /\ Wanted # {}
  /\ \A t \in Txs : Touched(t) \cap Wanted = {}
  /\ locks' = locks \cup Wanted
  /\ UNCHANGED <<tvars, boot, rest, oneRole, starts>>

\* The statement is done and committed.
Done(after) == Wanted = {} /\ rest' = after /\ locks' = {}
-----------------------------------------------------------------------------
(* initStorage *)

Start ==
  /\ boot = "down" /\ starts < MaxStarts
  /\ boot' = "init" /\ rest' = Migration /\ starts' = starts + 1
  /\ UNCHANGED <<tvars, locks, oneRole>>

DropForeignKey ==
  /\ Running("dropForeignKey") /\ Done(Tail(rest))
  /\ fk' = FALSE
  /\ UNCHANGED <<stored, tx, boot, oneRole, starts>>

AlterColumns ==
  /\ Running("alterAccounts") \/ Running("alterBindings")
  /\ Done(Tail(rest))
  /\ UNCHANGED <<tvars, boot, oneRole, starts>>

\* Mutation of CheckOneRole: without looking for several roles.
CheckOneRoleAnyway ==
  /\ Running("checkOneRole")
  /\ Done(IF oneRole THEN Tail(Tail(rest)) ELSE Tail(rest))
  /\ UNCHANGED <<tvars, boot, oneRole, starts>>

\* The condition of the DO block, on what is committed when it begins.
CheckOneRole ==
  /\ Running("checkOneRole")
  /\ Done(IF oneRole \/ Duplicates THEN Tail(Tail(rest)) ELSE Tail(rest))
  /\ UNCHANGED <<tvars, boot, oneRole, starts>>

OneRoleIndex ==
  /\ Running("oneRoleIndex") /\ Done(Tail(rest))
  /\ oneRole' = TRUE
  /\ UNCHANGED <<tvars, boot, starts>>

\* NOT VALID: bindings without an account stay.
AddForeignKey ==
  /\ Running("addForeignKey") /\ Done(Tail(rest))
  /\ fk' = TRUE
  /\ UNCHANGED <<stored, tx, boot, oneRole, starts>>

\* ON CONFLICT (id) DO NOTHING. The name may be another account's: Init fails.
InsertSeed ==
  /\ Running("seed") /\ Done(<<>>)
  /\ ~RowHeld(NoTx, Seed)
  /\ IF Seed \in Present THEN UNCHANGED rows
     ELSE /\ ~NameHeld(NoTx, SeedName) /\ ~Taken(SeedName, Seed)
          /\ rows' = [rows EXCEPT ![Seed] =
               [account |-> SeedName, is_super_admin |-> TRUE, by |-> NoTx]]
  /\ boot' = "serving"
  /\ UNCHANGED <<bindings, issued, fk, tx, oneRole, starts>>

\* An error of a statement, a cancelled LifecycleCtx, a crash, a Shutdown.
Stop ==
  /\ boot # "down"
  /\ boot' = "down" /\ rest' = <<>> /\ locks' = {}
  /\ UNCHANGED <<tvars, oneRole, starts>>

\* The transaction has a table the statement waits for, and waits for one the
\* statement has: PostgreSQL ends either.
Embraced(t) == boot = "init" /\ Blocked(t) /\ Touched(t) \cap Wanted # {}
BreakEmbrace ==
  \E t \in Txs : /\ Embraced(t)
                 /\ Stop \/ (Abort(t) /\ UNCHANGED bvars)
SeedNameTaken ==
  Running("seed") /\ Seed \notin Present /\ Taken(SeedName, Seed) /\ Stop

Boot == \/ Lock \/ DropForeignKey \/ AlterColumns \/ CheckOneRole
        \/ OneRoleIndex \/ AddForeignKey \/ InsertSeed

MAdvance(t) == Advance(t) /\ ~Blocked(t) /\ UNCHANGED bvars
MDetectDeadlock(t) == DetectDeadlock(t) /\ UNCHANGED bvars

MNext ==
  \/ Start \/ Boot \/ Stop \/ BreakEmbrace
  \/ \E t \in Txs : \/ (Begin(t) \/ Abort(t)) /\ UNCHANGED bvars
                    \/ MAdvance(t) \/ MDetectDeadlock(t)

MSpec == MInit /\ [][MNext]_mvars

MFairSpec ==
  /\ MSpec
  /\ WF_mvars(Boot) /\ WF_mvars(BreakEmbrace) /\ WF_mvars(SeedNameTaken)
  /\ \A t \in Txs : WF_mvars(MAdvance(t)) /\ WF_mvars(MDetectDeadlock(t))
-----------------------------------------------------------------------------
(* What is promised *)

\* The plugin serves only with the foreign key in force, however often earlier
\* starts were interrupted, and wherever.
ServingIsGuarded == boot = "serving" => fk

\* The index is never in anybody's way: no account has two bindings while it
\* exists, from the moment it is created, after a check made before the lock.
IndexHolds == oneRole => ~Duplicates

\* While the foreign key is in force every step, a start's too, is one of the
\* directory of accounts: no binding is left without its account. Between DROP
\* and ADD CONSTRAINT a deletion that overtakes an update may leave one.
DirectoryWhileGuarded == [][fk => [Directory!Next]_(Directory!dvars)]_mvars

\* A start comes to an end, whatever transactions run: it never waits for ever.
InitEnds == boot = "init" ~> boot # "init"
=============================================================================
