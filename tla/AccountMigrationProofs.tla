------------------------ MODULE AccountMigrationProofs ------------------------
(***************************************************************************)
(* A start of the plugin among transactions, for any tables, any number of *)
(* transactions and of interrupted starts: what it serves is guarded by    *)
(* the foreign key, the one-role index is in nobody's way, and every step  *)
(* under the foreign key is one of the directory of accounts.              *)
(*                                                                         *)
(* TCore of AccountStorageProofs holds on whatever schema. What must be    *)
(* shown of a start is that it adds the foreign key when no deletion is    *)
(* half done: it has locked the bindings, which every transaction past its *)
(* first statement on them has in use.                                     *)
(***************************************************************************)
EXTENDS AccountMigration, AccountStorageProofs

\* What can be left of a start.
Left ==
  {<<"dropForeignKey", "alterAccounts", "dropForeignKey", "alterBindings",
     "checkOneRole", "oneRoleIndex", "addForeignKey", "seed">>,
   <<"alterAccounts", "dropForeignKey", "alterBindings", "checkOneRole",
     "oneRoleIndex", "addForeignKey", "seed">>,
   <<"dropForeignKey", "alterBindings", "checkOneRole", "oneRoleIndex",
     "addForeignKey", "seed">>,
   <<"alterBindings", "checkOneRole", "oneRoleIndex", "addForeignKey", "seed">>,
   <<"checkOneRole", "oneRoleIndex", "addForeignKey", "seed">>,
   <<"oneRoleIndex", "addForeignKey", "seed">>,
   <<"addForeignKey", "seed">>,
   <<"seed">>}

\* What a statement of a start is followed by.
Follows(s) ==
  CASE s = "dropForeignKey" -> {"alterAccounts", "alterBindings"}
    [] s = "alterAccounts" -> {"dropForeignKey"}
    [] s = "alterBindings" -> {"checkOneRole"}
    [] s = "checkOneRole" -> {"oneRoleIndex"}
    [] s = "oneRoleIndex" -> {"addForeignKey"}
    [] s = "addForeignKey" -> {"seed"}

LEMMA StartGoesOn ==
  ASSUME NEW x \in Left
  PROVE  Head(x) # "seed" =>
           Tail(x) \in Left /\ Head(Tail(x)) \in Follows(Head(x))
<1>1. CASE x = <<"dropForeignKey", "alterAccounts", "dropForeignKey",
                 "alterBindings", "checkOneRole", "oneRoleIndex",
                 "addForeignKey", "seed">>
  BY <1>1 DEF Left, Follows
<1>2. CASE x = <<"alterAccounts", "dropForeignKey", "alterBindings",
                 "checkOneRole", "oneRoleIndex", "addForeignKey", "seed">>
  BY <1>2 DEF Left, Follows
<1>3. CASE x = <<"dropForeignKey", "alterBindings", "checkOneRole",
                 "oneRoleIndex", "addForeignKey", "seed">>
  BY <1>3 DEF Left, Follows
<1>4. CASE x = <<"alterBindings", "checkOneRole", "oneRoleIndex",
                 "addForeignKey", "seed">>
  BY <1>4 DEF Left, Follows
<1>5. CASE x = <<"checkOneRole", "oneRoleIndex", "addForeignKey", "seed">>
  BY <1>5 DEF Left, Follows
<1>6. CASE x = <<"oneRoleIndex", "addForeignKey", "seed">>
  BY <1>6 DEF Left, Follows
<1>7. CASE x = <<"addForeignKey", "seed">>
  BY <1>7 DEF Left, Follows
<1>8. CASE x = <<"seed">>
  BY <1>8
<1> QED
  BY <1>1, <1>2, <1>3, <1>4, <1>5, <1>6, <1>7, <1>8 DEF Left
-----------------------------------------------------------------------------
(* The inductive invariant *)

BootOK ==
  /\ boot \in {"down", "init", "serving"}
  /\ boot = "init" => rest \in Left
  /\ boot # "init" => locks = {}
  /\ boot = "serving" \/ Running("seed") => fk

\* No account has two bindings once the DO block has found none that has.
IndexOK == oneRole \/ Running("oneRoleIndex") => ~Duplicates

\* The transaction has the table of the bindings in use.
HasBindings(t) ==
  \/ Statement(t) \in {"bind", "remove", "cascade", "commit"}
  \/ Statement(t) \in {"unbind", "prune"} /\ tx[t].asked

LocksKeepOut == "bindings" \in locks => \A t \in Open : ~HasBindings(t)

MInv == TInv /\ BootOK /\ IndexOK /\ LocksKeepOut

-----------------------------------------------------------------------------
(* Transactions among a start *)

\* The bindings are among the tables of such a transaction.
LEMMA BindingsTouched ==
  ASSUME TCore, NEW t \in Open, HasBindings(t)
  PROVE  "bindings" \in Touched(t)
<1>1. /\ Op(t) \in Ops /\ tx[t].todo \in Suffixes(Op(t))
      /\ Statement(t) \in StatementsOf(Op(t))
  BY OpenTransaction
<1>2. Op(t) # "list"
  BY <1>1 DEF HasBindings, StatementsOf
<1>3. CASE Statement(t) \in {"unbind", "prune"} /\ tx[t].asked
  BY <1>2, <1>3 DEF Touched, Table, Statement
<1>4. CASE Statement(t) \in {"bind", "remove", "cascade", "commit"}
  <2>1. "unbind" \in Range(Script(Op(t)))
    <3>1. CASE Op(t) \in {"create", "update"}
      <4>1. 2 \in DOMAIN Script(Op(t)) /\ Script(Op(t))[2] = "unbind"
        BY <3>1 DEF Script
      <4> QED
        BY <4>1 DEF Range
    <3>2. CASE Op(t) = "delete"
      <4>1. 1 \in DOMAIN Script(Op(t)) /\ Script(Op(t))[1] = "unbind"
        BY <3>2 DEF Script
      <4> QED
        BY <4>1 DEF Range
    <3> QED
      BY <1>1, <1>4, <3>1, <3>2 DEF Ops, StatementsOf
  <2>2. "unbind" \notin Range(tx[t].todo)
    <3>1. tx[t].todo \in {<<"bind", "commit">>, <<"commit">>,
                          <<"remove", "cascade", "commit">>,
                          <<"cascade", "commit">>}
      BY <1>1, <1>4 DEF Statement, Suffixes, Ops
    <3>2. CASE tx[t].todo = <<"bind", "commit">>
      BY <3>2 DEF Range
    <3>3. CASE tx[t].todo = <<"commit">>
      BY <3>3 DEF Range
    <3>4. CASE tx[t].todo = <<"remove", "cascade", "commit">>
      BY <3>4 DEF Range
    <3>5. CASE tx[t].todo = <<"cascade", "commit">>
      BY <3>5 DEF Range
    <3> QED
      BY <3>1, <3>2, <3>3, <3>4, <3>5
  <2> QED
    BY <1>2, <2>1, <2>2 DEF Touched, Table
<1> QED
  BY <1>3, <1>4 DEF HasBindings

\* A transaction does not come to use a table that is locked.
LEMMA KeptOut ==
  ASSUME TCore, LocksKeepOut, NEW t \in Txs, locks' = locks,
         \/ Begin(t) \/ Abort(t) \/ DetectDeadlock(t)
         \/ Advance(t) /\ ~Blocked(t)
  PROVE  LocksKeepOut'
<1> SUFFICES ASSUME "bindings" \in locks, NEW u \in Open'
             PROVE  ~HasBindings(u)'
  BY DEF LocksKeepOut
<1>1. TStep(t)
  BY DEF TStep
<1>2. CASE u # t
  <2>1. u \in Open /\ tx'[u] = tx[u]
    BY <1>1, <1>2, StepFrame DEF Open
  <2> QED
    BY <2>1 DEF LocksKeepOut, HasBindings, Statement
<1>3. CASE u = t
  <2>1. CASE Begin(t)
    BY <1>3, <2>1, BeginKeeps DEF HasBindings
  <2>2. CASE Abort(t) \/ DetectDeadlock(t)
    BY <1>3, <2>2, EndsKeep DEF Ends
  <2>3. CASE Advance(t) /\ ~Blocked(t)
    <3>1. t \in Open
      BY <2>3, AtStatement, EndsKeep
         DEF Advance, Ask, DeleteBindings, ChangeRow, RemoveRow, RowGone, Prune,
             InsertRow, NameTaken, Upsert, Bind, Commit, ReadPage, ReadRow, At
    <3>2. ~HasBindings(t) /\ Statement(t) \in StatementsOf(Op(t)) /\ Op(t) \in Ops
          /\ tx[t].todo # <<>>
      BY <3>1, OpenTransaction DEF LocksKeepOut
    <3>3. Statement(t) \notin {"unbind", "prune"}
      <4>1. Statement(t) \in {"unbind", "prune"} => Op(t) # "list" /\ ~At(t, "commit")
        BY <3>1, <3>2, AtStatement DEF StatementsOf
      <4> QED
        BY <2>3, <3>1, <3>2, <4>1 DEF Blocked, Table, Statement
    <3>4. ~DeleteBindings(t) /\ ~RemoveRow(t) /\ ~Prune(t) /\ ~Bind(t) /\ ~Commit(t)
      BY <3>2, <3>3, AtStatement
         DEF DeleteBindings, RemoveRow, Prune, Bind, Commit, HasBindings
    <3>5. CASE Ask(t)
      BY <1>3, <3>2, <3>3, <3>5, AskKeeps DEF HasBindings
    <3>6. CASE ChangeRow(t)
      BY <1>3, <3>6, ChangeRowKeeps DEF HasBindings
    <3>7. CASE InsertRow(t)
      BY <1>3, <3>7, InsertRowKeeps DEF HasBindings
    <3>8. CASE Upsert(t)
      BY <1>3, <3>8, UpsertKeeps
    <3>9. CASE ReadPage(t)
      BY <1>3, <3>9, ReadPageKeeps DEF HasBindings
    <3>10. CASE ReadRow(t)
      BY <1>3, <3>10, ReadRowKeeps DEF HasBindings
    <3>11. CASE RowGone(t) \/ NameTaken(t)
      BY <1>3, <3>11, EndsKeep DEF Ends
    <3> QED
      BY <2>3, <3>4, <3>5, <3>6, <3>7, <3>8, <3>9, <3>10, <3>11 DEF Advance
  <2> QED
    BY <2>1, <2>2, <2>3
<1> QED
  BY <1>2, <1>3

\* A transaction never gives an account a second binding where none has two.
LEMMA NoNewDuplicates ==
  ASSUME TCore, NEW t \in Txs, TStep(t), ~Duplicates
  PROVE  ~Duplicates'
<1>1. CASE bindings' \subseteq bindings
  BY <1>1 DEF Duplicates
<1>2. CASE Commit(t)
  <2>1. bindings' = (bindings \ tx[t].gone) \cup Bound(t)
    BY <1>2 DEF Commit
  <2>2. CASE Op(t) = "delete"
    BY <2>1, <2>2 DEF Bound, Duplicates
  <2>3. CASE Op(t) # "delete"
    <3>1. \A b \in bindings \ tx[t].gone : b.account_id # tx[t].id
      BY <1>2, <2>3, Committing DEF Of
    <3>2. \A b \in Bound(t) : b.account_id = tx[t].id
      BY <1>2, Committing
    <3>3. \A b, c \in Bound(t) : b = c
      BY <2>3 DEF Bound
    <3> QED
      BY <2>1, <3>1, <3>2, <3>3 DEF Duplicates
  <2> QED
    BY <2>2, <2>3
<1> QED
  BY <1>1, <1>2, StepFrame

LEMMA TransactionStep ==
  ASSUME MInv, NEW t \in Txs, UNCHANGED bvars,
         \/ Begin(t) \/ Abort(t) \/ DetectDeadlock(t)
         \/ Advance(t) /\ ~Blocked(t)
  PROVE  MInv'
<1>1. TStep(t)
  BY DEF TStep
<1>2. TInv'
  BY <1>1, CoreStep, EmptyStep DEF MInv, TInv
<1>3. BootOK'
  BY <1>1, StepFrame DEF MInv, TInv, BootOK, bvars, Running
<1>4. IndexOK'
  BY <1>1, NoNewDuplicates DEF MInv, TInv, IndexOK, bvars, Running
<1>5. LocksKeepOut'
  BY KeptOut DEF MInv, TInv, bvars
<1> QED
  BY <1>2, <1>3, <1>4, <1>5 DEF MInv
-----------------------------------------------------------------------------
(* The statements of a start *)

\* A step that leaves the rows, the bindings and the transactions alone.
LEMMA SchemaStep ==
  ASSUME TCore, UNCHANGED <<stored, tx>>, fk' \in BOOLEAN
  PROVE  TCore' /\ Open' = Open /\ Duplicates' = Duplicates
         /\ \A t : HasBindings(t)' <=> HasBindings(t)
  BY SMTT(30)
     DEF stored, TCore, TTypeOK, TablesOK, Present, Open, OwnOK,
     Scripted, IdOK, LockOK, OwnBindings, Cleared, Pruning, Of, Holding,
     Statement, Op, RowsApart, NamesApart, Taken, MadeAtTheEnd, Ended,
     Duplicates, HasBindings

LEMMA EmptyUnchanged ==
  ASSUME TInv, UNCHANGED <<stored, tx>>, fk' \in BOOLEAN, fk' => fk
  PROVE  TInv'
<1>1. DeletesEmpty'
  BY DEF TInv, DeletesEmpty, stored, Open, Op, Statement, Of
<1> QED
  BY <1>1, SchemaStep DEF TInv

LEMMA StartKeeps ==
  ASSUME MInv, Start
  PROVE  MInv'
<1>1. boot' = "init" /\ rest' = Migration /\ UNCHANGED <<tvars, locks, oneRole>>
  BY DEF Start
<1>2. fk' = fk /\ UNCHANGED <<stored, tx>> /\ fk \in BOOLEAN
  BY <1>1 DEF tvars, stored, MInv, TInv, TCore, TTypeOK
<1>3. Migration \in Left /\ Head(Migration) = "dropForeignKey"
  BY DEF Migration, Left
<1>4. TInv' /\ Open' = Open /\ Duplicates' = Duplicates
      /\ \A t : HasBindings(t)' <=> HasBindings(t)
  BY <1>2, EmptyUnchanged, SchemaStep DEF MInv, TInv
<1>5. BootOK'
  BY <1>1, <1>3 DEF BootOK, Running
<1>6. IndexOK'
  BY <1>1, <1>3, <1>4 DEF MInv, IndexOK, Running
<1>7. LocksKeepOut'
  BY <1>1, <1>4 DEF MInv, LocksKeepOut
<1> QED
  BY <1>4, <1>5, <1>6, <1>7 DEF MInv

LEMMA StopKeeps ==
  ASSUME MInv, Stop
  PROVE  MInv'
<1>1. boot' = "down" /\ locks' = {} /\ UNCHANGED <<tvars, oneRole>>
  BY DEF Stop
<1>2. fk' = fk /\ UNCHANGED <<stored, tx>> /\ fk \in BOOLEAN
  BY <1>1 DEF tvars, stored, MInv, TInv, TCore, TTypeOK
<1>3. TInv' /\ Duplicates' = Duplicates
  BY <1>2, EmptyUnchanged, SchemaStep DEF MInv, TInv
<1> QED
  BY <1>1, <1>3 DEF MInv, BootOK, Running, IndexOK, LocksKeepOut

\* A table is locked once no transaction has it in use.
LEMMA LockKeeps ==
  ASSUME MInv, Lock
  PROVE  MInv'
<1>1. /\ boot = "init" /\ locks' = locks \cup Wanted
      /\ \A t \in Txs : Touched(t) \cap Wanted = {}
      /\ UNCHANGED <<tvars, boot, rest, oneRole>>
  BY DEF Lock
<1>2. fk' = fk /\ UNCHANGED <<stored, tx>> /\ fk \in BOOLEAN
  BY <1>1 DEF tvars, stored, MInv, TInv, TCore, TTypeOK
<1>3. TInv' /\ Open' = Open /\ Duplicates' = Duplicates
      /\ \A t : HasBindings(t)' <=> HasBindings(t)
  BY <1>2, EmptyUnchanged, SchemaStep DEF MInv, TInv
<1>4. BootOK' /\ IndexOK'
  BY <1>1, <1>2, <1>3 DEF MInv, BootOK, IndexOK, Running
<1>5. LocksKeepOut'
  <2>1. "bindings" \in Wanted => \A t \in Open : ~HasBindings(t)
    BY <1>1, BindingsTouched DEF Open, MInv, TInv
  <2> QED
    BY <1>1, <1>3, <2>1 DEF MInv, LocksKeepOut
<1> QED
  BY <1>3, <1>4, <1>5 DEF MInv

\* A statement that is done gives its locks back.
LEMMA DoneKeeps ==
  ASSUME MInv, boot = "init", boot' = "init", locks' = {}, rest' \in Left,
         UNCHANGED <<stored, tx>>, TInv',
         Running("seed")' => fk',
         oneRole' \/ Running("oneRoleIndex")' => ~Duplicates
  PROVE  MInv'
<1>1. Duplicates' = Duplicates
  BY DEF stored, Duplicates
<1>2. BootOK' /\ IndexOK' /\ LocksKeepOut'
  BY <1>1 DEF BootOK, IndexOK, LocksKeepOut
<1> QED
  BY <1>2 DEF MInv

LEMMA DropForeignKeyKeeps ==
  ASSUME MInv, DropForeignKey
  PROVE  MInv'
<1>1. /\ boot = "init" /\ boot' = boot /\ Head(rest) = "dropForeignKey"
      /\ rest' = Tail(rest) /\ locks' = {} /\ fk' = FALSE
      /\ UNCHANGED <<stored, tx, oneRole>>
  BY DEF DropForeignKey, Running, Done
<1>2. rest' \in Left /\ Head(rest') \in {"alterAccounts", "alterBindings"}
  BY <1>1, StartGoesOn DEF MInv, BootOK, Follows
<1>3. TInv'
  BY <1>1, EmptyUnchanged DEF MInv
<1>4. ~Running("seed")' /\ ~Running("oneRoleIndex")'
  BY <1>2 DEF Running
<1>5. oneRole => ~Duplicates
  BY DEF MInv, IndexOK
<1> QED
  BY <1>1, <1>2, <1>3, <1>4, <1>5, DoneKeeps

LEMMA AlterColumnsKeeps ==
  ASSUME MInv, AlterColumns
  PROVE  MInv'
<1>1. /\ boot = "init" /\ boot' = boot
      /\ Head(rest) \in {"alterAccounts", "alterBindings"}
      /\ rest' = Tail(rest) /\ locks' = {} /\ UNCHANGED <<tvars, oneRole>>
  BY DEF AlterColumns, Running, Done
<1>2. rest' \in Left /\ Head(rest') \in {"dropForeignKey", "checkOneRole"}
  BY <1>1, StartGoesOn DEF MInv, BootOK, Follows
<1>3. fk' = fk /\ UNCHANGED <<stored, tx>> /\ fk \in BOOLEAN
  BY <1>1 DEF tvars, stored, MInv, TInv, TCore, TTypeOK
<1>4. TInv'
  BY <1>3, EmptyUnchanged DEF MInv
<1>5. ~Running("seed")' /\ ~Running("oneRoleIndex")'
  BY <1>2 DEF Running
<1>6. oneRole => ~Duplicates
  BY DEF MInv, IndexOK
<1> QED
  BY <1>1, <1>2, <1>3, <1>4, <1>5, <1>6, DoneKeeps

\* The index is created after a look at what is committed, or not at all.
LEMMA CheckOneRoleKeeps ==
  ASSUME MInv, CheckOneRole
  PROVE  MInv'
<1>1. /\ boot = "init" /\ boot' = boot /\ Head(rest) = "checkOneRole"
      /\ rest' = IF oneRole \/ Duplicates THEN Tail(Tail(rest)) ELSE Tail(rest)
      /\ locks' = {} /\ UNCHANGED <<tvars, oneRole>>
  BY DEF CheckOneRole, Running, Done
<1>2. Tail(rest) \in Left /\ Head(Tail(rest)) = "oneRoleIndex"
  BY <1>1, StartGoesOn DEF MInv, BootOK, Follows
<1>3. Tail(Tail(rest)) \in Left /\ Head(Tail(Tail(rest))) = "addForeignKey"
  BY <1>2, StartGoesOn DEF Follows
<1>4. fk' = fk /\ UNCHANGED <<stored, tx>> /\ fk \in BOOLEAN
  BY <1>1 DEF tvars, stored, MInv, TInv, TCore, TTypeOK
<1>5. TInv'
  BY <1>4, EmptyUnchanged DEF MInv
<1>6. ~Running("seed")'
  BY <1>1, <1>2, <1>3 DEF Running
<1>7. oneRole' \/ Running("oneRoleIndex")' => ~Duplicates
  BY <1>1, <1>2, <1>3 DEF Running, MInv, IndexOK
<1> QED
  BY <1>1, <1>2, <1>3, <1>4, <1>5, <1>6, <1>7, DoneKeeps

LEMMA OneRoleIndexKeeps ==
  ASSUME MInv, OneRoleIndex
  PROVE  MInv'
<1>1. /\ boot = "init" /\ boot' = boot /\ Head(rest) = "oneRoleIndex"
      /\ rest' = Tail(rest) /\ locks' = {} /\ UNCHANGED tvars
  BY DEF OneRoleIndex, Running, Done
<1>2. rest' \in Left /\ Head(rest') = "addForeignKey"
  BY <1>1, StartGoesOn DEF MInv, BootOK, Follows
<1>3. fk' = fk /\ UNCHANGED <<stored, tx>> /\ fk \in BOOLEAN
  BY <1>1 DEF tvars, stored, MInv, TInv, TCore, TTypeOK
<1>4. TInv'
  BY <1>3, EmptyUnchanged DEF MInv
<1>5. ~Running("seed")'
  BY <1>2 DEF Running
<1>6. ~Duplicates
  BY <1>1 DEF MInv, IndexOK, Running
<1> QED
  BY <1>1, <1>2, <1>3, <1>4, <1>5, <1>6, DoneKeeps

\* No deletion is at its end when the foreign key is added: it would have the
\* bindings in use, and the statement has locked them.
LEMMA AddForeignKeyKeeps ==
  ASSUME MInv, AddForeignKey
  PROVE  MInv'
<1>1. /\ boot = "init" /\ boot' = boot /\ Head(rest) = "addForeignKey"
      /\ rest' = Tail(rest) /\ locks' = {} /\ fk' = TRUE /\ Wanted = {}
      /\ UNCHANGED <<stored, tx, oneRole>>
  BY DEF AddForeignKey, Running, Done
<1>2. rest' \in Left /\ Head(rest') = "seed"
  BY <1>1, StartGoesOn DEF MInv, BootOK, Follows
<1>3. TInv'
  <2>1. CASE fk
    BY <1>1, <2>1, EmptyUnchanged DEF MInv
  <2>2. CASE ~fk
    <3>1. Needs = {"bindings", "accounts"}
      BY <1>1, <2>2 DEF Needs, Running
    <3>2. "bindings" \in locks
      BY <1>1, <3>1 DEF Wanted
    <3>3. \A t \in Open : Statement(t) # "commit"
      BY <3>2 DEF MInv, LocksKeepOut, HasBindings
    <3>4. TCore' /\ Open' = Open
      BY <1>1, SchemaStep DEF MInv, TInv
    <3>5. DeletesEmpty'
      BY <1>1, <3>3, <3>4 DEF DeletesEmpty, Statement
    <3> QED
      BY <3>4, <3>5 DEF TInv
  <2> QED
    BY <2>1, <2>2
<1>4. ~Running("oneRoleIndex")'
  BY <1>2 DEF Running
<1>5. oneRole => ~Duplicates
  BY DEF MInv, IndexOK
<1> QED
  BY <1>1, <1>2, <1>3, <1>4, <1>5, DoneKeeps

\* The seed is inserted as the directory restores it, or was there.
LEMMA InsertSeedKeeps ==
  ASSUME MInv, InsertSeed
  PROVE  MInv' /\ [Directory!Next]_(Directory!dvars)
<1> DEFINE row == [account |-> SeedName, is_super_admin |-> TRUE, by |-> NoTx]
<1>1. /\ boot = "init" /\ Head(rest) = "seed" /\ rest' = <<>> /\ locks' = {}
      /\ boot' = "serving" /\ UNCHANGED <<bindings, issued, fk, tx, oneRole>>
      /\ IF Seed \in Present THEN UNCHANGED rows
         ELSE /\ ~NameHeld(NoTx, SeedName) /\ ~Taken(SeedName, Seed)
              /\ rows' = [rows EXCEPT ![Seed] = row]
  BY DEF InsertSeed, Running, Done
<1>2. row \in Row /\ row.account = SeedName /\ row.is_super_admin = TRUE
  BY MigrationAssumption DEF Row
<1> HIDE DEF row
<1>3. fk \in BOOLEAN /\ fk
  BY <1>1 DEF MInv, BootOK, Running, TInv, TCore, TTypeOK
<1>4. TInv' /\ [Directory!Next]_(Directory!dvars)
  <2>1. CASE Seed \in Present
    <3>1. UNCHANGED stored
      BY <1>1, <2>1 DEF stored
    <3> QED
      BY <1>1, <1>3, <3>1, EmptyUnchanged, NothingShown DEF MInv
  <2>2. CASE Seed \notin Present
    <3>1. rows' = [rows EXCEPT ![Seed] = row] /\ ~Taken(row.account, Seed)
          /\ ~NameHeld(NoTx, row.account)
      BY <1>1, <1>2, <2>2
    <3>2. \A u \in Open : tx[u].new # NoRow => tx[u].new.account # row.account
      <4>1. NoTx \notin Open
        BY StorageAssumption DEF Open
      <4> QED
        BY <3>1, <4>1 DEF NameHeld
    <3>3. \A u \in Open : tx'[u] = tx[u]
      BY <1>1
    <3>4. /\ TablesOK' /\ rows' \in [Ids -> Row \cup {NoRow}]
          /\ \A u \in Open : OwnOK(u)'
          /\ \A u \in Open : tx[u].new # NoRow => ~Taken(tx[u].new.account, NoId)'
      BY <1>1, <1>2, <3>1, <3>2, <3>3, SeedRow DEF MInv, TInv
    <3>5. Open' = Open
      BY <1>1 DEF Open
    <3>6. TTypeOK'
      BY <1>1, <3>4 DEF MInv, TInv, TCore, TTypeOK
    <3>7. RowsApart' /\ MadeAtTheEnd' /\ DeletesEmpty'
      BY <1>1, <3>5 DEF MInv, TInv, TCore, RowsApart, MadeAtTheEnd, Ended,
                        DeletesEmpty, Op, Statement, Of
    <3>8. NamesApart'
      BY <1>1, <3>4, <3>5 DEF MInv, TInv, TCore, NamesApart
    <3>9. \E name \in Names : Directory!Restore(name)
      BY <1>1, <1>2, <3>1, SeedRowRestores DEF MInv, TInv, TCore
    <3> QED
      BY <3>4, <3>5, <3>6, <3>7, <3>8, <3>9 DEF TInv, TCore, Directory!Next
  <2> QED
    BY <2>1, <2>2
<1>5. BootOK' /\ LocksKeepOut'
  BY <1>1, <1>3 DEF BootOK, LocksKeepOut, Running
<1>6. IndexOK'
  BY <1>1 DEF MInv, IndexOK, Running, Duplicates
<1> QED
  BY <1>4, <1>5, <1>6 DEF MInv

-----------------------------------------------------------------------------
(* What holds of every start *)

LEMMA MigrationInit ==
  ASSUME MInit
  PROVE  MInv
<1>1. bindings \subseteq InitBindings
  BY DEF MInit
<1>2. TInv
  BY <1>1, CoreInit DEF MInit
<1>3. BootOK /\ IndexOK /\ LocksKeepOut
  BY DEF MInit, BootOK, IndexOK, Running, LocksKeepOut
<1> QED
  BY <1>2, <1>3 DEF MInv

LEMMA MigrationStep ==
  ASSUME MInv, [MNext]_mvars
  PROVE  MInv'
<1>1. CASE Start
  BY <1>1, StartKeeps
<1>2. CASE Stop
  BY <1>2, StopKeeps
<1>3. CASE Lock
  BY <1>3, LockKeeps
<1>4. CASE DropForeignKey
  BY <1>4, DropForeignKeyKeeps
<1>5. CASE AlterColumns
  BY <1>5, AlterColumnsKeeps
<1>6. CASE CheckOneRole
  BY <1>6, CheckOneRoleKeeps
<1>7. CASE OneRoleIndex
  BY <1>7, OneRoleIndexKeeps
<1>8. CASE AddForeignKey
  BY <1>8, AddForeignKeyKeeps
<1>9. CASE InsertSeed
  BY <1>9, InsertSeedKeeps
<1>10. ASSUME NEW t \in Txs, UNCHANGED bvars,
              \/ Begin(t) \/ Abort(t) \/ DetectDeadlock(t)
              \/ Advance(t) /\ ~Blocked(t)
       PROVE  MInv'
  BY <1>10, TransactionStep
<1>11. CASE UNCHANGED mvars
  <2>1. fk' = fk /\ UNCHANGED <<stored, tx>> /\ fk \in BOOLEAN
    BY <1>11 DEF mvars, tvars, stored, MInv, TInv, TCore, TTypeOK
  <2>2. TInv' /\ Open' = Open /\ Duplicates' = Duplicates
        /\ \A t : HasBindings(t)' <=> HasBindings(t)
    BY <2>1, EmptyUnchanged, SchemaStep DEF MInv, TInv
  <2> QED
    BY <1>11, <2>1, <2>2
       DEF mvars, bvars, MInv, BootOK, IndexOK, LocksKeepOut, Running
<1> QED
  BY <1>1, <1>2, <1>3, <1>4, <1>5, <1>6, <1>7, <1>8, <1>9, <1>10, <1>11
     DEF MNext, Boot, BreakEmbrace, MAdvance, MDetectDeadlock

\* The invariant of a start among transactions.
THEOREM MigrationKeepsItsPlace == MSpec => []MInv
<1> QED
  BY MigrationInit, MigrationStep, PTL DEF MSpec

\* The plugin serves only with the foreign key in force, however many starts
\* were interrupted, and wherever.
THEOREM ServesGuarded == MSpec => []ServingIsGuarded
<1>1. MInv => ServingIsGuarded
  BY DEF MInv, BootOK, ServingIsGuarded
<1> QED
  BY <1>1, MigrationKeepsItsPlace, PTL

\* No commit meets the one-role index, which is created after a check made
\* before the table is locked: a transaction that ends in between gives no
\* account a second role.
THEOREM IndexInNobodysWay == MSpec => []IndexHolds
<1>1. MInv => IndexHolds
  BY DEF MInv, IndexOK, IndexHolds
<1> QED
  BY <1>1, MigrationKeepsItsPlace, PTL

LEMMA MigrationShows ==
  ASSUME MInv, fk, MNext
  PROVE  [Directory!Next]_(Directory!dvars)
<1>1. CASE InsertSeed
  BY <1>1, InsertSeedKeeps
<1>2. CASE \/ Start \/ Stop \/ Lock \/ DropForeignKey \/ AlterColumns
           \/ CheckOneRole \/ OneRoleIndex \/ AddForeignKey
  <2>1. UNCHANGED stored
    BY <1>2 DEF Start, Stop, Lock, DropForeignKey, AlterColumns, CheckOneRole,
                OneRoleIndex, AddForeignKey, tvars, stored
  <2> QED
    BY <2>1, NothingShown
<1>3. ASSUME NEW t \in Txs, TStep(t)
      PROVE  [Directory!Next]_(Directory!dvars)
  BY <1>3, DirectoryStep DEF MInv
<1> QED
  BY <1>1, <1>2, <1>3 DEF MNext, Boot, BreakEmbrace, MAdvance,
     MDetectDeadlock, TStep

\* Every step taken while the foreign key is in force, a start's too, is one of
\* the directory of accounts: no binding is left without its account.
THEOREM GuardedStepsAreTheDirectorys == MSpec => DirectoryWhileGuarded
<1>1. MInv /\ [MNext]_mvars =>
        [fk => [Directory!Next]_(Directory!dvars)]_mvars
  BY MigrationShows
<1> QED
  BY <1>1, MigrationKeepsItsPlace, PTL DEF MSpec, DirectoryWhileGuarded
=============================================================================
