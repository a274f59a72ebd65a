------------------------- MODULE AccountStorageProofs -------------------------
(***************************************************************************)
(* The transactions of AccountStorage implement AccountDirectory, for any  *)
(* number of transactions, any jobs and any tables.                        *)
(*                                                                         *)
(* The inductive invariant TInv says of each open transaction where it is  *)
(* in its script, which row it holds, and that what it has deleted is all  *)
(* its account has; of two of them, that they hold different rows and      *)
(* insert different names. Only DeletesEmpty needs the foreign key: the    *)
(* rest is kept while a start has dropped it.                              *)
(***************************************************************************)
EXTENDS AccountStorage, SequenceTheorems, TLAPS

\* What can be left of a script.
Suffixes(op) ==
  CASE op = "create" -> {<<"insert", "unbind", "bind", "commit">>,
                         <<"unbind", "bind", "commit">>,
                         <<"bind", "commit">>, <<"commit">>}
    [] op = "update" -> {<<"change", "unbind", "bind", "commit">>,
                         <<"unbind", "bind", "commit">>,
                         <<"bind", "commit">>, <<"commit">>}
    [] op = "delete" -> {<<"unbind", "remove", "cascade", "commit">>,
                         <<"remove", "cascade", "commit">>,
                         <<"cascade", "commit">>, <<"commit">>}
    [] op = "keepOnly" -> {<<"prune">>}
    [] op = "restore" -> {<<"upsert">>}
    [] op = "list" -> {<<"page", "row">>, <<"row">>}

Ops == {"create", "update", "delete", "keepOnly", "restore", "list"}

\* The statement that comes after another.
After(op, statement) ==
  CASE statement \in {"insert", "change"} -> "unbind"
    [] statement = "unbind" -> IF op = "delete" THEN "remove" ELSE "bind"
    [] statement = "bind" -> "commit"
    [] statement = "remove" -> "cascade"
    [] statement = "cascade" -> "commit"
    [] statement = "page" -> "row"

StatementsOf(op) ==
  CASE op = "create" -> {"insert", "unbind", "bind", "commit"}
    [] op = "update" -> {"change", "unbind", "bind", "commit"}
    [] op = "delete" -> {"unbind", "remove", "cascade", "commit"}
    [] op = "keepOnly" -> {"prune"}
    [] op = "restore" -> {"upsert"}
    [] op = "list" -> {"page", "row"}

Last == {"commit", "prune", "upsert", "row"}

\* A transaction that is not at its end has its next statement before it.
LEMMA ScriptGoesOn ==
  ASSUME NEW op \in Ops, NEW x \in Suffixes(op)
  PROVE  /\ x \in Seq(Statements) /\ x # <<>> /\ Head(x) \in StatementsOf(op)
         /\ Head(x) \notin Last =>
              Tail(x) \in Suffixes(op) /\ Head(Tail(x)) = After(op, Head(x))
  <1> DEFINE Good(s) ==
        /\ s \in Seq(Statements) /\ s # <<>> /\ Head(s) \in StatementsOf(op)
        /\ Head(s) \notin Last =>
             Tail(s) \in Suffixes(op) /\ Head(Tail(s)) = After(op, Head(s))
  <1>1. CASE op = "create"
    <2>1. CASE x = <<"insert", "unbind", "bind", "commit">>
      BY <1>1, <2>1 DEF Suffixes, After, StatementsOf, Last, Statements
    <2>2. CASE x = <<"unbind", "bind", "commit">>
      BY <1>1, <2>2 DEF Suffixes, After, StatementsOf, Last, Statements
    <2>3. CASE x = <<"bind", "commit">>
      BY <1>1, <2>3 DEF Suffixes, After, StatementsOf, Last, Statements
    <2>4. CASE x = <<"commit">>
      BY <1>1, <2>4 DEF StatementsOf, Last, Statements
    <2> QED  BY <1>1, <2>1, <2>2, <2>3, <2>4 DEF Suffixes
  <1>2. CASE op = "update"
    <2>1. CASE x = <<"change", "unbind", "bind", "commit">>
      BY <1>2, <2>1 DEF Suffixes, After, StatementsOf, Last, Statements
    <2>2. CASE x = <<"unbind", "bind", "commit">>
      BY <1>2, <2>2 DEF Suffixes, After, StatementsOf, Last, Statements
    <2>3. CASE x = <<"bind", "commit">>
      BY <1>2, <2>3 DEF Suffixes, After, StatementsOf, Last, Statements
    <2>4. CASE x = <<"commit">>
      BY <1>2, <2>4 DEF StatementsOf, Last, Statements
    <2> QED  BY <1>2, <2>1, <2>2, <2>3, <2>4 DEF Suffixes
  <1>3. CASE op = "delete"
    <2>1. CASE x = <<"unbind", "remove", "cascade", "commit">>
      BY <1>3, <2>1 DEF Suffixes, After, StatementsOf, Last, Statements
    <2>2. CASE x = <<"remove", "cascade", "commit">>
      BY <1>3, <2>2 DEF Suffixes, After, StatementsOf, Last, Statements
    <2>3. CASE x = <<"cascade", "commit">>
      BY <1>3, <2>3 DEF Suffixes, After, StatementsOf, Last, Statements
    <2>4. CASE x = <<"commit">>
      BY <1>3, <2>4 DEF StatementsOf, Last, Statements
    <2> QED  BY <1>3, <2>1, <2>2, <2>3, <2>4 DEF Suffixes
  <1>4. CASE op = "keepOnly"
    <2>1. x = <<"prune">>  BY <1>4 DEF Suffixes
    <2> QED  BY <1>4, <2>1 DEF StatementsOf, Last, Statements
  <1>5. CASE op = "restore"
    <2>1. x = <<"upsert">>  BY <1>5 DEF Suffixes
    <2> QED  BY <1>5, <2>1 DEF StatementsOf, Last, Statements
  <1>6. CASE op = "list"
    <2>1. CASE x = <<"page", "row">>
      BY <1>6, <2>1 DEF Suffixes, After, StatementsOf, Last, Statements
    <2>2. CASE x = <<"row">>
      BY <1>6, <2>2 DEF StatementsOf, Last, Statements
    <2> QED  BY <1>6, <2>1, <2>2 DEF Suffixes
  <1> QED  BY <1>1, <1>2, <1>3, <1>4, <1>5, <1>6 DEF Ops

LEMMA ScriptStarts ==
  ASSUME NEW op \in Ops
  PROVE  /\ Script(op) \in Suffixes(op) /\ Script(op) \in Seq(Statements)
         /\ Head(Script(op)) =
              CASE op = "create" -> "insert" [] op = "update" -> "change"
                [] op = "delete" -> "unbind" [] op = "keepOnly" -> "prune"
                [] op = "restore" -> "upsert" [] op = "list" -> "page"
  <1>1. CASE op = "create"
    BY <1>1 DEF Script, Suffixes, Statements
  <1>2. CASE op = "update"
    BY <1>2 DEF Script, Suffixes, Statements
  <1>3. CASE op = "delete"
    BY <1>3 DEF Script, Suffixes, Statements
  <1>4. CASE op = "keepOnly"
    BY <1>4 DEF Script, Suffixes, Statements
  <1>5. CASE op = "restore"
    BY <1>5 DEF Script, Suffixes, Statements
  <1>6. CASE op = "list"
    BY <1>6 DEF Script, Suffixes, Statements
  <1> QED  BY <1>1, <1>2, <1>3, <1>4, <1>5, <1>6 DEF Ops
-----------------------------------------------------------------------------
(* The inductive invariant *)

TTypeOK ==
  /\ rows \in [Ids -> Row \cup {NoRow}]
  /\ bindings \subseteq Binding
  /\ issued \subseteq Ids
  /\ fk \in BOOLEAN
  /\ tx \in [Txs -> Tx]

TablesOK ==
  /\ Seed \in issued /\ Present \subseteq issued
  /\ \A b \in bindings : b.account_id \in issued
  /\ \A i, j \in Present : rows[i].account = rows[j].account => i = j

Statement(t) == Head(tx[t].todo)

Scripted(t) ==
  /\ tx[t].job \in Job
  /\ tx[t].todo \in Suffixes(Op(t))

\* The id an account is changed under is in use, the one it is created under
\* is not.
IdOK(t) ==
  /\ Op(t) \in {"update", "keepOnly", "delete"} =>
       tx[t].id = tx[t].job.target /\ tx[t].id \in issued
  /\ Op(t) = "create" /\ Statement(t) # "insert" => tx[t].id \in Ids \ issued

\* The row is locked from the statement that writes it to the commit, and
\* what is locked is there.
Holding(t) ==
  \/ Op(t) \in {"create", "update"} /\ Statement(t) \in {"unbind", "bind", "commit"}
  \/ Op(t) = "delete" /\ Statement(t) \in {"cascade", "commit"}

LockOK(t) ==
  /\ tx[t].holds <=> Holding(t)
  /\ tx[t].new # NoRow <=> Op(t) = "create" /\ Statement(t) # "insert"
  /\ tx[t].new # NoRow =>
       tx[t].new = [account |-> tx[t].job.name, is_super_admin |-> FALSE, by |-> t]
  /\ tx[t].holds /\ Op(t) # "create" => tx[t].id \in Present

\* What it reads and deletes is its account's.
OwnBindings(t) ==
  /\ \A b \in tx[t].seen \cup tx[t].gone : b.account_id = tx[t].id
  /\ Statement(t) = "prune" => \A b \in tx[t].seen : b.role_id # tx[t].job.role
  /\ Statement(t) \in {"insert", "prune"} => tx[t].gone = {}

Of(i) == {b \in bindings : b.account_id = i}

\* What its account has is among what it has deleted: by the statement itself,
\* or once the statement is carried out.
Cleared(t) ==
  /\ Op(t) \in {"create", "update"} /\ Statement(t) \in {"bind", "commit"} =>
       Of(tx[t].id) \subseteq tx[t].gone
  /\ /\ tx[t].asked
     /\ \/ Op(t) \in {"create", "update"} /\ Statement(t) = "unbind"
        \/ Statement(t) = "cascade"
     => Of(tx[t].id) \subseteq tx[t].seen \cup tx[t].gone

\* A clean-up has seen all of the other roles there still are, or none.
Pruning(t) ==
  Statement(t) = "prune" /\ tx[t].asked =>
    \/ {b \in Of(tx[t].id) : b.role_id # tx[t].job.role} \subseteq tx[t].seen
    \/ tx[t].seen \cap bindings = {}

OwnOK(t) == /\ Scripted(t) /\ IdOK(t) /\ LockOK(t) /\ OwnBindings(t)
            /\ Cleared(t) /\ Pruning(t)

\* A row is locked by one transaction, a new name is nobody else's.
RowsApart ==
  \A t, u \in Open : t # u /\ tx[t].holds /\ tx[u].holds => tx[t].id # tx[u].id
NamesApart ==
  \A t \in Open : tx[t].new # NoRow =>
    /\ ~Taken(tx[t].new.account, NoId)
    /\ \A u \in Open \ {t} :
         tx[u].new # NoRow => tx[u].new.account # tx[t].new.account

\* A transaction makes its binding when it ends: nobody has seen one of a
\* transaction that is still open.
Ended(b) == b.by \in Txs => tx[b.by].pc = "ended"
MadeAtTheEnd ==
  /\ \A b \in bindings : Ended(b)
  /\ \A t \in Open : \A b \in tx[t].seen \cup tx[t].gone : Ended(b)

\* A deletion leaves no binding behind, by the cascade of the foreign key.
DeletesEmpty ==
  fk => \A t \in Open : Op(t) = "delete" /\ Statement(t) = "commit" =>
          Of(tx[t].id) \subseteq tx[t].gone

TCore ==
  /\ TTypeOK /\ TablesOK
  /\ \A t \in Open : OwnOK(t)
  /\ RowsApart /\ NamesApart /\ MadeAtTheEnd

TInv == TCore /\ DeletesEmpty
-----------------------------------------------------------------------------
(* An open transaction *)

LEMMA JobFields ==
  ASSUME NEW job \in Job
  PROVE  /\ job.op \in Ops /\ job # NoJob
         /\ job.op \in {"create", "restore"} => job.name \in Names
         /\ job.op \in {"create", "update", "keepOnly"} => job.role \in Roles
         /\ job.op \in {"update", "keepOnly", "delete"} => job.target \in Ids
<1>1. CASE job \in [op : {"create"}, name : Names, role : Roles]
  BY <1>1 DEF Ops, NoJob
<1>2. CASE job \in [op : {"update", "keepOnly"}, target : Ids, role : Roles]
  BY <1>2 DEF Ops, NoJob
<1>3. CASE job \in [op : {"delete"}, target : Ids]
  BY <1>3 DEF Ops, NoJob
<1>4. CASE job \in [op : {"restore"}, name : Names]
  BY <1>4 DEF Ops, NoJob
<1>5. CASE job \in [op : {"list"}]
  BY <1>5 DEF Ops, NoJob
<1> QED
  BY <1>1, <1>2, <1>3, <1>4, <1>5 DEF Job

\* The statement an operation is at, and the operations a statement is of.
LEMMA OpenTransaction ==
  ASSUME TCore, NEW t \in Open
  PROVE  /\ t \in Txs /\ tx[t] \in Tx /\ tx[t].pc = "open"
         /\ OwnOK(t) /\ tx[t].job \in Job /\ Op(t) \in Ops
         /\ tx[t].todo \in Suffixes(Op(t)) /\ tx[t].todo # <<>>
         /\ Statement(t) \in StatementsOf(Op(t))
         /\ Statement(t) \notin Last =>
              /\ Tail(tx[t].todo) \in Suffixes(Op(t))
              /\ Head(Tail(tx[t].todo)) = After(Op(t), Statement(t))
<1>1. t \in Txs /\ tx[t] \in Tx /\ tx[t].pc = "open" /\ OwnOK(t)
  BY DEF TCore, TTypeOK, Open
<1>2. tx[t].job \in Job /\ tx[t].todo \in Suffixes(Op(t))
  BY <1>1 DEF OwnOK, Scripted
<1>3. Op(t) \in Ops
  BY <1>2, JobFields DEF Op
<1> QED
  BY <1>1, <1>2, <1>3, ScriptGoesOn DEF Statement

LEMMA AtStatement ==
  ASSUME TCore, NEW t \in Txs, NEW s, At(t, s)
  PROVE  /\ t \in Open /\ Statement(t) = s /\ s \in StatementsOf(Op(t))
         /\ \A r : At(t, r) <=> r = s
BY OpenTransaction DEF At, Statement

\* What an open transaction knows of itself goes on holding when others only
\* take away bindings of its account and leave its row where it is.
LEMMA OthersKeepOwn ==
  ASSUME TCore, NEW u \in Open, tx'[u] = tx[u],
         issued \subseteq issued',
         tx[u].id \in issued' => tx[u].id \in issued \/ Op(u) # "create"
                                 \/ Statement(u) = "insert",
         tx[u].holds /\ Op(u) # "create" => tx[u].id \in Present',
         Of(tx[u].id)' \subseteq Of(tx[u].id)
  PROVE  OwnOK(u)'
<1>1. OwnOK(u) /\ u \in Txs /\ tx[u] \in Tx
  BY OpenTransaction
<1>2. Op(u)' = Op(u) /\ Statement(u)' = Statement(u)
  BY DEF Op, Statement
<1>3. Scripted(u)'
  BY <1>1, <1>2 DEF OwnOK, Scripted
<1>4. IdOK(u)'
  BY <1>1, <1>2 DEF OwnOK, IdOK
<1>5. LockOK(u)'
  BY <1>1, <1>2 DEF OwnOK, LockOK, Holding
<1>6. OwnBindings(u)'
  BY <1>1, <1>2 DEF OwnOK, OwnBindings
<1>7. Cleared(u)'
  BY <1>1, <1>2 DEF OwnOK, Cleared
<1>8. Pruning(u)'
  <2> SUFFICES ASSUME Statement(u) = "prune", tx[u].asked
               PROVE  \/ {b \in Of(tx[u].id)' : b.role_id # tx[u].job.role}
                           \subseteq tx[u].seen
                      \/ tx[u].seen \cap bindings' = {}
    BY <1>2 DEF Pruning
  <2>1. CASE {b \in Of(tx[u].id) : b.role_id # tx[u].job.role} \subseteq tx[u].seen
    BY <2>1
  <2>2. CASE tx[u].seen \cap bindings = {}
    <3>1. \A b \in tx[u].seen : b.account_id = tx[u].id
      BY <1>1 DEF OwnOK, OwnBindings
    <3> QED
      BY <2>2, <3>1 DEF Of
  <2> QED
    BY <1>1, <2>1, <2>2 DEF OwnOK, Pruning
<1> QED
  BY <1>3, <1>4, <1>5, <1>6, <1>7, <1>8 DEF OwnOK

\* A step of one transaction that changes no table: what it has to show.
LEMMA LocalStep ==
  ASSUME TCore, NEW t \in Txs, NEW r \in Tx,
         rows' = rows, bindings' = bindings, issued' = issued, fk' \in BOOLEAN,
         tx' = [tx EXCEPT ![t] = r],
         tx[t].pc # "ended", r.pc \in {"open", "ended"},
         r.pc = "open" => OwnOK(t)',
         r.pc = "open" /\ r.holds =>
           \A u \in Open \ {t} : tx[u].holds => tx[u].id # r.id,
         r.pc = "open" /\ r.new # NoRow =>
           /\ ~Taken(r.new.account, NoId)
           /\ \A u \in Open \ {t} :
                tx[u].new # NoRow => tx[u].new.account # r.new.account,
         r.pc = "open" => \A b \in r.seen \cup r.gone : Ended(b)
  PROVE  TCore'
<1> USE DEF TCore
<1>1. /\ tx'[t] = r /\ \A u \in Txs \ {t} : tx'[u] = tx[u]
  BY DEF TTypeOK
<1>2. Open' \ {t} = Open \ {t} /\ (t \in Open' <=> r.pc = "open")
  BY <1>1 DEF Open
<1>3. TTypeOK'
  BY DEF TTypeOK
<1>4. TablesOK' /\ Present' = Present
  BY DEF TablesOK, Present
<1>5. \A u \in Open' : OwnOK(u)'
  <2> SUFFICES ASSUME NEW u \in Open'  PROVE OwnOK(u)'
    OBVIOUS
  <2>1. CASE u = t
    BY <1>2, <2>1
  <2>2. CASE u # t
    <3>1. u \in Open /\ tx'[u] = tx[u]
      BY <1>1, <1>2, <2>2 DEF Open
    <3>2. Of(tx[u].id)' \subseteq Of(tx[u].id)
      BY <3>1 DEF Of
    <3>3. tx[u].holds /\ Op(u) # "create" => tx[u].id \in Present'
      BY <1>4, <3>1 DEF OwnOK, LockOK
    <3> QED
      BY <3>1, <3>2, <3>3, OthersKeepOwn
  <2> QED
    BY <2>1, <2>2
<1>6. RowsApart'
  BY <1>1, <1>2 DEF RowsApart, Open
<1>7. NamesApart'
  <2>1. \A name : Taken(name, NoId)' <=> Taken(name, NoId)
    BY <1>4 DEF Taken
  <2> SUFFICES ASSUME NEW u \in Open', tx'[u].new # NoRow
               PROVE  /\ ~Taken(tx'[u].new.account, NoId)
                      /\ \A v \in Open' \ {u} : tx'[v].new # NoRow =>
                           tx'[v].new.account # tx'[u].new.account
    BY <2>1 DEF NamesApart
  <2>2. CASE u = t
    BY <1>1, <1>2, <2>2 DEF Open
  <2>3. CASE u # t
    <3>1. u \in Open /\ tx'[u] = tx[u]
      BY <1>1, <1>2, <2>3 DEF Open
    <3>2. ~Taken(tx[u].new.account, NoId)
      BY <3>1 DEF NamesApart
    <3>3. \A v \in (Open' \ {u}) \ {t} : tx'[v].new # NoRow =>
            tx'[v].new.account # tx'[u].new.account
      BY <1>1, <1>2, <3>1 DEF NamesApart, Open
    <3>4. t \in Open' /\ tx'[t].new # NoRow =>
            tx'[t].new.account # tx'[u].new.account
      BY <1>1, <1>2, <2>3, <3>1 DEF Open
    <3> QED
      BY <3>1, <3>2, <3>3, <3>4
  <2> QED
    BY <2>2, <2>3
<1>8. MadeAtTheEnd'
  <2>1. \A b : Ended(b) => Ended(b)'
    BY <1>1 DEF Ended
  <2>2. \A u \in Open' : \A b \in tx'[u].seen \cup tx'[u].gone : Ended(b)
    BY <1>1, <1>2 DEF MadeAtTheEnd, Open
  <2> QED
    BY <2>1, <2>2 DEF MadeAtTheEnd
<1> QED
  BY <1>3, <1>4, <1>5, <1>6, <1>7, <1>8

LEMMA EndStep ==
  ASSUME TCore, NEW t \in Open, End(t),
         rows' = rows, bindings' = bindings, issued' = issued, fk' \in BOOLEAN
  PROVE  TCore'
<1> DEFINE r == [NoTransaction EXCEPT !.pc = "ended"]
<1>1. r \in Tx /\ r.pc = "ended"
  BY EmptySeq DEF Tx, NoTransaction
<1>2. t \in Txs /\ tx[t].pc = "open"
  BY DEF Open
<1>3. tx' = [tx EXCEPT ![t] = r]
  BY DEF End
<1> HIDE DEF r
<1> QED
  BY <1>1, <1>2, <1>3, LocalStep

-----------------------------------------------------------------------------
(* The steps that change no table *)

\* What a statement leaves behind for the next one.
LEMMA ProceedFields ==
  ASSUME TCore, NEW t \in Open, NEW after \in Tx, Proceed(t, after),
         after.pc = "open", after.job = tx[t].job,
         after.todo \in Suffixes(Op(t)), Head(after.todo) \notin Last
  PROVE  /\ tx' = [tx EXCEPT ![t] = tx'[t]] /\ tx'[t] \in Tx
         /\ tx'[t].pc = "open" /\ tx'[t].job = tx[t].job
         /\ tx'[t].id = after.id /\ tx'[t].holds = after.holds
         /\ tx'[t].new = after.new /\ tx'[t].gone = after.gone
         /\ tx'[t].asked = FALSE /\ tx'[t].seen = {}
         /\ Op(t)' = Op(t) /\ Scripted(t)' /\ Pruning(t)'
         /\ Statement(t)' = After(Op(t), Head(after.todo))
<1> DEFINE rest == Tail(after.todo)
           r == [after EXCEPT !.todo = rest, !.asked = FALSE, !.seen = {},
                              !.version = NoRow]
<1>1. Op(t) \in Ops /\ tx[t].job \in Job /\ t \in Txs /\ tx \in [Txs -> Tx]
  BY OpenTransaction DEF TCore, TTypeOK
<1>2. rest \in Suffixes(Op(t)) /\ Head(rest) = After(Op(t), Head(after.todo))
  BY <1>1, ScriptGoesOn
<1>3. rest \in Seq(Statements)
  BY <1>1, <1>2, ScriptGoesOn
<1>4. tx' = [tx EXCEPT ![t] = r]
  BY DEF Proceed
<1> HIDE DEF rest
<1>5. r \in Tx /\ r.todo = rest /\ r.pc = "open" /\ r.job = tx[t].job
      /\ r.id = after.id /\ r.holds = after.holds /\ r.new = after.new
      /\ r.gone = after.gone /\ r.asked = FALSE /\ r.seen = {}
  BY <1>3 DEF Tx
<1> HIDE DEF r
<1>6. tx'[t] = r
  BY <1>1, <1>4
<1>7. Op(t)' = Op(t) /\ Statement(t)' = Head(rest)
  BY <1>5, <1>6 DEF Op, Statement
<1>8. Scripted(t)'
  BY <1>1, <1>2, <1>5, <1>6, <1>7 DEF Scripted
<1>9. Pruning(t)'
  BY <1>5, <1>6 DEF Pruning
<1> QED
  BY <1>2, <1>4, <1>5, <1>6, <1>7, <1>8, <1>9

LEMMA BeginKeeps ==
  ASSUME TCore, NEW t \in Txs, Begin(t)
  PROVE  /\ TCore' /\ tx'[t].asked = FALSE
         /\ Statement(t)' \in {"insert", "change", "unbind", "prune", "upsert",
                               "page"}
<1>1. PICK job \in Jobs[t] :
        /\ job.op \in {"update", "keepOnly", "delete"} => job.target \in issued
        /\ tx' = [tx EXCEPT ![t] =
             [NoTransaction EXCEPT !.pc = "open", !.job = job,
                !.todo = Script(job.op),
                !.id = IF job.op \in {"update", "keepOnly", "delete"}
                       THEN job.target ELSE NoId]]
  BY DEF Begin
<1> DEFINE todo == Script(job.op)
           id == IF job.op \in {"update", "keepOnly", "delete"}
                 THEN job.target ELSE NoId
           r == [NoTransaction EXCEPT !.pc = "open", !.job = job,
                                      !.todo = todo, !.id = id]
<1>2. job \in Job
  BY StorageAssumption
<1>3. job.op \in Ops /\ id \in Ids \cup {NoId}
  BY <1>2, JobFields
<1>4. todo \in Suffixes(job.op) /\ todo \in Seq(Statements)
  BY <1>3, ScriptStarts
<1>5. Head(todo) \in {"insert", "change", "prune", "upsert", "page"}
      \/ (job.op = "delete" /\ Head(todo) = "unbind")
  BY <1>3, ScriptStarts DEF Ops
<1>6. job.op = "create" => Head(todo) = "insert"
  BY <1>3, ScriptStarts
<1>7. job.op \in {"update", "keepOnly", "delete"} =>
        id = job.target /\ id \in issued
  BY <1>1
<1>8. tx' = [tx EXCEPT ![t] = r]
  BY <1>1
<1> HIDE DEF todo, id
<1>9. /\ r \in Tx /\ r.pc = "open" /\ r.job = job /\ r.todo = todo /\ r.id = id
      /\ r.asked = FALSE /\ r.seen = {} /\ r.gone = {} /\ r.holds = FALSE
      /\ r.new = NoRow
  BY <1>2, <1>3, <1>4 DEF Tx, NoTransaction
<1> HIDE DEF r
<1>10. tx'[t] = r
  BY <1>8 DEF TCore, TTypeOK
<1>11. Op(t)' = job.op /\ Statement(t)' = Head(todo)
  BY <1>9, <1>10 DEF Op, Statement
<1>12. rows' = rows /\ bindings' = bindings /\ issued' = issued /\ fk' = fk
  BY DEF Begin, stored
<1>13. OwnOK(t)'
  <2>1. Scripted(t)'
    BY <1>2, <1>4, <1>9, <1>10, <1>11 DEF Scripted
  <2>2. IdOK(t)'
    BY <1>6, <1>7, <1>9, <1>10, <1>11, <1>12 DEF IdOK
  <2>3. LockOK(t)'
    BY <1>5, <1>6, <1>9, <1>10, <1>11 DEF LockOK, Holding
  <2>4. OwnBindings(t)' /\ Cleared(t)' /\ Pruning(t)'
    BY <1>5, <1>9, <1>10, <1>11 DEF OwnBindings, Cleared, Pruning
  <2> QED
    BY <2>1, <2>2, <2>3, <2>4 DEF OwnOK
<1>14. tx[t].pc # "ended" /\ fk' \in BOOLEAN
  BY <1>12 DEF Begin, TCore, TTypeOK
<1>15. TCore'
  BY <1>8, <1>9, <1>12, <1>13, <1>14, LocalStep
<1> QED
  BY <1>5, <1>9, <1>10, <1>11, <1>15

\* The snapshot of a statement has all there is of its account.
LEMMA AskKeeps ==
  ASSUME TCore, NEW t \in Txs, Ask(t)
  PROVE  TCore' /\ Statement(t)' = Statement(t) /\ Statement(t) # "commit"
<1> DEFINE seen == Matched(t)
           version == Version(tx[t].id)
           r == [tx[t] EXCEPT !.asked = TRUE, !.seen = seen, !.version = version]
<1>1. PICK s \in {"unbind", "cascade", "prune", "change", "remove"} : At(t, s)
  BY DEF Ask
<1>2. t \in Open /\ Statement(t) = s /\ (At(t, "prune") <=> s = "prune")
  BY <1>1, AtStatement
<1>3. tx[t] \in Tx /\ tx[t].pc = "open" /\ OwnOK(t) /\ tx \in [Txs -> Tx]
  BY <1>2, OpenTransaction DEF TCore, TTypeOK
<1>4. rows' = rows /\ bindings' = bindings /\ issued' = issued /\ fk' = fk
      /\ fk \in BOOLEAN /\ tx' = [tx EXCEPT ![t] = r]
  BY <1>3 DEF Ask, stored, TCore, TTypeOK
<1>5. seen \subseteq bindings /\ bindings \subseteq Binding
  BY DEF Matched, TCore, TTypeOK
<1>6. version \in Txs \cup {NoTx, NoRow}
  BY DEF Version, Present, TCore, TTypeOK, Row
<1>7. \A b \in seen : b.account_id = tx[t].id
  BY DEF Matched
<1>8. s = "prune" => seen = {b \in bindings \ tx[t].gone :
         b.account_id = tx[t].id /\ b.role_id # tx[t].job.role}
  BY <1>2 DEF Matched
<1>9. s # "prune" => Of(tx[t].id) \subseteq seen \cup tx[t].gone
  BY <1>2 DEF Matched, Of
<1> HIDE DEF seen, version
<1>10. /\ r \in Tx /\ r.pc = "open" /\ r.job = tx[t].job /\ r.todo = tx[t].todo
       /\ r.id = tx[t].id /\ r.holds = tx[t].holds /\ r.new = tx[t].new
       /\ r.gone = tx[t].gone /\ r.seen = seen
  BY <1>3, <1>5, <1>6 DEF Tx
<1> HIDE DEF r
<1>11. tx'[t] = r /\ Op(t)' = Op(t) /\ Statement(t)' = s /\ Of(tx[t].id)' = Of(tx[t].id)
  BY <1>2, <1>3, <1>4, <1>10 DEF Op, Statement, Of
<1>12. OwnOK(t)'
  <2>1. Scripted(t)' /\ IdOK(t)'
    BY <1>2, <1>3, <1>4, <1>10, <1>11 DEF OwnOK, Scripted, IdOK
  <2>2. LockOK(t)'
    BY <1>2, <1>3, <1>4, <1>10, <1>11 DEF OwnOK, LockOK, Holding, Present
  <2>3. OwnBindings(t)'
    BY <1>2, <1>3, <1>7, <1>8, <1>10, <1>11 DEF OwnOK, OwnBindings
  <2>4. Cleared(t)'
    BY <1>2, <1>3, <1>9, <1>10, <1>11 DEF OwnOK, Cleared
  <2>5. Pruning(t)'
    <3>1. s = "prune" => tx[t].gone = {}
      BY <1>2, <1>3 DEF OwnOK, OwnBindings
    <3> QED
      BY <1>8, <1>10, <1>11, <3>1 DEF Pruning, Of
  <2> QED
    BY <2>1, <2>2, <2>3, <2>4, <2>5 DEF OwnOK
<1>13. \A b \in r.seen \cup r.gone : Ended(b)
  BY <1>2, <1>5, <1>10 DEF TCore, MadeAtTheEnd
<1>14. r.holds => \A u \in Open \ {t} : tx[u].holds => tx[u].id # r.id
  BY <1>2, <1>10 DEF TCore, RowsApart
<1>15. r.new # NoRow => /\ ~Taken(r.new.account, NoId)
                        /\ \A u \in Open \ {t} : tx[u].new # NoRow =>
                             tx[u].new.account # r.new.account
  BY <1>2, <1>10 DEF TCore, NamesApart
<1>16. TCore'
  BY <1>3, <1>4, <1>10, <1>12, <1>13, <1>14, <1>15, LocalStep
<1> QED
  BY <1>2, <1>11, <1>16

\* What a deletion of bindings has seen is gone, or was by others.
LEMMA DeleteBindingsKeeps ==
  ASSUME TCore, NEW t \in Txs, DeleteBindings(t)
  PROVE  /\ TCore'
         /\ Statement(t) = "cascade" =>
              Statement(t)' = "commit" /\ Of(tx[t].id) \subseteq tx'[t].gone
                                       /\ tx'[t].id = tx[t].id
         /\ Statement(t) # "cascade" => Statement(t)' # "commit"
<1> DEFINE gone == tx[t].gone \cup (tx[t].seen \cap bindings)
           after == [tx[t] EXCEPT !.gone = gone]
<1>1. PICK s \in {"unbind", "cascade"} : At(t, s)
  BY DEF DeleteBindings
<1>2. t \in Open /\ Statement(t) = s /\ s \in StatementsOf(Op(t))
  BY <1>1, AtStatement
<1>3. tx[t] \in Tx /\ tx[t].pc = "open" /\ OwnOK(t) /\ Op(t) \in Ops
      /\ tx[t].todo \in Suffixes(Op(t))
  BY <1>2, OpenTransaction
<1>4. rows' = rows /\ bindings' = bindings /\ issued' = issued /\ fk' = fk
      /\ fk \in BOOLEAN /\ Proceed(t, after) /\ tx[t].asked
  BY DEF DeleteBindings, stored, TCore, TTypeOK
<1>5. gone \subseteq Binding
  BY <1>3 DEF Tx
<1>6. \A b \in gone : b.account_id = tx[t].id /\ Ended(b)
  BY <1>2, <1>3 DEF OwnOK, OwnBindings, TCore, MadeAtTheEnd
<1>7. Op(t) # "delete" \/ s = "cascade" => Of(tx[t].id) \subseteq gone
  <2>1. Op(t) # "delete" => Op(t) \in {"create", "update"}
    BY <1>2, <1>3 DEF StatementsOf, Ops
  <2>2. Op(t) # "delete" \/ s = "cascade" =>
          Of(tx[t].id) \subseteq tx[t].seen \cup tx[t].gone
    BY <1>2, <1>3, <1>4, <2>1 DEF OwnOK, Cleared
  <2> QED
    BY <2>2 DEF Of
<1> HIDE DEF gone
<1>8. /\ after \in Tx /\ after.pc = "open" /\ after.job = tx[t].job
      /\ after.todo = tx[t].todo /\ after.id = tx[t].id
      /\ after.holds = tx[t].holds /\ after.new = tx[t].new /\ after.gone = gone
  BY <1>3, <1>5 DEF Tx
<1> HIDE DEF after
<1>9. s \notin Last /\ Head(after.todo) = s
  BY <1>2, <1>8 DEF Last, Statement
<1>0. /\ t \in Open /\ after \in Tx /\ Proceed(t, after)
      /\ after.pc = "open" /\ after.job = tx[t].job
      /\ after.todo \in Suffixes(Op(t)) /\ Head(after.todo) \notin Last
  BY <1>2, <1>3, <1>4, <1>8, <1>9
<1>10. /\ tx' = [tx EXCEPT ![t] = tx'[t]] /\ tx'[t] \in Tx
       /\ tx'[t].pc = "open" /\ tx'[t].job = tx[t].job
       /\ tx'[t].id = after.id /\ tx'[t].holds = after.holds
       /\ tx'[t].new = after.new /\ tx'[t].gone = after.gone
       /\ tx'[t].asked = FALSE /\ tx'[t].seen = {}
       /\ Op(t)' = Op(t) /\ Scripted(t)' /\ Pruning(t)'
       /\ Statement(t)' = After(Op(t), Head(after.todo))
  BY <1>0, ProceedFields
<1>11. Statement(t)' = IF s = "cascade" THEN "commit"
                       ELSE IF Op(t) = "delete" THEN "remove" ELSE "bind"
  BY <1>9, <1>10 DEF After
<1>12. OwnOK(t)'
  <2>1. IdOK(t)'
    BY <1>2, <1>3, <1>4, <1>8, <1>10, <1>11 DEF OwnOK, IdOK
  <2>2. s = "cascade" => Op(t) = "delete"
    BY <1>2, <1>3 DEF StatementsOf, Ops
  <2>3. Op(t) \in {"create", "update", "delete"}
    BY <1>2, <1>3 DEF StatementsOf, Ops
  <2>4. Holding(t)' <=> Holding(t)
    BY <1>2, <1>8, <1>10, <1>11, <2>2, <2>3 DEF Holding
  <2>5. LockOK(t)'
    BY <1>2, <1>3, <1>4, <1>8, <1>10, <1>11, <2>2, <2>4 DEF OwnOK, LockOK, Present
  <2>6. OwnBindings(t)'
    BY <1>6, <1>8, <1>10, <1>11 DEF OwnBindings
  <2>7. Cleared(t)'
    BY <1>4, <1>7, <1>8, <1>10, <1>11, <2>2 DEF Cleared, Of
  <2> QED
    BY <1>8, <1>10, <2>1, <2>5, <2>6, <2>7 DEF OwnOK
<1>13. tx'[t].holds => \A u \in Open \ {t} : tx[u].holds => tx[u].id # tx'[t].id
  BY <1>2, <1>8, <1>10, ZenonT(30) DEF TCore, RowsApart
<1>14. tx'[t].new # NoRow => /\ ~Taken(tx'[t].new.account, NoId)
                             /\ \A u \in Open \ {t} : tx[u].new # NoRow =>
                                  tx[u].new.account # tx'[t].new.account
  BY <1>2, <1>8, <1>10 DEF TCore, NamesApart
<1>15. TCore'
  BY <1>3, <1>4, <1>6, <1>8, <1>10, <1>12, <1>13, <1>14, LocalStep
<1> QED
  BY <1>2, <1>7, <1>8, <1>10, <1>11, <1>15

\* A row that is changed was there, and nobody else's.
LEMMA ChangeRowKeeps ==
  ASSUME TCore, NEW t \in Txs, ChangeRow(t)
  PROVE  TCore' /\ Statement(t)' = "unbind" /\ tx'[t].asked = FALSE
<1> DEFINE after == [tx[t] EXCEPT !.holds = TRUE]
<1>1. t \in Open /\ Statement(t) = "change" /\ "change" \in StatementsOf(Op(t))
  BY AtStatement DEF ChangeRow
<1>2. tx[t] \in Tx /\ tx[t].pc = "open" /\ OwnOK(t) /\ Op(t) \in Ops
      /\ tx[t].todo \in Suffixes(Op(t))
  BY <1>1, OpenTransaction
<1>3. Op(t) = "update"
  BY <1>1, <1>2 DEF StatementsOf, Ops
<1>4. rows' = rows /\ bindings' = bindings /\ issued' = issued /\ fk' = fk
      /\ fk \in BOOLEAN /\ Proceed(t, after) /\ ~RowHeld(t, tx[t].id)
  BY DEF ChangeRow, stored, TCore, TTypeOK
<1>5. tx[t].id \in Present
  BY DEF ChangeRow, StillThere, Version
<1>6. /\ after \in Tx /\ after.pc = "open" /\ after.job = tx[t].job
      /\ after.todo = tx[t].todo /\ after.id = tx[t].id
      /\ after.holds = TRUE /\ after.new = tx[t].new /\ after.gone = tx[t].gone
  BY <1>2 DEF Tx
<1> HIDE DEF after
<1>7. /\ "change" \notin Last /\ After("update", "change") = "unbind"
      /\ Head(after.todo) = "change"
  BY <1>1, <1>6 DEF Last, After, Statement
<1>8. /\ tx' = [tx EXCEPT ![t] = tx'[t]] /\ tx'[t] \in Tx
      /\ tx'[t].pc = "open" /\ tx'[t].job = tx[t].job
      /\ tx'[t].id = tx[t].id /\ tx'[t].holds = TRUE
      /\ tx'[t].new = tx[t].new /\ tx'[t].gone = tx[t].gone
      /\ tx'[t].asked = FALSE /\ tx'[t].seen = {}
      /\ Op(t)' = Op(t) /\ Scripted(t)' /\ Pruning(t)'
      /\ Statement(t)' = "unbind"
  <2>1. /\ t \in Open /\ after \in Tx /\ Proceed(t, after)
        /\ after.pc = "open" /\ after.job = tx[t].job
        /\ after.todo \in Suffixes(Op(t)) /\ Head(after.todo) \notin Last
    BY <1>1, <1>2, <1>4, <1>6, <1>7
  <2>2. /\ tx' = [tx EXCEPT ![t] = tx'[t]] /\ tx'[t] \in Tx
        /\ tx'[t].pc = "open" /\ tx'[t].job = tx[t].job
        /\ tx'[t].id = after.id /\ tx'[t].holds = after.holds
        /\ tx'[t].new = after.new /\ tx'[t].gone = after.gone
        /\ tx'[t].asked = FALSE /\ tx'[t].seen = {}
        /\ Op(t)' = Op(t) /\ Scripted(t)' /\ Pruning(t)'
        /\ Statement(t)' = After(Op(t), Head(after.todo))
    BY <2>1, ProceedFields
  <2> QED
    BY <1>3, <1>6, <1>7, <2>2
<1>9. OwnOK(t)'
  <2>1. IdOK(t)'
    BY <1>2, <1>3, <1>4, <1>8 DEF OwnOK, IdOK
  <2>2. LockOK(t)'
    BY <1>2, <1>3, <1>4, <1>5, <1>8 DEF OwnOK, LockOK, Holding, Present
  <2>3. OwnBindings(t)' /\ Cleared(t)'
    BY <1>2, <1>8 DEF OwnOK, OwnBindings, Cleared
  <2> QED
    BY <1>8, <2>1, <2>2, <2>3 DEF OwnOK
<1>10. \A b \in tx'[t].seen \cup tx'[t].gone : Ended(b)
  BY <1>1, <1>8 DEF TCore, MadeAtTheEnd
<1>11. \A u \in Open \ {t} : tx[u].holds => tx[u].id # tx'[t].id
  BY <1>4, <1>8 DEF RowHeld
<1>12. tx'[t].new = NoRow
  BY <1>2, <1>3, <1>8 DEF OwnOK, LockOK
<1>13. TCore'
  BY <1>2, <1>4, <1>8, <1>9, <1>10, <1>11, <1>12, LocalStep
<1> QED
  BY <1>8, <1>13

\* A row that is removed was there, and nobody else's; without the foreign key
\* the commit comes next.
LEMMA RemoveRowKeeps ==
  ASSUME TCore, NEW t \in Txs, RemoveRow(t)
  PROVE  TCore' /\ (fk => Statement(t)' # "commit")
<1> DEFINE left == IF fk THEN tx[t].todo ELSE Tail(tx[t].todo)
           after == [tx[t] EXCEPT !.holds = TRUE, !.todo = left]
<1>1. t \in Open /\ Statement(t) = "remove" /\ "remove" \in StatementsOf(Op(t))
  BY AtStatement DEF RemoveRow
<1>2. tx[t] \in Tx /\ tx[t].pc = "open" /\ OwnOK(t) /\ Op(t) \in Ops
      /\ tx[t].todo \in Suffixes(Op(t))
  BY <1>1, OpenTransaction
<1>3. Op(t) = "delete"
  BY <1>1, <1>2 DEF StatementsOf, Ops
<1>4. rows' = rows /\ bindings' = bindings /\ issued' = issued /\ fk' = fk
      /\ fk \in BOOLEAN /\ Proceed(t, after) /\ ~RowHeld(t, tx[t].id)
  BY <1>2 DEF RemoveRow, stored, TCore, TTypeOK, Tx
<1>5. tx[t].id \in Present
  BY DEF RemoveRow, StillThere, Version
<1>6. /\ left \in Suffixes("delete")
      /\ Head(left) = IF fk THEN "remove" ELSE "cascade"
  <2>1. CASE fk
    BY <1>1, <1>2, <1>3, <2>1 DEF Statement
  <2>2. CASE ~fk
    <3>1. "remove" \notin Last /\ After("delete", "remove") = "cascade"
      BY DEF Last, After
    <3>2. Tail(tx[t].todo) \in Suffixes("delete") /\ Head(Tail(tx[t].todo)) = "cascade"
      BY <1>1, <1>3, <3>1, OpenTransaction
    <3> QED
      BY <2>2, <3>2
  <2> QED
    BY <2>1, <2>2
<1>7. left \in Seq(Statements)
  BY <1>6, ScriptGoesOn DEF Ops
<1> HIDE DEF left
<1>8. /\ after \in Tx /\ after.pc = "open" /\ after.job = tx[t].job
      /\ after.todo = left /\ after.id = tx[t].id
      /\ after.holds = TRUE /\ after.new = tx[t].new /\ after.gone = tx[t].gone
  BY <1>2, <1>7 DEF Tx
<1> HIDE DEF after
<1>9. /\ t \in Open /\ after \in Tx /\ Proceed(t, after)
      /\ after.pc = "open" /\ after.job = tx[t].job
      /\ after.todo \in Suffixes(Op(t)) /\ Head(after.todo) \notin Last
  BY <1>1, <1>3, <1>4, <1>6, <1>8 DEF Last
<1>10. /\ tx' = [tx EXCEPT ![t] = tx'[t]] /\ tx'[t] \in Tx
       /\ tx'[t].pc = "open" /\ tx'[t].job = tx[t].job
       /\ tx'[t].id = after.id /\ tx'[t].holds = after.holds
       /\ tx'[t].new = after.new /\ tx'[t].gone = after.gone
       /\ tx'[t].asked = FALSE /\ tx'[t].seen = {}
       /\ Op(t)' = Op(t) /\ Scripted(t)' /\ Pruning(t)'
       /\ Statement(t)' = After(Op(t), Head(after.todo))
  BY <1>9, ProceedFields
<1>11. Statement(t)' = IF fk THEN "cascade" ELSE "commit"
  BY <1>3, <1>6, <1>8, <1>10 DEF After
<1>12. OwnOK(t)'
  <2>1. IdOK(t)'
    BY <1>2, <1>3, <1>4, <1>8, <1>10 DEF OwnOK, IdOK
  <2>2. Holding(t)' /\ Statement(t)' # "insert"
    BY <1>3, <1>10, <1>11 DEF Holding
  <2>3. LockOK(t)'
    BY <1>2, <1>3, <1>4, <1>5, <1>8, <1>10, <2>2 DEF OwnOK, LockOK, Present
  <2>4. OwnBindings(t)'
    BY <1>2, <1>8, <1>10, <1>11 DEF OwnOK, OwnBindings
  <2>5. Cleared(t)'
    BY <1>3, <1>10 DEF Cleared
  <2> QED
    BY <1>10, <2>1, <2>3, <2>4, <2>5 DEF OwnOK
<1>13. \A b \in tx'[t].seen \cup tx'[t].gone : Ended(b)
  BY <1>1, <1>8, <1>10 DEF TCore, MadeAtTheEnd
<1>14. \A u \in Open \ {t} : tx[u].holds => tx[u].id # tx'[t].id
  BY <1>4, <1>8, <1>10 DEF RowHeld
<1>15. tx'[t].new = NoRow
  BY <1>2, <1>3, <1>8, <1>10 DEF OwnOK, LockOK
<1>16. TCore'
  BY <1>2, <1>4, <1>10, <1>12, <1>13, <1>14, <1>15, LocalStep
<1> QED
  BY <1>11, <1>16

\* A row that is inserted has an id of its own and a name nobody has.
LEMMA InsertRowKeeps ==
  ASSUME TCore, NEW t \in Txs, InsertRow(t)
  PROVE  TCore' /\ Statement(t)' = "unbind" /\ tx'[t].asked = FALSE
<1> DEFINE name == tx[t].job.name
           row == [account |-> name, is_super_admin |-> FALSE, by |-> t]
<1>1. t \in Open /\ Statement(t) = "insert" /\ "insert" \in StatementsOf(Op(t))
  BY AtStatement DEF InsertRow
<1>2. tx[t] \in Tx /\ tx[t].pc = "open" /\ OwnOK(t) /\ Op(t) \in Ops
      /\ tx[t].todo \in Suffixes(Op(t)) /\ tx[t].job \in Job
  BY <1>1, OpenTransaction
<1>3. Op(t) = "create"
  BY <1>1, <1>2 DEF StatementsOf, Ops
<1>4. row \in Row /\ row # NoRow
  <2>1. name \in Names
    BY <1>2, <1>3, JobFields DEF Op
  <2>2. row \in Row
    BY <2>1 DEF Row
  <2> QED
    BY <2>2, StorageAssumption
<1>5. PICK i \in Ids \ (issued \cup {tx[u].id : u \in Open}) :
        Proceed(t, [tx[t] EXCEPT !.id = i, !.holds = TRUE, !.new = row])
  BY DEF InsertRow
<1>6. rows' = rows /\ bindings' = bindings /\ issued' = issued /\ fk' = fk
      /\ fk \in BOOLEAN /\ ~NameHeld(t, name) /\ ~Taken(name, NoId)
  BY DEF InsertRow, stored, TCore, TTypeOK
<1> DEFINE after == [tx[t] EXCEPT !.id = i, !.holds = TRUE, !.new = row]
<1>7. row.account = name /\ row = [account |-> tx[t].job.name,
                                   is_super_admin |-> FALSE, by |-> t]
  OBVIOUS
<1> HIDE DEF row
<1>8. /\ after \in Tx /\ after.pc = "open" /\ after.job = tx[t].job
      /\ after.todo = tx[t].todo /\ after.id = i
      /\ after.holds = TRUE /\ after.new = row /\ after.gone = tx[t].gone
  BY <1>2, <1>4 DEF Tx
<1>9. Proceed(t, after)
  BY <1>5
<1> HIDE DEF after
<1>10. /\ t \in Open /\ after \in Tx /\ Proceed(t, after)
       /\ after.pc = "open" /\ after.job = tx[t].job
       /\ after.todo \in Suffixes(Op(t)) /\ Head(after.todo) \notin Last
       /\ Head(after.todo) = "insert"
  BY <1>1, <1>2, <1>8, <1>9 DEF Last, Statement
<1>11. /\ tx' = [tx EXCEPT ![t] = tx'[t]] /\ tx'[t] \in Tx
       /\ tx'[t].pc = "open" /\ tx'[t].job = tx[t].job
       /\ tx'[t].id = after.id /\ tx'[t].holds = after.holds
       /\ tx'[t].new = after.new /\ tx'[t].gone = after.gone
       /\ tx'[t].asked = FALSE /\ tx'[t].seen = {}
       /\ Op(t)' = Op(t) /\ Scripted(t)' /\ Pruning(t)'
       /\ Statement(t)' = After(Op(t), Head(after.todo))
  BY <1>10, ProceedFields
<1>12. Statement(t)' = "unbind"
  BY <1>10, <1>11 DEF After
<1>13. tx[t].gone = {}
  BY <1>1, <1>2 DEF OwnOK, OwnBindings
<1>14. OwnOK(t)'
  <2>1. IdOK(t)'
    BY <1>3, <1>5, <1>6, <1>8, <1>11 DEF IdOK
  <2>2. Holding(t)'
    BY <1>3, <1>11, <1>12 DEF Holding
  <2>3. LockOK(t)'
    BY <1>3, <1>4, <1>7, <1>8, <1>11, <1>12, <2>2 DEF LockOK
  <2>4. OwnBindings(t)' /\ Cleared(t)'
    BY <1>8, <1>11, <1>12, <1>13 DEF OwnBindings, Cleared
  <2> QED
    BY <1>11, <2>1, <2>3, <2>4 DEF OwnOK
<1>15. \A b \in tx'[t].seen \cup tx'[t].gone : Ended(b)
  BY <1>8, <1>11, <1>13
<1>16. \A u \in Open \ {t} : tx[u].id # tx'[t].id
  BY <1>5, <1>8, <1>11
<1>17. /\ ~Taken(tx'[t].new.account, NoId)
       /\ \A u \in Open \ {t} : tx[u].new # NoRow =>
            tx[u].new.account # tx'[t].new.account
  BY <1>6, <1>7, <1>8, <1>11 DEF NameHeld
<1>18. TCore'
  BY <1>2, <1>6, <1>11, <1>14, <1>15, <1>16, <1>17, LocalStep
<1> QED
  BY <1>11, <1>12, <1>18

\* Nothing is known of the other statements but their place.
LEMMA PlainStep ==
  ASSUME TCore, NEW t \in Open, NEW after \in Tx, Proceed(t, after),
         Statement(t) \in {"bind", "page"},
         rows' = rows, bindings' = bindings, issued' = issued, fk' = fk,
         after.pc = "open", after.job = tx[t].job, after.todo = tx[t].todo,
         after.id = tx[t].id, after.holds = tx[t].holds,
         after.new = tx[t].new, after.gone = tx[t].gone
  PROVE  /\ TCore' /\ ~(Op(t)' = "delete" /\ Statement(t)' = "commit")
         /\ Statement(t) = "page" => Statement(t)' = "row"
<1>1. tx[t] \in Tx /\ tx[t].pc = "open" /\ OwnOK(t) /\ Op(t) \in Ops
      /\ tx[t].todo \in Suffixes(Op(t)) /\ t \in Txs
      /\ Statement(t) \in StatementsOf(Op(t))
  BY OpenTransaction
<1>2. /\ after.todo \in Suffixes(Op(t)) /\ Head(after.todo) \notin Last
      /\ Head(after.todo) = Statement(t)
  BY <1>1 DEF Last, Statement
<1>3. /\ tx' = [tx EXCEPT ![t] = tx'[t]] /\ tx'[t] \in Tx
      /\ tx'[t].pc = "open" /\ tx'[t].job = tx[t].job
      /\ tx'[t].id = after.id /\ tx'[t].holds = after.holds
      /\ tx'[t].new = after.new /\ tx'[t].gone = after.gone
      /\ tx'[t].asked = FALSE /\ tx'[t].seen = {}
      /\ Op(t)' = Op(t) /\ Scripted(t)' /\ Pruning(t)'
      /\ Statement(t)' = After(Op(t), Head(after.todo))
  BY <1>2, ProceedFields
<1>4. \/ Statement(t) = "bind" /\ Statement(t)' = "commit"
         /\ Op(t) \in {"create", "update"}
      \/ Statement(t) = "page" /\ Statement(t)' = "row" /\ Op(t) = "list"
  BY <1>1, <1>2, <1>3 DEF After, StatementsOf, Ops
<1>5. OwnOK(t)'
  <2>1. IdOK(t)'
    BY <1>1, <1>3, <1>4 DEF OwnOK, IdOK
  <2>2. Holding(t)' <=> Holding(t)
    BY <1>3, <1>4 DEF Holding
  <2>3. LockOK(t)'
    BY <1>1, <1>3, <1>4, <2>2 DEF OwnOK, LockOK, Present
  <2>4. OwnBindings(t)'
    BY <1>1, <1>3, <1>4 DEF OwnOK, OwnBindings
  <2>5. Cleared(t)'
    BY <1>1, <1>3, <1>4 DEF OwnOK, Cleared, Of
  <2> QED
    BY <1>3, <2>1, <2>3, <2>4, <2>5 DEF OwnOK
<1>6. \A b \in tx'[t].seen \cup tx'[t].gone : Ended(b)
  BY <1>3 DEF TCore, MadeAtTheEnd
<1>7. tx'[t].holds => \A u \in Open \ {t} : tx[u].holds => tx[u].id # tx'[t].id
  BY <1>3 DEF TCore, RowsApart
<1>8. tx'[t].new # NoRow => /\ ~Taken(tx'[t].new.account, NoId)
                            /\ \A u \in Open \ {t} : tx[u].new # NoRow =>
                                 tx[u].new.account # tx'[t].new.account
  BY <1>3 DEF TCore, NamesApart
<1>9. fk' \in BOOLEAN
  BY DEF TCore, TTypeOK
<1>10. TCore'
  BY <1>1, <1>3, <1>5, <1>6, <1>7, <1>8, <1>9, LocalStep
<1> QED
  BY <1>3, <1>4, <1>10

LEMMA BindKeeps ==
  ASSUME TCore, NEW t \in Txs, Bind(t)
  PROVE  TCore' /\ ~(Op(t)' = "delete" /\ Statement(t)' = "commit")
<1>1. t \in Open /\ Statement(t) = "bind"
  BY AtStatement DEF Bind
<1>2. tx[t] \in Tx /\ tx[t].pc = "open"
  BY <1>1, OpenTransaction
<1>3. rows' = rows /\ bindings' = bindings /\ issued' = issued /\ fk' = fk
      /\ Proceed(t, tx[t])
  BY DEF Bind, stored
<1> QED
  BY <1>1, <1>2, <1>3, PlainStep

LEMMA ReadPageKeeps ==
  ASSUME TCore, NEW t \in Txs, ReadPage(t)
  PROVE  TCore' /\ Statement(t)' = "row"
<1>1. t \in Open /\ Statement(t) = "page"
  BY AtStatement DEF ReadPage
<1>2. tx[t] \in Tx /\ tx[t].pc = "open"
  BY <1>1, OpenTransaction
<1>3. PICK n \in 0..Cardinality(Present) : Proceed(t, [tx[t] EXCEPT !.left = n])
  BY DEF ReadPage
<1>4. rows' = rows /\ bindings' = bindings /\ issued' = issued /\ fk' = fk
  BY DEF ReadPage, stored
<1> DEFINE after == [tx[t] EXCEPT !.left = n]
<1>5. n \in Nat
  OBVIOUS
<1>6. /\ after \in Tx /\ after.pc = "open" /\ after.job = tx[t].job
      /\ after.todo = tx[t].todo /\ after.id = tx[t].id
      /\ after.holds = tx[t].holds /\ after.new = tx[t].new
      /\ after.gone = tx[t].gone
  BY <1>2, <1>5 DEF Tx
<1>7. Proceed(t, after)
  BY <1>3
<1> HIDE DEF after
<1> QED
  BY <1>1, <1>4, <1>6, <1>7, PlainStep

LEMMA ReadRowKeeps ==
  ASSUME TCore, NEW t \in Txs, ReadRow(t)
  PROVE  /\ TCore'
         /\ t \in Open' => Statement(t)' = "row"
<1>1. t \in Open /\ Statement(t) = "row" /\ "row" \in StatementsOf(Op(t))
  BY AtStatement DEF ReadRow
<1>2. tx[t] \in Tx /\ tx[t].pc = "open" /\ OwnOK(t) /\ Op(t) \in Ops
      /\ tx \in [Txs -> Tx]
  BY <1>1, OpenTransaction DEF TCore, TTypeOK
<1>3. Op(t) = "list"
  BY <1>1, <1>2 DEF StatementsOf, Ops
<1>4. rows' = rows /\ bindings' = bindings /\ issued' = issued /\ fk' = fk
      /\ fk \in BOOLEAN
  BY DEF ReadRow, stored, TCore, TTypeOK
<1>5. CASE tx[t].left = 0
  <2>1. End(t)
    BY <1>5 DEF ReadRow
  <2>2. t \notin Open'
    BY <1>2, <2>1 DEF End, Open, NoTransaction
  <2> QED
    BY <1>1, <1>4, <2>1, <2>2, EndStep
<1>6. CASE tx[t].left # 0
  <2> DEFINE r == [tx[t] EXCEPT !.left = @ - 1]
  <2>1. tx' = [tx EXCEPT ![t] = r]
    BY <1>2, <1>6 DEF ReadRow
  <2>2. /\ r \in Tx /\ r.pc = "open" /\ r.job = tx[t].job /\ r.todo = tx[t].todo
        /\ r.asked = tx[t].asked /\ r.seen = tx[t].seen /\ r.gone = tx[t].gone
        /\ r.id = tx[t].id /\ r.holds = tx[t].holds /\ r.new = tx[t].new
    BY <1>2, <1>6 DEF Tx
  <2> HIDE DEF r
  <2>3. tx'[t] = r
    BY <1>2, <2>1
  <2>4. Op(t)' = Op(t) /\ Statement(t)' = Statement(t)
    BY <2>2, <2>3 DEF Op, Statement
  <2>5. OwnOK(t)'
    <3>1. Scripted(t)' /\ IdOK(t)'
      BY <1>2, <1>4, <2>2, <2>3, <2>4 DEF OwnOK, Scripted, IdOK
    <3>2. LockOK(t)'
      BY <1>2, <1>3, <1>4, <2>2, <2>3, <2>4 DEF OwnOK, LockOK, Holding, Present
    <3>3. OwnBindings(t)'
      BY <1>2, <2>2, <2>3, <2>4 DEF OwnOK, OwnBindings
    <3>4. Cleared(t)' /\ Pruning(t)'
      BY <1>1, <1>3, <2>4 DEF Cleared, Pruning
    <3> QED
      BY <3>1, <3>2, <3>3, <3>4 DEF OwnOK
  <2>6. \A b \in r.seen \cup r.gone : Ended(b)
    BY <1>1, <2>2 DEF TCore, MadeAtTheEnd
  <2>7. r.holds => \A u \in Open \ {t} : tx[u].holds => tx[u].id # r.id
    BY <1>1, <2>2 DEF TCore, RowsApart
  <2>8. r.new # NoRow => /\ ~Taken(r.new.account, NoId)
                         /\ \A u \in Open \ {t} : tx[u].new # NoRow =>
                              tx[u].new.account # r.new.account
    BY <1>1, <2>2 DEF TCore, NamesApart
  <2>9. TCore'
    BY <1>2, <1>4, <2>1, <2>2, <2>5, <2>6, <2>7, <2>8, LocalStep
  <2> QED
    BY <1>1, <2>4, <2>9
<1> QED
  BY <1>5, <1>6

\* The steps that end a transaction and change no table.
Ends(t) == RowGone(t) \/ NameTaken(t) \/ Abort(t) \/ DetectDeadlock(t)

LEMMA EndsKeep ==
  ASSUME TCore, NEW t \in Txs, Ends(t)
  PROVE  TCore' /\ t \in Open /\ t \notin Open' /\ UNCHANGED <<stored, fk>>
<1>1. End(t) /\ UNCHANGED <<stored, fk>>
  BY DEF Ends, RowGone, NameTaken, Abort, DetectDeadlock
<1>2. t \in Open
  BY DEF Ends, RowGone, NameTaken, Abort, DetectDeadlock, Deadlocked, WaitsFor, At
<1>3. fk' \in BOOLEAN /\ tx \in [Txs -> Tx]
  BY <1>1 DEF TCore, TTypeOK
<1>4. t \notin Open'
  BY <1>1, <1>3 DEF End, Open, NoTransaction
<1> QED
  BY <1>1, <1>2, <1>3, <1>4, EndStep DEF stored
-----------------------------------------------------------------------------
(* The steps that change the tables: each is a transaction's last *)

\* What such a step has to show.
LEMMA LastStep ==
  ASSUME TCore, NEW t \in Open, End(t), fk' = fk,
         rows' \in [Ids -> Row \cup {NoRow}], bindings' \subseteq Binding,
         issued' \subseteq Ids, issued \subseteq issued', TablesOK',
         \A u \in Open \ {t} : OwnOK(u)',
         \A b \in bindings' \ bindings : b.by = t,
         \A u \in Open \ {t} : tx[u].new # NoRow => ~Taken(tx[u].new.account, NoId)'
  PROVE  TCore' /\ t \notin Open'
<1> DEFINE r == [NoTransaction EXCEPT !.pc = "ended"]
<1>1. r \in Tx /\ r.pc = "ended"
  BY EmptySeq DEF Tx, NoTransaction
<1>2. tx' = [tx EXCEPT ![t] = r] /\ t \in Txs /\ tx \in [Txs -> Tx]
  BY DEF End, Open, TCore, TTypeOK
<1> HIDE DEF r
<1>3. tx'[t] = r /\ \A u \in Txs \ {t} : tx'[u] = tx[u]
  BY <1>2
<1>4. Open' = Open \ {t}
  BY <1>1, <1>3 DEF Open
<1>5. TTypeOK'
  BY <1>1, <1>2 DEF TCore, TTypeOK
<1>6. RowsApart'
  BY <1>3, <1>4 DEF TCore, RowsApart, Open
<1>7. NamesApart'
  BY <1>3, <1>4 DEF TCore, NamesApart, Open
<1>8. MadeAtTheEnd'
  <2>1. \A b : Ended(b) => Ended(b)'
    BY <1>1, <1>3 DEF Ended
  <2>2. \A b \in bindings' \ bindings : Ended(b)'
    BY <1>1, <1>3 DEF Ended
  <2>3. \A u \in Open' : \A b \in tx'[u].seen \cup tx'[u].gone : Ended(b)
    BY <1>3, <1>4 DEF TCore, MadeAtTheEnd, Open
  <2> QED
    BY <2>1, <2>2, <2>3 DEF TCore, MadeAtTheEnd
<1> QED
  BY <1>4, <1>5, <1>6, <1>7, <1>8 DEF TCore

\* What another open transaction knows survives a step that ends this one.
LEMMA OthersAtTheEnd ==
  ASSUME TCore, NEW t \in Open, End(t), NEW u \in Open \ {t}
  PROVE  tx'[u] = tx[u]
BY DEF End, Open, TCore, TTypeOK

LEMMA PruneKeeps ==
  ASSUME TCore, NEW t \in Txs, Prune(t)
  PROVE  TCore' /\ t \notin Open' /\ bindings' \subseteq bindings
<1>1. t \in Open /\ Statement(t) = "prune"
  BY AtStatement DEF Prune
<1>2. /\ End(t) /\ rows' = rows /\ issued' = issued /\ fk' = fk
      /\ bindings' = bindings \ tx[t].seen
  BY DEF Prune
<1>3. TablesOK'
  BY <1>2 DEF TCore, TablesOK, Present
<1>4. \A u \in Open \ {t} : OwnOK(u)'
  <2> SUFFICES ASSUME NEW u \in Open \ {t}  PROVE OwnOK(u)'
    OBVIOUS
  <2>1. tx'[u] = tx[u]
    BY <1>1, <1>2, OthersAtTheEnd
  <2>2. Of(tx[u].id)' \subseteq Of(tx[u].id)
    BY <1>2, <2>1 DEF Of
  <2>3. tx[u].holds /\ Op(u) # "create" => tx[u].id \in Present'
    BY <1>2, OpenTransaction DEF OwnOK, LockOK, Present
  <2> QED
    BY <1>2, <2>1, <2>2, <2>3, OthersKeepOwn
<1>5. \A u \in Open \ {t} : tx[u].new # NoRow => ~Taken(tx[u].new.account, NoId)'
  <2>1. \A name : Taken(name, NoId)' <=> Taken(name, NoId)
    BY <1>2 DEF Taken, Present
  <2>2. \A u \in Open \ {t} : tx'[u] = tx[u]
    BY <1>1, <1>2, OthersAtTheEnd
  <2> QED
    BY <2>1, <2>2 DEF TCore, NamesApart
<1>6. rows' \in [Ids -> Row \cup {NoRow}] /\ bindings' \subseteq Binding
      /\ issued' \subseteq Ids
  BY <1>2 DEF TCore, TTypeOK
<1> QED
  BY <1>1, <1>2, <1>3, <1>4, <1>5, <1>6, LastStep

\* The seed's row under a name that is nobody's, for those who watch.
LEMMA SeedRow ==
  ASSUME TCore, NEW row \in Row, rows' = [rows EXCEPT ![Seed] = row],
         bindings' = bindings, issued' = issued, ~Taken(row.account, Seed),
         NEW O \in SUBSET Open, \A u \in O : tx'[u] = tx[u],
         \A u \in O : tx[u].new # NoRow => tx[u].new.account # row.account
  PROVE  /\ TablesOK' /\ rows' \in [Ids -> Row \cup {NoRow}]
         /\ \A u \in O : OwnOK(u)'
         /\ \A u \in O : tx[u].new # NoRow => ~Taken(tx[u].new.account, NoId)'
<1>1. row # NoRow /\ Seed \in Ids
  BY StorageAssumption
<1>2. rows \in [Ids -> Row \cup {NoRow}]
  BY DEF TCore, TTypeOK
<1>3. \A i \in Ids : rows'[i] = IF i = Seed THEN row ELSE rows[i]
  BY <1>1, <1>2
<1>4. Present' = Present \cup {Seed}
  BY <1>1, <1>3 DEF Present
<1>5. TablesOK'
  <2>1. Seed \in issued' /\ Present' \subseteq issued'
        /\ \A b \in bindings' : b.account_id \in issued'
    BY <1>4 DEF TCore, TablesOK
  <2>2. \A i, j \in Present' : rows'[i].account = rows'[j].account => i = j
    <3> SUFFICES ASSUME NEW i \in Present', NEW j \in Present',
                        rows'[i].account = rows'[j].account, i # j
                 PROVE  FALSE
      OBVIOUS
    <3>1. i \in Ids /\ j \in Ids
      BY DEF Present
    <3>2. CASE i = Seed
      BY <1>3, <1>4, <3>1, <3>2 DEF Taken
    <3>3. CASE j = Seed
      BY <1>3, <1>4, <3>1, <3>3 DEF Taken
    <3>4. CASE i # Seed /\ j # Seed
      BY <1>3, <1>4, <3>1, <3>4 DEF TCore, TablesOK
    <3> QED
      BY <3>2, <3>3, <3>4
  <2> QED
    BY <2>1, <2>2 DEF TablesOK
<1>6. \A u \in O : OwnOK(u)'
  <2> SUFFICES ASSUME NEW u \in O  PROVE OwnOK(u)'
    OBVIOUS
  <2>1. Of(tx[u].id)' \subseteq Of(tx[u].id)
    BY DEF Of
  <2>2. tx[u].holds /\ Op(u) # "create" => tx[u].id \in Present'
    BY <1>4, OpenTransaction DEF OwnOK, LockOK
  <2> QED
    BY <2>1, <2>2, OthersKeepOwn
<1>7. \A u \in O : tx[u].new # NoRow => ~Taken(tx[u].new.account, NoId)'
  <2> SUFFICES ASSUME NEW u \in O, tx[u].new # NoRow,
                      NEW i \in Present', rows'[i].account = tx[u].new.account
               PROVE  FALSE
    BY DEF Taken
  <2>1. ~Taken(tx[u].new.account, NoId)
    BY DEF TCore, NamesApart
  <2>2. i \in Ids /\ i # NoId
    BY StorageAssumption DEF Present
  <2>3. CASE i = Seed
    BY <1>3, <2>2, <2>3
  <2>4. CASE i # Seed
    BY <1>3, <1>4, <2>1, <2>2, <2>4 DEF Taken
  <2> QED
    BY <2>3, <2>4
<1> QED
  BY <1>1, <1>2, <1>5, <1>6, <1>7

LEMMA UpsertKeeps ==
  ASSUME TCore, NEW t \in Txs, Upsert(t)
  PROVE  /\ TCore' /\ t \in Open /\ t \notin Open' /\ bindings' = bindings
         /\ tx[t].job.name \in Names /\ ~Taken(tx[t].job.name, Seed)
<1> DEFINE name == tx[t].job.name
           row == [account |-> name, is_super_admin |-> TRUE,
                   by |-> IF Seed \in Present THEN rows[Seed].by ELSE t]
<1>1. t \in Open /\ Statement(t) = "upsert" /\ "upsert" \in StatementsOf(Op(t))
  BY AtStatement DEF Upsert
<1>2. Op(t) = "restore" /\ tx[t].job \in Job
  BY <1>1, OpenTransaction DEF StatementsOf, Ops
<1>3. name \in Names
  BY <1>2, JobFields DEF Op
<1>4. row \in Row /\ row.account = name
  <2>1. Seed \in Present => rows[Seed] \in Row
    BY DEF Present, TCore, TTypeOK
  <2> QED
    BY <1>3, <2>1 DEF Row
<1>5. /\ End(t) /\ rows' = [rows EXCEPT ![Seed] = row] /\ ~NameHeld(t, name)
      /\ ~Taken(name, Seed)
      /\ bindings' = bindings /\ issued' = issued /\ fk' = fk
  BY DEF Upsert
<1> HIDE DEF row
<1>6. \A u \in Open \ {t} : tx'[u] = tx[u]
  BY <1>1, <1>5, OthersAtTheEnd
<1>7. \A u \in Open \ {t} : tx[u].new # NoRow => tx[u].new.account # row.account
  BY <1>4, <1>5 DEF NameHeld
<1>8. /\ TablesOK' /\ rows' \in [Ids -> Row \cup {NoRow}]
      /\ \A u \in Open \ {t} : OwnOK(u)'
      /\ \A u \in Open \ {t} :
           tx[u].new # NoRow => ~Taken(tx[u].new.account, NoId)'
  BY <1>4, <1>5, <1>6, <1>7, SeedRow
<1>9. bindings' \subseteq Binding /\ issued' \subseteq Ids
  BY <1>5 DEF TCore, TTypeOK
<1> QED
  BY <1>1, <1>3, <1>5, <1>8, <1>9, LastStep

\* A transaction that commits holds its row; its account's bindings are among
\* those it has deleted, or it is a deletion.
LEMMA Committing ==
  ASSUME TCore, NEW t \in Txs, Commit(t)
  PROVE  /\ t \in Open /\ OwnOK(t) /\ tx[t].holds /\ tx[t].id \in Ids
         /\ Op(t) \in {"create", "update", "delete"} /\ Statement(t) = "commit"
         /\ tx[t].job \in Job
         /\ Op(t) # "delete" => Of(tx[t].id) \subseteq tx[t].gone
         /\ Op(t) # "create" => tx[t].id \in Present
         /\ Op(t) = "create" =>
              /\ tx[t].id \notin issued /\ tx[t].job.name \in Names
              /\ tx[t].new = [account |-> tx[t].job.name,
                              is_super_admin |-> FALSE, by |-> t]
              /\ tx[t].new \in Row /\ tx[t].new # NoRow
         /\ Bound(t) \subseteq Binding
         /\ \A b \in Bound(t) : b.account_id = tx[t].id /\ b.by = t
<1>1. t \in Open /\ Statement(t) = "commit" /\ "commit" \in StatementsOf(Op(t))
  BY AtStatement DEF Commit
<1>2. OwnOK(t) /\ tx[t].job \in Job /\ Op(t) \in Ops /\ tx[t] \in Tx
  BY <1>1, OpenTransaction
<1>3. Op(t) \in {"create", "update", "delete"}
  BY <1>1, <1>2 DEF StatementsOf, Ops
<1>4. tx[t].holds
  BY <1>1, <1>2, <1>3 DEF OwnOK, LockOK, Holding
<1>5. Op(t) # "create" => tx[t].id \in Present
  BY <1>2, <1>4 DEF OwnOK, LockOK
<1>6. Op(t) = "create" =>
        /\ tx[t].id \in Ids \ issued /\ tx[t].job.name \in Names
        /\ tx[t].new = [account |-> tx[t].job.name,
                        is_super_admin |-> FALSE, by |-> t]
        /\ tx[t].new \in Row /\ tx[t].new # NoRow
  <2> SUFFICES ASSUME Op(t) = "create"
               PROVE  /\ tx[t].id \in Ids \ issued /\ tx[t].job.name \in Names
                      /\ tx[t].new = [account |-> tx[t].job.name,
                                      is_super_admin |-> FALSE, by |-> t]
                      /\ tx[t].new \in Row /\ tx[t].new # NoRow
    OBVIOUS
  <2>1. tx[t].id \in Ids \ issued
    BY <1>1, <1>2 DEF OwnOK, IdOK
  <2>2. tx[t].job.name \in Names
    BY <1>2, JobFields DEF Op
  <2>3. tx[t].new # NoRow /\ tx[t].new = [account |-> tx[t].job.name,
                                          is_super_admin |-> FALSE, by |-> t]
    BY <1>1, <1>2 DEF OwnOK, LockOK
  <2>4. tx[t].new \in Row
    BY <1>2, <2>3 DEF Tx
  <2> QED
    BY <2>1, <2>2, <2>3, <2>4
<1>7. tx[t].id \in Ids
  BY <1>5, <1>6 DEF Present
<1>8. Op(t) # "delete" => tx[t].job.role \in Roles
  BY <1>2, <1>3, JobFields DEF Op
<1>9. Op(t) # "delete" => Of(tx[t].id) \subseteq tx[t].gone
  BY <1>1, <1>2, <1>3 DEF OwnOK, Cleared
<1> QED
  BY <1>1, <1>2, <1>3, <1>4, <1>5, <1>6, <1>7, <1>8, <1>9 DEF Bound, Binding

LEMMA CommitKeeps ==
  ASSUME TCore, NEW t \in Txs, Commit(t)
  PROVE  /\ TCore' /\ t \notin Open'
         /\ \A i \in Ids \ {tx[t].id} : Of(i)' = Of(i)
<1> DEFINE id == tx[t].id
<1>1. /\ t \in Open /\ OwnOK(t) /\ tx[t].holds /\ id \in Ids
      /\ Op(t) \in {"create", "update", "delete"} /\ Statement(t) = "commit"
      /\ Op(t) # "delete" => Of(id) \subseteq tx[t].gone
      /\ Op(t) # "create" => id \in Present
      /\ Op(t) = "create" =>
           id \notin issued /\ tx[t].new \in Row /\ tx[t].new # NoRow
      /\ Bound(t) \subseteq Binding
      /\ \A b \in Bound(t) : b.account_id = id /\ b.by = t
  BY Committing
<1>2. /\ End(t) /\ fk' = fk /\ issued' = issued \cup {id}
      /\ bindings' = (bindings \ tx[t].gone) \cup Bound(t)
      /\ rows' = [rows EXCEPT ![id] = CASE Op(t) = "create" -> tx[t].new
                                        [] Op(t) = "update" -> @
                                        [] Op(t) = "delete" -> NoRow]
  BY DEF Commit
<1>3. rows \in [Ids -> Row \cup {NoRow}] /\ bindings \subseteq Binding
      /\ issued \subseteq Ids
  BY DEF TCore, TTypeOK
<1>4. /\ \A i \in Ids \ {id} : rows'[i] = rows[i]
      /\ rows'[id] = CASE Op(t) = "create" -> tx[t].new
                       [] Op(t) = "update" -> rows[id]
                       [] Op(t) = "delete" -> NoRow
      /\ rows' \in [Ids -> Row \cup {NoRow}]
  BY <1>1, <1>2, <1>3
<1>5. Present' \ {id} = Present \ {id} /\ (id \in Present' <=> Op(t) # "delete")
  <2>1. \A i \in Ids \ {id} : i \in Present' <=> i \in Present
    BY <1>4 DEF Present
  <2>2. rows'[id] # NoRow <=> Op(t) # "delete"
    BY <1>1, <1>4 DEF Present
  <2> QED
    BY <1>1, <2>1, <2>2 DEF Present
<1>6. \A i \in Ids \ {id} : Of(i)' = Of(i)
  <2>1. \A b \in tx[t].gone \cup Bound(t) : b.account_id = id
    BY <1>1 DEF OwnOK, OwnBindings
  <2> QED
    BY <1>2, <2>1 DEF Of
<1>7. TablesOK'
  <2>1. Seed \in issued' /\ Present' \subseteq issued'
        /\ \A b \in bindings' : b.account_id \in issued'
    BY <1>1, <1>2, <1>5 DEF TCore, TablesOK
  <2>2. Op(t) = "create" => \A i \in Present : rows[i].account # tx[t].new.account
    <3>1. \A i \in Present : i # NoId
      BY StorageAssumption DEF Present
    <3> QED
      BY <1>1, <3>1 DEF TCore, NamesApart, Taken
  <2>3. \A i, j \in Present' : rows'[i].account = rows'[j].account => i = j
    <3> SUFFICES ASSUME NEW i \in Present', NEW j \in Present',
                        rows'[i].account = rows'[j].account, i # j
                 PROVE  FALSE
      OBVIOUS
    <3>1. i \in Ids /\ j \in Ids
      BY DEF Present
    <3>2. CASE Op(t) = "create"
      BY <1>1, <1>4, <1>5, <2>2, <3>1, <3>2 DEF TCore, TablesOK
    <3>3. CASE Op(t) # "create"
      BY <1>1, <1>4, <1>5, <3>1, <3>3 DEF TCore, TablesOK
    <3> QED
      BY <3>2, <3>3
  <2> QED
    BY <2>1, <2>3 DEF TablesOK
<1>8. \A u \in Open \ {t} : tx'[u] = tx[u]
  BY <1>1, <1>2, OthersAtTheEnd
<1>9. \A u \in Open \ {t} : tx[u].holds => tx[u].id # id
  BY <1>1 DEF TCore, RowsApart
<1>10. \A u \in Open \ {t} : OwnOK(u)'
  <2> SUFFICES ASSUME NEW u \in Open \ {t}  PROVE OwnOK(u)'
    OBVIOUS
  <2>1. OwnOK(u) /\ Op(u) \in Ops /\ Statement(u) \in StatementsOf(Op(u))
        /\ tx'[u] = tx[u]
    BY <1>8, OpenTransaction
  <2>2. Op(u) = "create" /\ Statement(u) # "insert" => tx[u].holds
    BY <2>1 DEF OwnOK, LockOK, Holding, StatementsOf
  <2>3. tx[u].id \in issued' => tx[u].id \in issued \/ Op(u) # "create"
                                \/ Statement(u) = "insert"
    BY <1>2, <1>9, <2>2
  <2>4. tx[u].holds /\ Op(u) # "create" => tx[u].id \in Present'
    BY <1>5, <1>9, <2>1 DEF OwnOK, LockOK
  <2>5. CASE tx[u].id # id \/ Op(t) = "delete"
    <3>1. Of(tx[u].id)' \subseteq Of(tx[u].id)
      <4>1. \A b \in bindings' : b \in bindings \/ b.account_id = id
        BY <1>1, <1>2
      <4>2. Op(t) = "delete" => bindings' \subseteq bindings
        BY <1>2 DEF Bound
      <4> QED
        BY <2>1, <2>5, <4>1, <4>2 DEF Of
    <3> QED
      BY <1>2, <2>1, <2>3, <2>4, <3>1, OthersKeepOwn
  <2>6. CASE tx[u].id = id /\ Op(t) # "delete"
    <3>1. ~tx[u].holds /\ ~Holding(u)
      BY <1>9, <2>1, <2>6 DEF OwnOK, LockOK
    <3>2. Op(u)' = Op(u) /\ Statement(u)' = Statement(u)
      BY <2>1 DEF Op, Statement
    <3>3. Scripted(u)' /\ OwnBindings(u)'
      BY <2>1, <3>2 DEF OwnOK, Scripted, OwnBindings
    <3>4. IdOK(u)'
      BY <1>2, <2>1, <2>2, <3>1, <3>2 DEF OwnOK, IdOK
    <3>5. LockOK(u)'
      BY <2>1, <3>1, <3>2 DEF OwnOK, LockOK, Holding
    <3>6. Statement(u) = "cascade" => Op(u) = "delete"
      BY <2>1 DEF StatementsOf, Ops
    <3>7. Cleared(u)'
      BY <3>1, <3>2, <3>6 DEF Cleared, Holding
    <3>8. Pruning(u)'
      <4>1. \A b \in tx[u].seen : b.account_id = id /\ Ended(b)
        BY <2>1, <2>6 DEF OwnOK, OwnBindings, TCore, MadeAtTheEnd
      <4>2. \A b \in tx[u].seen : b \notin bindings \ tx[t].gone
        BY <1>1, <2>6, <4>1 DEF Of
      <4>3. t \in Txs /\ tx[t].pc # "ended"
        BY <1>1, OpenTransaction
      <4>4. \A b \in tx[u].seen : b \notin Bound(t)
        BY <1>1, <4>1, <4>3 DEF Ended
      <4>5. tx[u].seen \cap bindings' = {}
        BY <1>2, <4>2, <4>4
      <4> QED
        BY <2>1, <4>5 DEF Pruning
    <3> QED
      BY <3>3, <3>4, <3>5, <3>7, <3>8 DEF OwnOK
  <2> QED
    BY <2>5, <2>6
<1>11. \A u \in Open \ {t} : tx[u].new # NoRow => ~Taken(tx[u].new.account, NoId)'
  <2> SUFFICES ASSUME NEW u \in Open \ {t}, tx[u].new # NoRow,
                      NEW i \in Present', rows'[i].account = tx[u].new.account
               PROVE  FALSE
    BY <1>8 DEF Taken
  <2>1. ~Taken(tx[u].new.account, NoId)
    BY DEF TCore, NamesApart
  <2>2. i \in Ids /\ i # NoId
    BY StorageAssumption DEF Present
  <2>3. CASE i = id /\ Op(t) = "create"
    BY <1>1, <1>4, <2>3 DEF TCore, NamesApart
  <2>4. CASE ~(i = id /\ Op(t) = "create")
    <3>1. i \in Present /\ rows'[i] = rows[i]
      BY <1>1, <1>4, <1>5, <2>2, <2>4
    <3> QED
      BY <2>1, <2>2, <3>1 DEF Taken
  <2> QED
    BY <2>3, <2>4
<1>12. bindings' \subseteq Binding /\ issued' \subseteq Ids /\ issued \subseteq issued'
       /\ \A b \in bindings' \ bindings : b.by = t
  BY <1>1, <1>2, <1>3
<1> QED
  BY <1>1, <1>2, <1>4, <1>6, <1>7, <1>10, <1>11, <1>12, LastStep

-----------------------------------------------------------------------------
(* The invariant, and what it gives *)

LEMMA CoreInit ==
  ASSUME rows = InitRows, bindings \subseteq InitBindings,
         issued = {i \in Ids : InitRows[i] # NoRow} \cup {Seed},
         fk \in BOOLEAN, tx = [t \in Txs |-> NoTransaction]
  PROVE  TInv
<1>1. Open = {}
  BY DEF Open, NoTransaction
<1>2. TTypeOK
  <2>1. NoTransaction \in Tx
    BY EmptySeq DEF Tx, NoTransaction
  <2> QED
    BY <2>1, StorageAssumption, TablesAssumption DEF TTypeOK
<1>3. TablesOK
  <2>1. \A b \in bindings : b.account_id \in Ids
    BY TablesAssumption DEF Binding
  <2> QED
    BY <2>1, TablesAssumption DEF TablesOK, Present
<1>4. MadeAtTheEnd
  <2>1. \A b \in bindings : b.by \notin Txs
    BY StorageAssumption, TablesAssumption
  <2> QED
    BY <1>1, <2>1 DEF MadeAtTheEnd, Ended
<1> QED
  BY <1>1, <1>2, <1>3, <1>4
     DEF TInv, TCore, RowsApart, NamesApart, DeletesEmpty

\* The steps of transactions, on whatever schema.
TStep(t) == Begin(t) \/ Advance(t) \/ Abort(t) \/ DetectDeadlock(t)

LEMMA CoreStep ==
  ASSUME TCore, NEW t \in Txs, TStep(t)
  PROVE  TCore'
<1>1. CASE Begin(t)
  BY <1>1, BeginKeeps
<1>2. CASE Ask(t)
  BY <1>2, AskKeeps
<1>3. CASE DeleteBindings(t)
  BY <1>3, DeleteBindingsKeeps
<1>4. CASE ChangeRow(t)
  BY <1>4, ChangeRowKeeps
<1>5. CASE RemoveRow(t)
  BY <1>5, RemoveRowKeeps
<1>6. CASE Prune(t)
  BY <1>6, PruneKeeps
<1>7. CASE InsertRow(t)
  BY <1>7, InsertRowKeeps
<1>8. CASE Upsert(t)
  BY <1>8, UpsertKeeps
<1>9. CASE Bind(t)
  BY <1>9, BindKeeps
<1>10. CASE Commit(t)
  BY <1>10, CommitKeeps
<1>11. CASE ReadPage(t)
  BY <1>11, ReadPageKeeps
<1>12. CASE ReadRow(t)
  BY <1>12, ReadRowKeeps
<1>13. CASE Ends(t)
  BY <1>13, EndsKeep
<1> QED
  BY <1>1, <1>2, <1>3, <1>4, <1>5, <1>6, <1>7, <1>8, <1>9, <1>10, <1>11,
     <1>12, <1>13 DEF TStep, Advance, Ends

\* A step leaves alone whatever is not its transaction's.
LEMMA StepFrame ==
  ASSUME TCore, NEW t \in Txs, TStep(t)
  PROVE  /\ \A u \in Txs \ {t} : tx'[u] = tx[u]
         /\ fk' = fk
         /\ Commit(t) \/ bindings' \subseteq bindings
<1>1. tx \in [Txs -> Tx]
  BY DEF TCore, TTypeOK
<1>2. \A u \in Txs \ {t} : tx'[u] = tx[u]
  BY <1>1 DEF TStep, Advance, Begin, Ask, DeleteBindings, ChangeRow, RemoveRow,
              RowGone, Prune, InsertRow, NameTaken, Upsert, Bind, Commit,
              ReadPage, ReadRow, Abort, DetectDeadlock, Proceed, End
<1>3. fk' = fk /\ (Commit(t) \/ bindings' \subseteq bindings)
  BY DEF TStep, Advance, Begin, Ask, DeleteBindings, ChangeRow, RemoveRow,
         RowGone, Prune, InsertRow, NameTaken, Upsert, Bind, Commit,
         ReadPage, ReadRow, Abort, DetectDeadlock, stored
<1> QED
  BY <1>2, <1>3

LEMMA EmptyStep ==
  ASSUME TInv, NEW t \in Txs, TStep(t)
  PROVE  DeletesEmpty'
<1> USE DEF TInv
<1>1. /\ \A u \in Txs \ {t} : tx'[u] = tx[u]
      /\ fk' = fk
      /\ Commit(t) \/ bindings' \subseteq bindings
  BY StepFrame
<1> SUFFICES ASSUME fk, NEW u \in Open',
                    Op(u)' = "delete", Statement(u)' = "commit"
             PROVE  Of(tx[u].id)' \subseteq tx'[u].gone
  BY <1>1 DEF DeletesEmpty
<1>2. CASE u # t
  <2>1. u \in Open /\ tx'[u] = tx[u]
    BY <1>1, <1>2 DEF Open
  <2>2. Op(u) = "delete" /\ Statement(u) = "commit"
    BY <2>1 DEF Op, Statement
  <2>3. Of(tx[u].id) \subseteq tx[u].gone
    BY <2>1, <2>2 DEF DeletesEmpty
  <2>4. CASE bindings' \subseteq bindings
    BY <2>1, <2>3, <2>4 DEF Of
  <2>5. CASE Commit(t)
    <3>1. tx[u].holds /\ tx[u].id \in Ids
      BY <2>1, <2>2, OpenTransaction DEF OwnOK, LockOK, Holding, Present
    <3>2. tx[u].id # tx[t].id
      BY <1>2, <2>1, <2>5, <3>1, Committing DEF TCore, RowsApart
    <3>3. \A i \in Ids \ {tx[t].id} : Of(i)' = Of(i)
      BY <2>5, CommitKeeps
    <3>4. Of(tx[u].id)' = {b \in bindings' : b.account_id = tx[u].id}
      BY <2>1 DEF Of
    <3> QED
      BY <2>1, <2>3, <3>1, <3>2, <3>3, <3>4 DEF Of
  <2> QED
    BY <1>1, <2>4, <2>5
<1>3. CASE u = t
  <2>1. DeleteBindings(t)
    <3>1. t \in Open' /\ Op(t)' = "delete" /\ Statement(t)' = "commit"
      BY <1>3
    <3> QED
      BY <3>1, BeginKeeps, AskKeeps, ChangeRowKeeps, RemoveRowKeeps, PruneKeeps,
         InsertRowKeeps, UpsertKeeps, BindKeeps, CommitKeeps, ReadPageKeeps,
         ReadRowKeeps, EndsKeep DEF TStep, Advance, Ends
  <2>2. Statement(t) = "cascade"
    BY <1>3, <2>1, DeleteBindingsKeeps
  <2>3. Of(tx[t].id) \subseteq tx'[t].gone /\ tx'[t].id = tx[t].id
    BY <2>1, <2>2, DeleteBindingsKeeps
  <2>4. bindings' = bindings
    BY <2>1 DEF DeleteBindings, stored
  <2> QED
    BY <1>3, <2>3, <2>4 DEF Of
<1> QED
  BY <1>2, <1>3

LEMMA InvariantStep ==
  ASSUME TInv, [TNext]_tvars
  PROVE  TInv'
<1>1. ASSUME NEW t \in Txs, TStep(t)  PROVE TInv'
  BY <1>1, CoreStep, EmptyStep DEF TInv
<1>2. CASE UNCHANGED tvars
  BY <1>2, SMTT(30) DEF tvars, TInv, TCore, TTypeOK, TablesOK, Present, Open, OwnOK,
     Scripted, IdOK, LockOK, OwnBindings, Cleared, Pruning, Of, Holding,
     Statement, Op, RowsApart, NamesApart, Taken, MadeAtTheEnd, Ended,
     DeletesEmpty
<1>3. CASE TNext
  BY <1>1, <1>3 DEF TNext, TStep
<1> QED
  BY <1>2, <1>3

\* The invariant of the transactions: each knows where it is in its script and
\* what it holds and has deleted, and no two hold one row or insert one name.
\* The foreign key stays in force, so that no deletion leaves a binding.
THEOREM TransactionsKeepTheirPlace == TSpec => [](TInv /\ fk)
<1>1. TInit => TInv /\ fk
  BY CoreInit DEF TInit
<1>2. TInv /\ fk /\ [TNext]_tvars => (TInv /\ fk)'
  <2>1. TInv /\ fk /\ [TNext]_tvars => fk'
    <3>1. ASSUME TInv, NEW t \in Txs, TStep(t)  PROVE fk' = fk
      BY <3>1, StepFrame DEF TInv
    <3> QED
      BY <3>1 DEF TNext, TStep, tvars
  <2> QED
    BY <2>1, InvariantStep
<1> QED
  BY <1>1, <1>2, PTL DEF TSpec

LEMMA NoConflict ==
  ASSUME TCore
  PROVE  BindNeverConflicts
<1> SUFFICES ASSUME NEW t \in Open,
                    At(t, "bind") \/ (At(t, "commit") /\ Op(t) # "delete")
             PROVE  /\ \A b \in bindings \ tx[t].gone : b.account_id # tx[t].id
                    /\ \A u \in Open \ {t} : tx[u].id = tx[t].id => ~At(u, "bind")
  BY DEF BindNeverConflicts
<1>1. \A u \in Open : At(u, "bind") => tx[u].holds
  <2> SUFFICES ASSUME NEW u \in Open, At(u, "bind")  PROVE tx[u].holds
    OBVIOUS
  <2>1. OwnOK(u) /\ Op(u) \in Ops /\ Statement(u) = "bind"
        /\ "bind" \in StatementsOf(Op(u))
    BY OpenTransaction, AtStatement
  <2>2. Holding(u)
    BY <2>1 DEF StatementsOf, Ops, Holding
  <2> QED
    BY <2>1, <2>2 DEF OwnOK, LockOK
<1>2. OwnOK(t) /\ Op(t) \in {"create", "update"} /\ Statement(t) \in {"bind", "commit"}
  <2>1. OwnOK(t) /\ Op(t) \in Ops /\ Statement(t) \in StatementsOf(Op(t))
        /\ Statement(t) \in {"bind", "commit"}
        /\ (Statement(t) = "commit" => Op(t) # "delete")
    BY OpenTransaction, AtStatement
  <2> QED
    BY <2>1 DEF StatementsOf, Ops
<1>3. tx[t].holds /\ Of(tx[t].id) \subseteq tx[t].gone
  BY <1>2 DEF OwnOK, LockOK, Holding, Cleared
<1> QED
  BY <1>1, <1>3 DEF Of, TCore, RowsApart

\* The INSERT of replaceAccountRolesTx meets no other binding of its account,
\* committed or of another transaction, for any transactions and jobs.
THEOREM BindsNeverConflict == TSpec => []BindNeverConflicts
<1>1. TInv => BindNeverConflicts
  BY NoConflict DEF TInv
<1> QED
  BY <1>1, TransactionsKeepTheirPlace, PTL

-----------------------------------------------------------------------------
(* The directory of accounts *)

\* What the directory shows of the tables.
Views == [i \in Ids |-> View(rows[i])]
RoleSets == [i \in Ids |-> RolesOf(i)]

LEMMA ViewOf ==
  ASSUME NEW row \in Row
  PROVE  /\ View(row) = [account |-> row.account,
                         is_super_admin |-> row.is_super_admin]
         /\ View(row) \in Directory!Account /\ View(row) # NoRow
         /\ row.account \in Names
<1>1. row # NoRow
  BY StorageAssumption
<1>2. View(row) = [account |-> row.account, is_super_admin |-> row.is_super_admin]
  BY <1>1 DEF View
<1>3. View(row) \in [account : Names, is_super_admin : BOOLEAN]
  BY <1>2 DEF Row
<1>4. row.account \in Names
  BY DEF Row
<1> QED
  BY <1>2, <1>3, <1>4, StorageAssumption DEF Directory!Account

\* The directory names exactly the accounts that have a row.
LEMMA PresentHere ==
  ASSUME TTypeOK
  PROVE  /\ Directory!Present = Present
         /\ \A i \in Present : /\ i \in Ids /\ rows[i] \in Row
                               /\ Views[i].account = rows[i].account
<1>1. \A i \in Present : i \in Ids /\ rows[i] \in Row
  BY DEF Present, TTypeOK
<1>2. \A i \in Ids : View(rows[i]) # NoRow <=> i \in Present
  BY <1>1, ViewOf DEF Present, View
<1>3. \A i \in Present : Views[i].account = rows[i].account
  BY <1>1, ViewOf DEF Views
<1> QED
  BY <1>1, <1>2, <1>3 DEF Directory!Present

LEMMA ViewChange ==
  ASSUME TTypeOK, NEW i \in Ids, NEW row, rows' = [rows EXCEPT ![i] = row]
  PROVE  Views' = [Views EXCEPT ![i] = View(row)]
<1>1. \A j \in Ids : rows'[j] = IF j = i THEN row ELSE rows[j]
  BY DEF TTypeOK
<1>2. Views' = [j \in Ids |-> View(rows'[j])]
  BY DEF Views, View
<1>3. \A j \in Ids : View(rows'[j]) = IF j = i THEN View(row) ELSE Views[j]
  BY <1>1 DEF Views
<1>4. Views' = [j \in Ids |-> IF j = i THEN View(row) ELSE Views[j]]
  BY <1>2, <1>3
<1>5. DOMAIN Views = Ids
  BY DEF Views
<1> QED
  BY <1>4, <1>5

\* The roles of one account change when its bindings do and no others.
LEMMA RolesChange ==
  ASSUME NEW i \in Ids, NEW S, \A j \in Ids \ {i} : Of(j)' = Of(j),
         {b.role_id : b \in Of(i)'} = S
  PROVE  RoleSets' = [RoleSets EXCEPT ![i] = S]
<1> DEFINE Roles1(j) == {b.role_id : b \in Of(j)'}
<1>1. RoleSets' = [j \in Ids |-> Roles1(j)]
  BY DEF RoleSets, RolesOf, Of
<1>2. \A j \in Ids : Roles1(j) = IF j = i THEN S ELSE RoleSets[j]
  BY DEF RoleSets, RolesOf, Of
<1> HIDE DEF Roles1
<1>3. RoleSets' = [j \in Ids |-> IF j = i THEN S ELSE RoleSets[j]]
  BY <1>1, <1>2
<1>4. DOMAIN RoleSets = Ids
  BY DEF RoleSets
<1> QED
  BY <1>3, <1>4

LEMMA NameFree ==
  ASSUME TTypeOK, NEW name, NEW i, ~Taken(name, i)
  PROVE  Directory!Free(name, i)
BY PresentHere DEF Taken, Directory!Free, Views

LEMMA NothingShown ==
  ASSUME UNCHANGED stored
  PROVE  UNCHANGED Directory!dvars
BY DEF stored, Directory!dvars, View, RolesOf

\* A clean-up leaves its role of what the account had, or comes too late.
LEMMA PruneIsKeepOnly ==
  ASSUME TCore, NEW t \in Txs, Prune(t)
  PROVE  [Directory!Next]_(Directory!dvars)
<1>1. t \in Open /\ Statement(t) = "prune" /\ "prune" \in StatementsOf(Op(t))
      /\ OwnOK(t) /\ Op(t) \in Ops /\ tx[t].job \in Job
  BY AtStatement, OpenTransaction DEF Prune
<1>2. Op(t) = "keepOnly"
  BY <1>1 DEF StatementsOf, Ops
<1>3. PICK i \in Ids, role \in Roles : i = tx[t].id /\ role = tx[t].job.role
  BY <1>1, <1>2, JobFields DEF OwnOK, IdOK, Op
<1>4. bindings' = bindings \ tx[t].seen /\ rows' = rows /\ issued' = issued
      /\ tx[t].asked
  BY DEF Prune
<1>5. \A b \in tx[t].seen : b.account_id = i /\ b.role_id # role
  BY <1>1, <1>3 DEF OwnOK, OwnBindings
<1>6. CASE {b \in Of(i) : b.role_id # role} \subseteq tx[t].seen
  <2>1. \A j \in Ids \ {i} : Of(j)' = Of(j)
    BY <1>4, <1>5 DEF Of
  <2>2. Of(i)' = {b \in Of(i) : b.role_id = role}
    BY <1>4, <1>5, <1>6 DEF Of
  <2>3. {b.role_id : b \in Of(i)'} = RolesOf(i) \cap {role}
    BY <2>2 DEF RolesOf, Of
  <2>4. RoleSets' = [RoleSets EXCEPT ![i] = RolesOf(i) \cap {role}]
    BY <2>1, <2>3, RolesChange
  <2>5. RoleSets[i] = RolesOf(i)
    BY DEF RoleSets
  <2>6. RoleSets' = [RoleSets EXCEPT ![i] = @ \cap {role}]
    BY <2>4, <2>5
  <2>7. Views' = Views
    BY <1>4 DEF Views, View
  <2>8. Directory!KeepOnly(i, role)
    BY <1>4, <2>6, <2>7 DEF Directory!KeepOnly, Views, RoleSets
  <2> QED
    BY <2>8 DEF Directory!Next
<1>7. CASE tx[t].seen \cap bindings = {}
  <2>1. UNCHANGED stored
    BY <1>4, <1>7 DEF stored
  <2> QED
    BY <2>1, NothingShown
<1> QED
  BY <1>1, <1>3, <1>4, <1>6, <1>7 DEF OwnOK, Pruning

\* The seed back in its row, whoever writes it.
LEMMA SeedRowRestores ==
  ASSUME TTypeOK, NEW row \in Row, rows' = [rows EXCEPT ![Seed] = row],
         bindings' = bindings, issued' = issued,
         row.is_super_admin = TRUE, ~Taken(row.account, Seed)
  PROVE  \E name \in Names : Directory!Restore(name)
<1>1. /\ row.account \in Names
      /\ View(row) = [account |-> row.account, is_super_admin |-> TRUE]
  BY ViewOf
<1>2. Views' = [Views EXCEPT ![Seed] = View(row)]
  BY ViewChange, StorageAssumption
<1>3. RoleSets' = RoleSets
  BY DEF RoleSets, RolesOf
<1>4. Directory!Free(row.account, Seed)
  BY NameFree
<1>5. Directory!Restore(row.account)
  BY <1>1, <1>2, <1>3, <1>4 DEF Directory!Restore, Views, RoleSets
<1> QED
  BY <1>1, <1>5

LEMMA UpsertIsRestore ==
  ASSUME TCore, NEW t \in Txs, Upsert(t)
  PROVE  \E name \in Names : Directory!Restore(name)
<1> DEFINE name == tx[t].job.name
           row == [account |-> name, is_super_admin |-> TRUE,
                   by |-> IF Seed \in Present THEN rows[Seed].by ELSE t]
<1>1. name \in Names /\ ~Taken(name, Seed)
  BY UpsertKeeps
<1>2. row \in Row /\ row.account = name /\ row.is_super_admin = TRUE
  <2>1. Seed \in Present => rows[Seed] \in Row
    BY DEF Present, TCore, TTypeOK
  <2> QED
    BY <1>1, <2>1 DEF Row
<1>3. rows' = [rows EXCEPT ![Seed] = row] /\ bindings' = bindings /\ issued' = issued
  BY DEF Upsert
<1> HIDE DEF row
<1> QED
  BY <1>1, <1>2, <1>3, SeedRowRestores DEF TCore

LEMMA CommitIsOneChange ==
  ASSUME TInv, fk, NEW t \in Txs, Commit(t)
  PROVE  Directory!Next
<1> USE DEF TInv
<1>1. /\ t \in Open /\ OwnOK(t) /\ tx[t].id \in Ids /\ Statement(t) = "commit"
      /\ Op(t) \in {"create", "update", "delete"} /\ tx[t].job \in Job
      /\ Op(t) # "delete" => Of(tx[t].id) \subseteq tx[t].gone
      /\ Op(t) # "create" => tx[t].id \in Present
      /\ Op(t) = "create" =>
           /\ tx[t].id \notin issued /\ tx[t].job.name \in Names
           /\ tx[t].new = [account |-> tx[t].job.name,
                           is_super_admin |-> FALSE, by |-> t]
           /\ tx[t].new \in Row /\ tx[t].new # NoRow
  BY Committing
<1>2. PICK i \in Ids : i = tx[t].id
  BY <1>1
<1>3. \A j \in Ids \ {i} : Of(j)' = Of(j)
  BY <1>2, CommitKeeps
<1>4. Of(i) \subseteq tx[t].gone
  BY <1>1, <1>2 DEF DeletesEmpty
<1>5. /\ issued' = issued \cup {i}
      /\ bindings' = (bindings \ tx[t].gone) \cup Bound(t)
      /\ rows' = [rows EXCEPT ![i] = CASE Op(t) = "create" -> tx[t].new
                                       [] Op(t) = "update" -> @
                                       [] Op(t) = "delete" -> NoRow]
  BY <1>2 DEF Commit
<1>6. /\ Op(t) = "create" => rows' = [rows EXCEPT ![i] = tx[t].new]
      /\ Op(t) = "update" => rows' = rows
      /\ Op(t) = "delete" => rows' = [rows EXCEPT ![i] = NoRow]
  BY <1>5 DEF TCore, TTypeOK
<1>7. \A b \in Bound(t) : b.account_id = i
  BY <1>2 DEF Bound
<1>8. Of(i)' = Bound(t)
  BY <1>4, <1>5, <1>7 DEF Of
<1>9. CASE Op(t) = "delete"
  <2>1. RoleSets' = [RoleSets EXCEPT ![i] = {}]
    <3>1. {b.role_id : b \in Of(i)'} = {}
      BY <1>8, <1>9 DEF Bound
    <3> QED
      BY <1>3, <3>1, RolesChange
  <2>2. Views' = [Views EXCEPT ![i] = NoRow]
    BY <1>6, <1>9, ViewChange DEF View, TCore
  <2>3. i \in Directory!Present
    BY <1>1, <1>2, <1>9, PresentHere DEF TCore
  <2>4. issued' = issued
    BY <1>1, <1>2, <1>5, <1>9 DEF TCore, TablesOK
  <2>5. Directory!Remove(i)
    BY <2>1, <2>2, <2>3, <2>4 DEF Directory!Remove, Views, RoleSets
  <2> QED
    BY <2>5 DEF Directory!Next
<1>10. CASE Op(t) # "delete"
  <2>1. PICK role \in Roles : role = tx[t].job.role
    BY <1>1, <1>10, JobFields DEF Op
  <2>2. {b.role_id : b \in Of(i)'} = {role}
    BY <1>8, <1>10, <2>1 DEF Bound
  <2>3. RoleSets' = [RoleSets EXCEPT ![i] = {role}]
    BY <1>3, <2>2, RolesChange
  <2>4. CASE Op(t) = "update"
    <3>1. Views' = Views
      BY <1>6, <2>4 DEF Views, View
    <3>2. i \in Directory!Present
      BY <1>1, <1>2, <2>4, PresentHere DEF TCore
    <3>3. issued' = issued
      BY <1>1, <1>2, <1>5, <2>4 DEF TCore, TablesOK
    <3>4. Directory!Assign(i, role)
      BY <2>3, <3>1, <3>2, <3>3 DEF Directory!Assign, Views, RoleSets
    <3> QED
      BY <3>4 DEF Directory!Next
  <2>5. CASE Op(t) = "create"
    <3>1. PICK name \in Names : name = tx[t].job.name
      BY <1>1, <2>5
    <3>2. Views' = [Views EXCEPT ![i] = View(tx[t].new)]
      BY <1>6, <2>5, ViewChange DEF TCore
    <3>3. View(tx[t].new) = [account |-> name, is_super_admin |-> FALSE]
      BY <1>1, <2>5, <3>1, ViewOf
    <3>4. Directory!Free(name, i)
      <4>1. i \notin Present
        BY <1>1, <1>2, <2>5 DEF TCore, TablesOK
      <4>2. ~Taken(name, NoId)
        BY <1>1, <2>5, <3>1 DEF TCore, NamesApart
      <4>3. ~Taken(name, i)
        BY <4>1, <4>2, StorageAssumption DEF Taken, Present
      <4> QED
        BY <4>3, NameFree DEF TCore
    <3>5. Directory!Create(i, name, role)
      BY <1>1, <1>2, <1>5, <2>3, <2>5, <3>2, <3>3, <3>4
         DEF Directory!Create, Views, RoleSets
    <3> QED
      BY <3>5 DEF Directory!Next
  <2> QED
    BY <1>1, <1>10, <2>4, <2>5
<1> QED
  BY <1>9, <1>10

\* Every other step of a transaction shows nothing.
LEMMA DirectoryStep ==
  ASSUME TInv, fk, NEW t \in Txs, TStep(t)
  PROVE  [Directory!Next]_(Directory!dvars)
<1>1. CASE Prune(t)
  BY <1>1, PruneIsKeepOnly DEF TInv
<1>2. CASE Upsert(t)
  BY <1>2, UpsertIsRestore DEF TInv, Directory!Next
<1>3. CASE Commit(t)
  BY <1>3, CommitIsOneChange
<1>4. CASE ~Prune(t) /\ ~Upsert(t) /\ ~Commit(t)
  <2>1. UNCHANGED stored
    BY <1>4 DEF TStep, Advance, Begin, Ask, DeleteBindings, ChangeRow,
       RemoveRow, RowGone, InsertRow, NameTaken, Bind, ReadPage, ReadRow,
       Abort, DetectDeadlock
  <2> QED
    BY <2>1, NothingShown
<1> QED
  BY <1>1, <1>2, <1>3, <1>4

LEMMA DirectoryInit ==
  ASSUME TInit
  PROVE  Directory!Init
<1>1. TTypeOK
  BY CoreInit DEF TInit, TInv, TCore
<1>2. Views \in [Ids -> Directory!Account \cup {NoRow}]
  <2>1. \A i \in Ids : View(rows[i]) \in Directory!Account \cup {NoRow}
    BY <1>1, ViewOf DEF TTypeOK, View
  <2> QED
    BY <2>1 DEF Views
<1>3. RoleSets \in [Ids -> SUBSET Roles]
  <2>1. \A i \in Ids : RolesOf(i) \in SUBSET Roles
    BY <1>1 DEF TTypeOK, RolesOf, Binding
  <2> QED
    BY <2>1 DEF RoleSets
<1>4. issued \in SUBSET Ids /\ Seed \in issued /\ Present \subseteq issued
  BY StorageAssumption DEF TInit, Present
<1>5. \A i \in Ids \ Present : RoleSets[i] = {}
  BY TablesAssumption DEF TInit, Present, RoleSets, RolesOf
<1>6. \A i, j \in Present : Views[i].account = Views[j].account => i = j
  BY <1>1, PresentHere, TablesAssumption DEF TInit, Present
<1> QED
  BY <1>1, <1>2, <1>3, <1>4, <1>5, <1>6, PresentHere
     DEF Directory!Init, Views, RoleSets

\* Whatever transactions interleave, wait for each other, deadlock or are
\* aborted, and whatever they are asked, a commit changes one account and all
\* its bindings as its function means to, or nothing.
THEOREM TransactionsImplementDirectory == TSpec => ImplementsDirectory
<1>1. TInit => Directory!Init
  BY DirectoryInit
<1>2. TInv /\ fk /\ [TNext]_tvars => [Directory!Next]_(Directory!dvars)
  <2>1. ASSUME TInv, fk, NEW t \in Txs, TStep(t)
        PROVE  [Directory!Next]_(Directory!dvars)
    BY <2>1, DirectoryStep
  <2>2. UNCHANGED tvars => UNCHANGED stored
    BY DEF tvars, stored
  <2> QED
    BY <2>1, <2>2, NothingShown DEF TNext, TStep
<1> QED
  BY <1>1, <1>2, TransactionsKeepTheirPlace, PTL
     DEF TSpec, ImplementsDirectory, Directory!Spec
=============================================================================
