------------------------------ MODULE MCMigration ------------------------------
(***************************************************************************)
(* Two starts over a database with the seed and with bob, who has two      *)
(* roles or none.                                                          *)
(***************************************************************************)
EXTENDS AccountMigration

CONSTANTS seed, bob, fresh, manager, support, x1, x2, x3

MCNames == {"seed", "bob", "carol"}

MCRow(name, isSuper) ==
  [account |-> name, is_super_admin |-> isSuper, by |-> NoTx]
MCRows == [i \in Ids |-> CASE i = seed  -> MCRow("seed", TRUE)
                           [] i = bob   -> MCRow("bob", FALSE)
                           [] OTHER     -> NoRow]

MCBinding(i, role) == [account_id |-> i, role_id |-> role, by |-> NoTx]
MCBindings == {MCBinding(bob, manager), MCBinding(bob, support)}

\* carol creates takes the name of the seed after the seed is deleted.
MCUpdate(role) == [op |-> "update", target |-> bob, role |-> role]
MCDelete(i) == [op |-> "delete", target |-> i]
MCCreate == [op |-> "create", name |-> "seed", role |-> manager]
MCRestore == [op |-> "restore", name |-> "carol"]
MCPrune == [op |-> "keepOnly", target |-> bob, role |-> manager]

MCJobs ==
  [t \in Txs |->
     CASE t = x1 -> {MCUpdate(manager), MCDelete(seed), MCPrune}
       [] t = x2 -> {MCUpdate(support), MCDelete(bob), MCCreate, MCRestore}
       [] t = x3 -> {[op |-> "list"]}]
=============================================================================
