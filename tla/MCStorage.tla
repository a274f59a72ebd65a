------------------------------- MODULE MCStorage -------------------------------
(***************************************************************************)
(* Three transactions on a small database: the seed, and bob with two      *)
(* roles from before.                                                      *)
(***************************************************************************)
EXTENDS AccountStorage, TLC

CONSTANTS seed, bob, fresh1, fresh2, manager, support, archive,
          x1, x2, x3

MCNames == {"seed", "alice", "bob", "carol"}

MCRow(name, isSuper) ==
  [account |-> name, is_super_admin |-> isSuper, by |-> NoTx]
MCRows == [i \in Ids |-> CASE i = seed  -> MCRow("seed", TRUE)
                           [] i = bob   -> MCRow("bob", FALSE)
                           [] OTHER     -> NoRow]

MCBinding(i, role) == [account_id |-> i, role_id |-> role, by |-> NoTx]
MCBindings == {MCBinding(bob, manager), MCBinding(bob, support)}

\* An account that is being updated while it is deleted or pruned, the seed
\* deleted, updated and restored, two creations of a name, and lists, which
\* may have the three connections among them.
MCCreate == [op |-> "create", name |-> "carol", role |-> manager]
MCUpdate(i, role) == [op |-> "update", target |-> i, role |-> role]
MCDelete(i) == [op |-> "delete", target |-> i]
MCRestore == [op |-> "restore", name |-> "carol"]
MCPrune == [op |-> "keepOnly", target |-> bob, role |-> manager]
MCList == [op |-> "list"]

MCJobs ==
  [t \in Txs |->
     CASE t = x1 -> {MCCreate, MCUpdate(bob, archive), MCDelete(seed), MCList}
       [] t = x2 -> {MCCreate, MCRestore, MCDelete(bob), MCList}
       [] t = x3 -> {MCUpdate(bob, manager), MCUpdate(seed, archive), MCRestore,
                      MCPrune, MCList}]
=============================================================================
