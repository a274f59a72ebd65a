------------------------------- MODULE MCHistory -------------------------------
(***************************************************************************)
(* The small database of MCAccount under AccountHistory.                   *)
(***************************************************************************)
EXTENDS MCAccount, AccountHistory

\* alice acts, logs in and lists the enabled of three accounts while root
\* moves her to another role, disables her and changes her password. In 8 bits
\* the offsets of pages 33 and 65 wrap around to -128 and to 0.
EvidenceInputs ==
  {Update(alice, bob, "enabled", manager),
   Update(root, alice, "disabled", support), Reset(root, alice, "q"),
   Me(alice), CheckPermission(alice), Login("alice", "p"),
   ListOf(alice, "enabled", {"alice", "bob", "root"}, 2, 2)}
    \cup {ListOf(alice, "any", {"alice", "bob"}, page, 4) : page \in {33, 65}}
=============================================================================
