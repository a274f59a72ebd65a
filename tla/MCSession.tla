------------------------------- MODULE MCSession -------------------------------
(***************************************************************************)
(* The small database of MCAccount under AccountSession.                   *)
(***************************************************************************)
EXTENDS MCAccount, AccountSession

CONSTANTS t1, t2

SymmetricTokens == Permutations({q1, q2}) \cup Permutations({t1, t2})

\* alice logs in; whoever a session names, she or the temporary administrator,
\* asks to delete alice, which only the latter may.
SessionInputs ==
  {Login("alice", "p")} \cup {Delete(by, alice) : by \in Ids}
=============================================================================
