--------------------------- MODULE AccountDirectory ---------------------------
(***************************************************************************)
(* What the storage of the account module promises to whoever reads it:    *)
(* accounts with a name, super administrators or not, with their roles,    *)
(* changed in five ways, each at once. Passwords, status and expiry are    *)
(* left out.                                                               *)
(***************************************************************************)
CONSTANTS Ids, Seed, Roles, Names, NoRow

VARIABLES
  accounts,  \* id -> name and super flag, or NoRow
  roles,     \* id -> the roles bound to it
  issued     \* every id that has ever named an account

dvars == <<accounts, roles, issued>>

Account == [account : Names, is_super_admin : BOOLEAN]

Present == {i \in Ids : accounts[i] # NoRow}

Init ==
  /\ accounts \in [Ids -> Account \cup {NoRow}]
  /\ roles \in [Ids -> SUBSET Roles]
  /\ issued \in SUBSET Ids
  /\ Seed \in issued /\ Present \subseteq issued
  /\ \A i \in Ids \ issued : roles[i] = {}
  /\ \A i, j \in Present : accounts[i].account = accounts[j].account => i = j

Free(name, except) ==
  \A i \in Present \ {except} : accounts[i].account # name

\* createAccount: an ordinary account with one role, under an id never used.
Create(i, name, role) ==
  /\ i \notin issued /\ Free(name, i)
  /\ accounts' = [accounts EXCEPT ![i] =
                    [account |-> name, is_super_admin |-> FALSE]]
  /\ roles' = [roles EXCEPT ![i] = {role}]
  /\ issued' = issued \cup {i}

\* updateAccount: one role instead of whatever there was.
Assign(i, role) ==
  /\ i \in Present
  /\ roles' = [roles EXCEPT ![i] = {role}]
  /\ UNCHANGED <<accounts, issued>>

\* keepOnlyAccountRole: every other role goes.
KeepOnly(i, role) ==
  /\ roles' = [roles EXCEPT ![i] = @ \cap {role}]
  /\ UNCHANGED <<accounts, issued>>

\* deleteAccount: the account and its roles together.
Remove(i) ==
  /\ i \in Present
  /\ accounts' = [accounts EXCEPT ![i] = NoRow]
  /\ roles' = [roles EXCEPT ![i] = {}]
  /\ UNCHANGED issued

\* createTemporaryAdmin: the seed is back, super, under a name of its own.
Restore(name) ==
  /\ Free(name, Seed)
  /\ accounts' = [accounts EXCEPT ![Seed] =
                    [account |-> name, is_super_admin |-> TRUE]]
  /\ UNCHANGED <<roles, issued>>

Next ==
  \/ \E i \in Ids, role \in Roles :
       \/ \E name \in Names : Create(i, name, role)
       \/ Assign(i, role) \/ KeepOnly(i, role)
  \/ \E i \in Ids : Remove(i)
  \/ \E name \in Names : Restore(name)

Spec == Init /\ [][Next]_dvars
=============================================================================
