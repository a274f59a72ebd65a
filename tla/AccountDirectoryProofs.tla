------------------------ MODULE AccountDirectoryProofs ------------------------
(***************************************************************************)
(* AccountService implements AccountDirectory, for any database, any       *)
(* number of requests and any roles.                                       *)
(***************************************************************************)
EXTENDS AccountServiceProofs

\* What the directory shows of the tables.
Views == [i \in Ids |-> View(account[i])]
RoleSets == [i \in Ids |-> RolesOf(i)]

LEMMA RolesOfType ==
  ASSUME TypeOK, NEW i \in Ids
  PROVE  RolesOf(i) \in SUBSET Roles
<1>1. bindings[i] \in Seq(Roles)
  BY DEF TypeOK
<1> QED
  BY <1>1 DEF RolesOf

\* A row shows a name and a flag; no row shows none.
LEMMA ViewOf ==
  ASSUME NEW row \in Row
  PROVE  /\ View(row) = [account |-> row.account,
                         is_super_admin |-> row.is_super_admin]
         /\ View(row) \in Directory!Account
         /\ row.account \in Names /\ row # NoRow
<1>1. row # NoRow
  BY ConstantsAssumption
<1> QED
  BY <1>1 DEF View, Directory!Account, Row

\* The directory names exactly the live accounts.
LEMMA PresentLive ==
  ASSUME TypeOK
  PROVE  /\ Directory!Present = Live
         /\ \A i \in Live : /\ i \in Ids /\ account[i] \in Row
                            /\ Views[i].account = account[i].account
<1>1. \A i \in Ids : account[i] \in Row \cup {NoRow}
  BY DEF TypeOK
<1>2. \A i \in Live : i \in Ids /\ account[i] \in Row
  BY <1>1 DEF Live
<1>3. \A i \in Ids : View(account[i]) # NoRow <=> i \in Live
  <2> SUFFICES ASSUME NEW i \in Ids
               PROVE  View(account[i]) # NoRow <=> i \in Live
    OBVIOUS
  <2>1. CASE i \in Live
    <3>1. View(account[i]) \in Directory!Account
      BY <1>2, <2>1, ViewOf
    <3> QED
      BY <2>1, <3>1, ConstantsAssumption DEF Directory!Account
  <2>2. CASE i \notin Live
    BY <2>2 DEF Live, View
  <2> QED
    BY <2>1, <2>2
<1>4. \A i \in Live : Views[i].account = account[i].account
  BY <1>2, ViewOf DEF Views
<1> QED
  BY <1>2, <1>3, <1>4 DEF Directory!Present

\* A change of one account's row, and of one account's bindings, as the
\* directory sees it.
LEMMA ViewChange ==
  ASSUME TypeOK, NEW i \in Ids, NEW row,
         account' = [account EXCEPT ![i] = row]
  PROVE  Views' = [Views EXCEPT ![i] = View(row)]
<1>1. \A j \in Ids : account'[j] = IF j = i THEN row ELSE account[j]
  BY DEF TypeOK
<1>2. Views' = [j \in Ids |-> View(account'[j])]
  BY DEF Views, View
<1>3. \A j \in Ids : View(account'[j]) = IF j = i THEN View(row) ELSE Views[j]
  BY <1>1 DEF Views
<1>4. Views' = [j \in Ids |-> IF j = i THEN View(row) ELSE Views[j]]
  BY <1>2, <1>3
<1>5. DOMAIN Views = Ids
  BY DEF Views
<1> QED
  BY <1>4, <1>5

LEMMA RolesChange ==
  ASSUME TypeOK, NEW i \in Ids, NEW ids,
         bindings' = [bindings EXCEPT ![i] = ids]
  PROVE  RoleSets' = [RoleSets EXCEPT ![i] = {ids[n] : n \in DOMAIN ids}]
<1>1. \A j \in Ids : bindings'[j] = IF j = i THEN ids ELSE bindings[j]
  BY DEF TypeOK
<1> DEFINE S == {ids[n] : n \in DOMAIN ids}
           Roles1(j) == {bindings'[j][n] : n \in DOMAIN bindings'[j]}
<1>2. RoleSets' = [j \in Ids |-> Roles1(j)]
  BY DEF RoleSets, RolesOf
<1>3. \A j \in Ids : Roles1(j) = IF j = i THEN S ELSE RoleSets[j]
  BY <1>1 DEF RoleSets, RolesOf
<1> HIDE DEF Roles1, S
<1>4. RoleSets' = [j \in Ids |-> IF j = i THEN S ELSE RoleSets[j]]
  BY <1>2, <1>3
<1>5. DOMAIN RoleSets = Ids
  BY DEF RoleSets
<1>6. RoleSets' = [RoleSets EXCEPT ![i] = S]
  BY <1>4, <1>5
<1> QED
  BY <1>6 DEF S

LEMMA RolesChangeToOne ==
  ASSUME TypeOK, NEW i \in Ids, NEW role,
         bindings' = [bindings EXCEPT ![i] = <<role>>]
  PROVE  RoleSets' = [RoleSets EXCEPT ![i] = {role}]
<1> DEFINE one == <<role>>
<1>1. {one[n] : n \in DOMAIN one} = {role}
  OBVIOUS
<1>2. bindings' = [bindings EXCEPT ![i] = one]
  OBVIOUS
<1> HIDE DEF one
<1>3. RoleSets' = [RoleSets EXCEPT ![i] = {one[n] : n \in DOMAIN one}]
  BY <1>2, RolesChange
<1> QED
  BY <1>1, <1>3

LEMMA RolesChangeToNone ==
  ASSUME TypeOK, NEW i \in Ids, bindings' = [bindings EXCEPT ![i] = <<>>]
  PROVE  RoleSets' = [RoleSets EXCEPT ![i] = {}]
<1>1. {<<>>[n] : n \in DOMAIN <<>>} = {}
  OBVIOUS
<1>2. RoleSets' = [RoleSets EXCEPT ![i] = {<<>>[n] : n \in DOMAIN <<>>}]
  BY RolesChange
<1> QED
  BY <1>1, <1>2

LEMMA SameViews ==
  ASSUME TypeOK, TypeOK', SameAccounts
  PROVE  Views' = Views
<1>1. \A i \in Ids : View(account'[i]) = View(account[i])
  <2> SUFFICES ASSUME NEW i \in Ids PROVE View(account'[i]) = View(account[i])
    OBVIOUS
  <2>1. CASE i \in Live
    <3>1. account[i] \in Row /\ account'[i] \in Row
      BY <2>1 DEF TypeOK, Live, SameAccounts
    <3>2. /\ View(account[i]) = [account |-> account[i].account,
                is_super_admin |-> account[i].is_super_admin]
          /\ View(account'[i]) = [account |-> account'[i].account,
                is_super_admin |-> account'[i].is_super_admin]
      BY <3>1, ViewOf
    <3> QED
      BY <2>1, <3>2 DEF SameAccounts
  <2>2. CASE i \notin Live
    BY <2>2 DEF SameAccounts, Live
  <2> QED
    BY <2>1, <2>2
<1>2. Views' = [i \in Ids |-> View(account'[i])]
  BY DEF Views, View
<1> QED
  BY <1>1, <1>2 DEF Views

\* A name nobody has in the tables is free in the directory.
LEMMA NameFreeFree ==
  ASSUME TypeOK, NEW name, NEW i, NameFree(name, i)
  PROVE  Directory!Free(name, i)
  BY PresentLive DEF NameFree, Directory!Free, Views

-----------------------------------------------------------------------------
(* Each effect of a step is a change of the directory, or none. *)

LEMMA InsertCreates ==
  ASSUME TypeOK, Insert
  PROVE  \E i \in Ids, role \in Roles, name \in Names :
           Directory!Create(i, name, role)
<1>1. PICK i \in Ids \ issued, row \in Row, role \in Roles :
        /\ NameFree(row.account, NoId) /\ ~row.is_super_admin
        /\ account' = [account EXCEPT ![i] = row]
        /\ bindings' = [bindings EXCEPT ![i] = <<role>>]
        /\ issued' = issued \cup {i}
  BY DEF Insert
<1>2. /\ row.account \in Names
      /\ View(row) = [account |-> row.account, is_super_admin |-> FALSE]
  BY <1>1, ViewOf DEF Row
<1>3. Views' = [Views EXCEPT ![i] = View(row)]
  BY <1>1, ViewChange
<1>4. RoleSets' = [RoleSets EXCEPT ![i] = {role}]
  BY <1>1, RolesChangeToOne
<1>5. NameFree(row.account, i)
  BY <1>1, ConstantsAssumption DEF NameFree, Live
<1>6. Directory!Free(row.account, i)
  BY <1>5, NameFreeFree
<1>7. Directory!Create(i, row.account, role)
  BY <1>1, <1>2, <1>3, <1>4, <1>6 DEF Directory!Create, Views, RoleSets
<1> QED
  BY <1>1, <1>2, <1>7

LEMMA RebindAssigns ==
  ASSUME TypeOK, TypeOK', Rebind
  PROVE  \E i \in Ids, role \in Roles : Directory!Assign(i, role)
<1>1. PICK i \in Live, role \in Roles :
        /\ SameAccounts /\ issued' = issued
        /\ bindings' = [bindings EXCEPT ![i] = <<role>>]
  BY DEF Rebind
<1>2. i \in Ids /\ i \in Directory!Present
  BY PresentLive
<1>3. RoleSets' = [RoleSets EXCEPT ![i] = {role}]
  BY <1>1, <1>2, RolesChangeToOne
<1>4. Views' = Views
  BY <1>1, SameViews
<1>5. Directory!Assign(i, role)
  BY <1>1, <1>2, <1>3, <1>4 DEF Directory!Assign, Views, RoleSets
<1> QED
  BY <1>2, <1>5

LEMMA RemoveRemoves ==
  ASSUME TypeOK, Remove
  PROVE  \E i \in Ids : Directory!Remove(i)
<1>1. PICK i \in Live : /\ account' = [account EXCEPT ![i] = NoRow]
                        /\ bindings' = [bindings EXCEPT ![i] = <<>>]
                        /\ issued' = issued
  BY DEF Remove
<1>2. i \in Ids /\ i \in Directory!Present
  BY PresentLive
<1>3. Views' = [Views EXCEPT ![i] = NoRow]
  BY <1>1, <1>2, ViewChange DEF View
<1>4. RoleSets' = [RoleSets EXCEPT ![i] = {}]
  BY <1>1, <1>2, RolesChangeToNone
<1>5. Directory!Remove(i)
  BY <1>1, <1>2, <1>3, <1>4 DEF Directory!Remove, Views, RoleSets
<1> QED
  BY <1>2, <1>5

LEMMA PruneKeeps ==
  ASSUME TypeOK, Prune
  PROVE  \E i \in Ids, role \in Roles : Directory!KeepOnly(i, role)
<1>1. PICK i \in Ids, role \in Roles :
        /\ bindings' = [bindings EXCEPT ![i] = KeepOnly(bindings[i], role)]
        /\ UNCHANGED <<account, issued>>
  BY DEF Prune, TypeOK
<1> DEFINE ids == KeepOnly(bindings[i], role)
<1>2. {ids[n] : n \in DOMAIN ids} = RolesOf(i) \cap {role}
  <2>1. CASE \E n \in DOMAIN bindings[i] : bindings[i][n] = role
    <3>1. ids = <<role>> /\ role \in RolesOf(i)
      BY <2>1 DEF KeepOnly, RolesOf
    <3> QED
      BY <3>1
  <2>2. CASE ~\E n \in DOMAIN bindings[i] : bindings[i][n] = role
    <3>1. ids = <<>> /\ role \notin RolesOf(i)
      BY <2>2 DEF KeepOnly, RolesOf
    <3> QED
      BY <3>1
  <2> QED
    BY <2>1, <2>2
<1> HIDE DEF ids
<1>3. bindings' = [bindings EXCEPT ![i] = ids]
  BY <1>1 DEF ids
<1>4. RoleSets' = [RoleSets EXCEPT ![i] = RolesOf(i) \cap {role}]
  <2>1. RoleSets' = [RoleSets EXCEPT ![i] = {ids[n] : n \in DOMAIN ids}]
    BY <1>3, RolesChange
  <2> QED
    BY <1>2, <2>1
<1>5. RoleSets[i] = RolesOf(i)
  BY DEF RoleSets
<1>6. RoleSets' = [RoleSets EXCEPT ![i] = @ \cap {role}]
  BY <1>4, <1>5
<1>7. Views' = Views
  BY <1>1 DEF Views, View
<1>8. Directory!KeepOnly(i, role)
  BY <1>1, <1>6, <1>7 DEF Directory!KeepOnly, Views, RoleSets
<1> QED
  BY <1>8

LEMMA RestoreRestores ==
  ASSUME TypeOK, Restore
  PROVE  \E name \in Names : Directory!Restore(name)
<1>1. PICK row \in Row : /\ NameFree(row.account, Seed) /\ row.is_super_admin
                         /\ account' = [account EXCEPT ![Seed] = row]
                         /\ UNCHANGED <<bindings, issued>>
  BY DEF Restore
<1>2. /\ row.account \in Names
      /\ View(row) = [account |-> row.account, is_super_admin |-> TRUE]
  BY <1>1, ViewOf DEF Row
<1>3. Views' = [Views EXCEPT ![Seed] = View(row)]
  BY <1>1, ViewChange, ConstantsAssumption
<1>4. RoleSets' = RoleSets
  BY <1>1 DEF RoleSets, RolesOf
<1>5. Directory!Free(row.account, Seed)
  BY <1>1, NameFreeFree
<1>6. Directory!Restore(row.account)
  BY <1>1, <1>2, <1>3, <1>4, <1>5 DEF Directory!Restore, Views, RoleSets
<1> QED
  BY <1>2, <1>6

LEMMA DirectoryStep ==
  ASSUME TypeInv, [Next]_vars
  PROVE  [Directory!Next]_(Directory!dvars)
<1>1. TypeOK /\ TypeOK'
  BY NextTypeInv DEF TypeInv
<1>2. CASE UNCHANGED tables
  BY <1>2 DEF tables, Directory!dvars, View, RolesOf
<1>3. CASE Recolumn
  <2>1. Views' = Views
    BY <1>1, <1>3, SameViews DEF Recolumn
  <2>2. RoleSets' = RoleSets /\ issued' = issued
    BY <1>3 DEF Recolumn, RoleSets, RolesOf
  <2> QED
    BY <2>1, <2>2 DEF Directory!dvars, Views, RoleSets
<1>4. CASE Insert
  BY <1>1, <1>4, InsertCreates DEF Directory!Next
<1>5. CASE Rebind
  BY <1>1, <1>5, RebindAssigns DEF Directory!Next
<1>6. CASE Remove
  BY <1>1, <1>6, RemoveRemoves DEF Directory!Next
<1>7. CASE Prune
  BY <1>1, <1>7, PruneKeeps DEF Directory!Next
<1>8. CASE Restore
  BY <1>1, <1>8, RestoreRestores DEF Directory!Next
<1> QED
  BY <1>2, <1>3, <1>4, <1>5, <1>6, <1>7, <1>8, StepEffect

LEMMA DirectoryInit == Init => Directory!Init
<1> SUFFICES ASSUME Init PROVE Directory!Init
  OBVIOUS
<1>1. TypeOK
  BY InitTypeInv DEF TypeInv
<1>2. Views \in [Ids -> Directory!Account \cup {NoRow}]
  <2>1. \A i \in Ids : View(account[i]) \in Directory!Account \cup {NoRow}
    BY <1>1, ViewOf DEF TypeOK, View
  <2> QED
    BY <2>1 DEF Views
<1>3. RoleSets \in [Ids -> SUBSET Roles]
  BY <1>1, RolesOfType DEF RoleSets
<1>4. issued \in SUBSET Ids /\ Seed \in issued /\ Live \subseteq issued
  BY ConstantsAssumption DEF Init, InitIds, Live
<1>5. \A i \in Ids \ issued : RoleSets[i] = {}
  BY DEF Init, InitIds, RoleSets, RolesOf
<1>6. \A i, j \in Live : Views[i].account = Views[j].account => i = j
  BY <1>1, PresentLive, TablesAssumption DEF Init, Live
<1> QED
  BY <1>1, <1>2, <1>3, <1>4, <1>5, <1>6, PresentLive
     DEF Directory!Init, Views, RoleSets

\* For every database, every set of requests and every behaviour of the role
\* module, the tables are a directory of accounts: each step of a handler, of
\* CreateTemporaryAdmin or of the worker makes one of its changes or none.
THEOREM DirectoryImplemented == Spec => ImplementsDirectory
<1>1. Init => Directory!Init
  BY DirectoryInit
<1>2. TypeInv /\ [Next]_vars => [Directory!Next]_(Directory!dvars)
  BY DirectoryStep
<1> QED
  BY <1>1, <1>2, TypeInvariant, PTL
     DEF Spec, ImplementsDirectory, Directory!Spec
=============================================================================
