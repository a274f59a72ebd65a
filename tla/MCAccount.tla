------------------------------- MODULE MCAccount -------------------------------
(***************************************************************************)
(* Small databases and request mixes for AccountService.                   *)
(*                                                                         *)
(* root is a super administrator, alice an ordinary account whose role     *)
(* "manager" grants admin_account.manage, bob one whose role "support"     *)
(* does not; former is an account that was deleted, fresh1 and fresh2 are  *)
(* ids not drawn yet.                                                      *)
(***************************************************************************)
EXTENDS AccountService, TLC

CONSTANTS root, alice, bob, former, fresh1, fresh2, seed, manager, support,
          archive, q1, q2

MCNames == {"root", "alice", "bob", "carol", "seed", "a1b2c3d4"}
MCPasswords == {"p", "q"}

MCRow(name, isSuper) ==
  [account |-> name, password_hash |-> hashPassword("p"),
   status |-> "enabled", is_super_admin |-> isSuper, is_temporary |-> FALSE,
   expires_at |-> "null"]

SeedRow == [account |-> "seed", password_hash |-> NoHash,
            status |-> "disabled", is_super_admin |-> TRUE,
            is_temporary |-> TRUE, expires_at |-> "null"]

MCAccounts == [i \in Ids |-> CASE i = root  -> MCRow("root", TRUE)
                               [] i = alice -> MCRow("alice", FALSE)
                               [] i = bob   -> MCRow("bob", FALSE)
                               [] i = seed  -> SeedRow
                               [] OTHER     -> NoRow]

\* A seed of a historic database, without the flags of a temporary super
\* administrator (main_test.go:16), with a role like any other account.
LegacySeedAccounts == [MCAccounts EXCEPT ![seed] = MCRow("seed", FALSE)]

MCBindings == [i \in Ids |-> CASE i = alice -> <<manager>>
                               [] i = bob   -> <<support>>
                               [] OTHER     -> <<>>]

LegacySeedBindings == [MCBindings EXCEPT ![seed] = <<support>>]

\* Legacy data: bob has two roles (as in tests/data.yaml); and a binding of an
\* account that is gone.
LegacyBindings == [MCBindings EXCEPT ![bob] = <<support, manager>>]
OrphanBindings == [LegacyBindings EXCEPT ![former] = <<support>>]

MCRoles == [role \in Roles |-> [enabled |-> TRUE, manage |-> role = manager]]

Symmetric == Permutations({q1, q2})

Login(name, p) == [op |-> "login", name |-> name, password |-> p]
Validate(name, p) == [op |-> "validate", name |-> name, password |-> p]
Create(by, name, p, role) ==
  [op |-> "create", operator |-> by, name |-> name, password |-> p,
   status |-> "enabled", role |-> role]
Update(by, target, status, role) ==
  [op |-> "update", operator |-> by, target |-> target, status |-> status,
   role |-> role]
Reset(by, target, p) ==
  [op |-> "reset", operator |-> by, target |-> target, password |-> p]
Delete(by, target) == [op |-> "delete", operator |-> by, target |-> target]
Detail(by, target) == [op |-> "detail", operator |-> by, target |-> target]
Me(by) == [op |-> "me", operator |-> by]
CheckPermission(by) == [op |-> "check", operator |-> by]
ListOf(by, status, keyword, page, size) ==
  [op |-> "list", operator |-> by, status |-> status, keyword |-> keyword,
   page |-> page, size |-> size]

\* A super administrator and ordinary managers change, reset and delete each
\* other, with and without the permission to. Names race: two creations of
\* "carol", and one of the name a temporary administrator draws.
AccountInputs ==
  {Update(alice, root, "disabled", support),
   Update(root, alice, "disabled", support),
   Reset(alice, seed, "q"), Delete(root, alice),
   Create(root, "carol", "p", support), Create(alice, "carol", "q", manager),
   Create(root, "a1b2c3d4", "p", support)}

\* An ordinary manager resets the password of the seed.
SeedInputs == {Reset(alice, seed, "q")}

\* A super administrator gives the seed a role; the role is disabled later.
RebindInputs ==
  {Login("a1b2c3d4", "p"), Update(root, seed, "disabled", support)}

\* Legacy data: lookups by id and by name meet bob's two roles, an update the
\* account that is gone.
LegacyInputs ==
  {Login("bob", "p"), Detail(alice, bob), Update(root, bob, "enabled", archive),
   Update(root, former, "enabled", support), Create(bob, "carol", "p", support),
   Delete(root, bob), Delete(root, root), Reset(alice, bob, "q"), Me(root),
   Me(bob), CheckPermission(bob),
   ListOf(root, "any", {"alice", "bob"}, 1, 2)}

\* Look-ups over bob's two roles, for a list with a row, and the seed
\* re-enabled after its expiry.
ProgressInputs ==
  {ListOf(root, "any", {"bob"}, 1, 1), Update(root, seed, "enabled", manager)}
===============================================================================
