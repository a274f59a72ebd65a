---------------------------- MODULE AccountHistory ----------------------------
(***************************************************************************)
(* AccountService with the history of what was true while a request ran.   *)
(* A handler gathers its evidence (status, binding, role state, permission)*)
(* in separate queries; witness[r] collects, after every step of anybody,  *)
(* the facts that then hold and that request r depends on. The history     *)
(* variable is read by the properties only.                                *)
(***************************************************************************)
EXTENDS AccountService

\* generate_short_id() draws 12 of 62 characters.
ASSUME IdsAssumption == IsFiniteSet(Ids)

VARIABLE witness

hvars == <<vars, witness>>

\* Facts about account i: it is enabled, it is super, it has a role.
AccountFacts(i) ==
  IF i \notin Live THEN {}
  ELSE { <<"enabled", i>> : s \in {account[i].status} \cap {"enabled"} }
       \cup { <<"super", i>> : s \in {account[i].is_super_admin} \cap {TRUE} }
       \cup { <<"bound", i, bindings[i][n]>> : n \in DOMAIN bindings[i] }

Available == {role \in Roles : roleState[role].enabled}
RoleFacts ==
  { <<"available", role>> : role \in Available }
  \cup { <<"grants", role>> : role \in {x \in Available : roleState[x].manage} }

\* A login with this name and password may succeed for account i.
CredentialFacts(i, input) ==
  IF /\ account[i].status = "enabled"
     /\ verifyPassword(account[i].password_hash, input.password)
  THEN {<<"credentials", i>>} ELSE {}

\* A list has its page and goes through its rows.
ReadingRows(r) ==
  /\ Listing(r)
  /\ req[r].pc \in {"row", "bindings", "resolve", "keep", "found", "unbound"}

\* From its page query on: account i was, or was not, one the list asks for;
\* it was shown.
ListFacts(r) ==
  IF ~ReadingRows(r) THEN {}
  ELSE { <<"matched", i>> : i \in Matching(req[r].input) }
       \cup { <<"unmatched", i>> : i \in Ids \ Matching(req[r].input) }
       \cup { <<"shown", i>> : i \in {req[r].seen.id} \ {NoId} }

\* A login depends on the account that has the name it asks for, and from its
\* look-up on on the one it found, whatever that is called by then.
LoginFacts(r) ==
  AccountFacts(req[r].seen.id) \cup
    UNION { AccountFacts(i) \cup CredentialFacts(i, req[r].input)
              : i \in Wanted(r) }

Facts(r) ==
  IF At(r, "idle") \/ At(r, "done") THEN {}
  ELSE RoleFacts \cup ListFacts(r) \cup
       IF IsLogin(r) THEN LoginFacts(r)
       ELSE AccountFacts(req[r].input.operator)

Observe ==
  witness' = [r \in Requests |->
    IF req'[r].pc = "idle" \/ req'[r].outcome \notin {"none", "ok"} THEN {}
    ELSE witness[r] \cup Facts(r)']

HInit == Init /\ witness = [r \in Requests |-> {}]
HNext == Next /\ Observe
HSpec == HInit /\ [][HNext]_hvars
-----------------------------------------------------------------------------
\* The request was let through to its write, or answered as asked.
CarriesOut(r) == ~IsLogin(r) /\ (At(r, "write") \/ req[r].outcome = "ok")

\* requireAccountManageToken lets a request through, and check-permission allows
\* one, only for an operator that was enabled while the request ran, and super
\* or bound at some moment to a role that at some moment granted the
\* permission (for me: was enabled); a role given to an account was enabled at
\* some moment of the request.
AuthorisedByEvidence ==
  \A r \in Requests : CarriesOut(r) =>
    LET i == req[r].input.operator
        asked == IF Op(r) = "me" THEN "available" ELSE "grants" IN
    /\ <<"enabled", i>> \in witness[r]
    /\ \/ <<"super", i>> \in witness[r]
       \/ \E role \in Roles : /\ <<"bound", i, role>> \in witness[r]
                              /\ <<asked, role>> \in witness[r]
    /\ RoleRequested(r) => <<"available", req[r].input.role>> \in witness[r]

\* A login or validation succeeds only if, while it ran, one enabled account
\* had that name and password, and that account was super or had a role that
\* was enabled at some moment.
LoginByEvidence ==
  \A r \in Requests : IsLogin(r) /\ req[r].outcome = "ok" =>
    \E i \in Ids :
      /\ <<"credentials", i>> \in witness[r]
      /\ \/ <<"super", i>> \in witness[r]
         \/ \E role \in Roles : /\ <<"bound", i, role>> \in witness[r]
                                /\ <<"available", role>> \in witness[r]

\* A list answers its page whatever is created, deleted, disabled or renamed
\* while its rows are read: no row twice, no fewer than the accounts that
\* matched throughout leave room for, no more than the accounts that ever
\* matched. Where (page - 1) * size is beyond int, OFFSET wraps around: then
\* no more is said than that what is shown matched.
ListAnswersItsPage ==
  \A r \in Requests : Op(r) = "list" /\ req[r].outcome = "ok" =>
    LET input == req[r].input
        skipped == (input.page - 1) * input.size
        Witnessed(fact) == {i \in Ids : <<fact, i>> \in witness[r]}
        ShownOf(n) == IF n <= skipped THEN 0
                      ELSE IF n - skipped < input.size THEN n - skipped
                      ELSE input.size
        always == Witnessed("matched") \ Witnessed("unmatched")
    IN /\ Witnessed("shown") \subseteq Witnessed("matched")
       /\ skipped < 2^(IntBits - 1) =>
            /\ Cardinality(Witnessed("shown")) >= ShownOf(Cardinality(always))
            /\ Cardinality(Witnessed("shown"))
                 <= ShownOf(Cardinality(Witnessed("matched")))
=============================================================================
