--------------------------- MODULE AccountListProofs ---------------------------
(***************************************************************************)
(* A list answers its page, for every database and whatever happens to the *)
(* accounts while its rows are read.                                       *)
(*                                                                         *)
(* The page query reads one moment: the accounts M that matched then were  *)
(* witnessed as matched, all others as unmatched. From then on the rows    *)
(* still waiting and the accounts already shown make up the page, as large *)
(* as M leaves room for: a row only moves from the first to the second.    *)
(***************************************************************************)
EXTENDS AccountHistoryProofs, FiniteSetTheorems

Seen(fact, W) == {i \in Ids : <<fact, i>> \in W}

Asking(q) == q.input.op = "list" /\ q.operator # NoId
InRows(q) == q.pc \in {"row", "bindings", "resolve", "keep", "found", "unbound"}
Answering(q) == q.pc = "done" /\ q.outcome = "ok"
PageTaken(q) == Asking(q) /\ (InRows(q) \/ Answering(q))

\* The accounts whose rows the list has yet to read.
Waiting(q) == {q.rows[n].id : n \in DOMAIN q.rows}

\* The page of a list is what it shows of the accounts M.
PageOf(q, W, M) ==
  /\ M \subseteq Seen("matched", W)
  /\ Ids \ M \subseteq Seen("unmatched", W)
  /\ Waiting(q) \cup Seen("shown", W) \subseteq M
  /\ Cardinality(Waiting(q) \cup Seen("shown", W))
       = PageLength(q.input, Cardinality(M))

\* Where a list can be, and that it holds no row before it has read one.
ListPlace(q) ==
  /\ Asking(q) => q.pc \notin {"query", "absent", "describe", "write"}
  /\ Asking(q) /\ q.pc \in {"permit", "match", "validate", "count", "page", "row"}
       => q.seen.id = NoId
  /\ q.input.op = "list" /\ Answering(q) => Asking(q) /\ Waiting(q) = {}

ListOK(q, W) ==
  /\ ListPlace(q)
  /\ q.pc = "idle" => W = {}
  /\ q.input.op = "list" /\ q.pc # "done" /\ ~PageTaken(q)
       => Seen("shown", W) = {}
  /\ PageTaken(q) => \E M \in SUBSET Ids : PageOf(q, W, M)

PageInv == HInv /\ \A r \in Requests : ListOK(req[r], witness[r])
-----------------------------------------------------------------------------
(* Offsets *)

LEMMA PowersOfTwo ==
  ASSUME NEW n \in Nat \ {0}
  PROVE  /\ 2^(n - 1) \in Nat /\ 2^n \in Nat
         /\ 2^(n - 1) <= 2^n
<1>1. ASSUME NEW m \in Nat
      PROVE  /\ IsFiniteSet(SUBSET (1..m))
             /\ Cardinality(SUBSET (1..m)) = 2^m
             /\ 2^m \in Nat
  <2>1. IsFiniteSet(1..m) /\ Cardinality(1..m) = m
    BY FS_Interval
  <2> QED
    BY <2>1, FS_SUBSET, FS_CardinalityType
<1>2. n - 1 \in Nat
  OBVIOUS
<1>3. SUBSET (1..(n - 1)) \in SUBSET (SUBSET (1..n))
  OBVIOUS
<1>4. Cardinality(SUBSET (1..(n - 1))) <= Cardinality(SUBSET (1..n))
  BY <1>1, <1>3, FS_Subset
<1> QED
  BY <1>1, <1>2, <1>4

LEMMA PagesFromOne ==
  ASSUME NEW input \in Inputs, input.op = "list"
  PROVE  input.page - 1 \in Nat /\ input.size \in Nat
           /\ (input.page - 1) * input.size \in Nat
<1>1. input \in ListInput
  BY ConstantsAssumption DEF Input, LoginInput, CreateInput, UpdateInput,
     ResetInput, TargetInput, OwnInput, ListInput
<1>2. 2^(IntBits - 1) \in Nat
  BY ConstantsAssumption, PowersOfTwo
<1>3. input.page \in 1..(2^(IntBits - 1) - 1) /\ input.size \in 1..100
  BY <1>1 DEF ListInput
<1>4. \A m, n \in Nat : m * n \in Nat
  OBVIOUS
<1>5. input.page - 1 \in Nat /\ input.size \in Nat
  BY <1>2, <1>3
<1> QED
  BY <1>4, <1>5

\* Within int the offset is the number of rows before the page.
LEMMA OffsetExact ==
  ASSUME NEW input \in Inputs, input.op = "list",
         (input.page - 1) * input.size < 2^(IntBits - 1)
  PROVE  Offset(input) = (input.page - 1) * input.size
<1> DEFINE n == (input.page - 1) * input.size
           half == 2^(IntBits - 1)
           whole == 2^IntBits
<1>1. n \in Nat /\ n < half /\ half \in Nat /\ whole \in Nat /\ half <= whole
  BY ConstantsAssumption, PowersOfTwo, PagesFromOne
<1> HIDE DEF n, half, whole
<1>2. n % whole = n
  BY <1>1
<1>3. Wrapped(n) = n
  BY <1>1, <1>2 DEF Wrapped, half, whole
<1> QED
  BY <1>3 DEF Offset, n

\* More accounts, no shorter a page.
LEMMA LengthGrows ==
  ASSUME NEW input, Offset(input) \in Nat, input.size \in Nat,
         NEW m \in Nat, NEW n \in Nat, m <= n
  PROVE  PageLength(input, m) <= PageLength(input, n)
  BY DEF PageLength

-----------------------------------------------------------------------------
(* Facts *)

LEMMA AskingIsListing ==
  ASSUME NEW r \in Requests
  PROVE  ReadingRows(r) <=> Asking(req[r]) /\ InRows(req[r])
  BY DEF ReadingRows, Listing, AsOperator, IsLogin, Op, Asking, InRows

\* The account whose row is read is the only one shown now.
LEMMA ShownNow ==
  \A r \in Requests, i \in Ids :
    <<"shown", i>> \in Facts(r)
      <=> /\ Asking(req[r]) /\ InRows(req[r])
          /\ i = req[r].seen.id /\ i # NoId
<1> SUFFICES ASSUME NEW r \in Requests, NEW i \in Ids
             PROVE  <<"shown", i>> \in Facts(r)
                      <=> /\ Asking(req[r]) /\ InRows(req[r])
                          /\ i = req[r].seen.id /\ i # NoId
  OBVIOUS
<1>1. <<"shown", i>> \notin RoleFacts
  BY DEF RoleFacts
<1>2. \A j : <<"shown", i>> \notin AccountFacts(j)
  BY DEF AccountFacts
<1>3. \A j : <<"shown", i>> \notin CredentialFacts(j, req[r].input)
  BY DEF CredentialFacts
<1>4. <<"shown", i>> \notin LoginFacts(r)
  BY <1>2, <1>3 DEF LoginFacts
<1>5. <<"shown", i>> \in ListFacts(r)
        <=> ReadingRows(r) /\ i = req[r].seen.id /\ i # NoId
  BY DEF ListFacts
<1>6. ReadingRows(r) => ~(At(r, "idle") \/ At(r, "done"))
  BY DEF ReadingRows, At
<1>7. <<"shown", i>> \in Facts(r)
        <=> ~(At(r, "idle") \/ At(r, "done")) /\ <<"shown", i>> \in ListFacts(r)
  BY <1>1, <1>2, <1>4 DEF Facts
<1> QED
  BY <1>5, <1>6, <1>7, AskingIsListing

LEMMA ShownNext ==
  \A r \in Requests, i \in Ids :
    <<"shown", i>> \in Facts(r)'
      <=> /\ Asking(req'[r]) /\ InRows(req'[r])
          /\ i = req'[r].seen.id /\ i # NoId
<1>1. (\A r \in Requests, i \in Ids :
         <<"shown", i>> \in Facts(r)
           <=> /\ Asking(req[r]) /\ InRows(req[r])
               /\ i = req[r].seen.id /\ i # NoId)'
  BY ShownNow, PTL
<1> QED
  BY <1>1

\* A list that has its page sees every account as matched or unmatched.
LEMMA MatchedNow ==
  \A r \in Requests : Asking(req[r]) /\ InRows(req[r]) =>
    /\ \A i \in Matching(req[r].input) : <<"matched", i>> \in Facts(r)
    /\ \A i \in Ids \ Matching(req[r].input) : <<"unmatched", i>> \in Facts(r)
<1> SUFFICES ASSUME NEW r \in Requests, Asking(req[r]), InRows(req[r])
             PROVE  /\ \A i \in Matching(req[r].input) :
                         <<"matched", i>> \in Facts(r)
                    /\ \A i \in Ids \ Matching(req[r].input) :
                         <<"unmatched", i>> \in Facts(r)
  OBVIOUS
<1>1. ReadingRows(r) /\ ListFacts(r) \subseteq Facts(r)
  BY AskingIsListing DEF Facts, At, InRows
<1>2. /\ \A i \in Matching(req[r].input) : <<"matched", i>> \in ListFacts(r)
      /\ \A i \in Ids \ Matching(req[r].input) :
           <<"unmatched", i>> \in ListFacts(r)
  BY <1>1 DEF ListFacts
<1> QED
  BY <1>1, <1>2

\* What a step adds to the accounts shown to a request.
LEMMA ShownAfter ==
  ASSUME [HNext]_hvars, PageInv, NEW r \in Requests,
         req'[r].pc # "idle", req'[r].outcome \in {"none", "ok"},
         NEW i \in Ids
  PROVE  <<"shown", i>> \in witness'[r]
           <=> \/ <<"shown", i>> \in witness[r]
               \/ /\ Asking(req'[r]) /\ InRows(req'[r])
                  /\ i = req'[r].seen.id /\ i # NoId
<1>1. CASE HNext
  <2>1. witness'[r] = witness[r] \cup Facts(r)'
    BY <1>1 DEF HNext, Observe
  <2>2. <<"shown", i>> \in Facts(r)'
          <=> /\ Asking(req'[r]) /\ InRows(req'[r])
              /\ i = req'[r].seen.id /\ i # NoId
    BY ShownNext
  <2> QED
    BY <2>1, <2>2
<1>2. CASE UNCHANGED hvars
  <2>1. req' = req /\ witness' = witness
    BY <1>2 DEF hvars, vars
  <2>2. Asking(req[r]) /\ InRows(req[r]) /\ i = req[r].seen.id /\ i # NoId
          => <<"shown", i>> \in witness[r]
    BY ShownNow DEF PageInv, HInv, WitnessedNow, Going, InRows
  <2> QED
    BY <2>1, <2>2
<1> QED
  BY <1>1, <1>2

-----------------------------------------------------------------------------
(* The steps of a list *)

Refused(r) == req'[r].pc = "done" /\ req'[r].outcome # "ok"

LEMMA RefusedOnFinish ==
  ASSUME TypeInv, NEW r \in Requests, NEW o, o # "ok", Finish(r, o)
  PROVE  Refused(r)
  BY FinishMoves DEF Refused

LEMMA NotWhenDone ==
  ASSUME NEW r \in Requests, Step(r) \/ Fail(r)
  PROVE  req[r].pc # "done"
<1>1. ~At(r, "done") => req[r].pc # "done"
  BY DEF At
<1>2. Lookup(r) \/ Authorise(r) => ~At(r, "done")
  BY DEF Lookup, QueryAccount, ReadBindings, ResolveRole, KeepOnlyRole,
     Authorise, OperatorRefused, AnswerSuper, OperatorFound, PermitRole,
     MatchPermission, At
<1>3. Check(r) => ~At(r, "done")
  BY DEF Check, ValidateInput, RejectInput, CheckTarget, DescribeTarget,
     CheckName, CheckCredentials, CheckAvailable, OpenSession, At
<1>4. List(r) \/ Write(r) => ~At(r, "done")
  BY DEF List, CountAccounts, QueryPage, NextRow, Write, createAccount,
     TargetGone, updateAccount, resetPassword, deleteAccount, At
<1>5. Fail(r) => ~At(r, "done")
  BY DEF Fail, At
<1> QED
  BY <1>1, <1>2, <1>3, <1>4, <1>5 DEF Step

\* While its rows are read: a row's look-up goes on, the next one begins, or
\* the list ends.
LEMMA InThePage ==
  ASSUME TypeInv, NEW r \in Requests, PlaceOK(req[r]),
         Asking(req[r]), InRows(req[r]), Step(r) \/ Fail(r)
  PROVE  \/ Refused(r)
         \/ NextRow(r)
         \/ /\ SameRequest(r) /\ InRows(req'[r]) /\ req'[r].pc # "row"
            /\ req'[r].rows = req[r].rows /\ req'[r].seen = req[r].seen
<1>1. CASE Fail(r)
  BY <1>1, RefusedOnFinish DEF Fail
<1>2. CASE Lookup(r)
  <2>1. ReadBindings(r) \/ ResolveRole(r) \/ KeepOnlyRole(r)
    BY <1>2 DEF Lookup, QueryAccount, At, InRows
  <2> QED
    BY <2>1, RolesMove, RowsStay DEF InRows
<1>3. ~Authorise(r)
  BY DEF Authorise, OperatorRefused, AnswerSuper, OperatorFound, PermitRole,
     MatchPermission, AsOperator, At, Asking, InRows
<1>4. ~Check(r)
  BY DEF Check, ValidateInput, RejectInput, CheckTarget, DescribeTarget,
     CheckName, CheckCredentials, CheckAvailable, OpenSession, IsLogin, Op, At,
     Asking, InRows
<1>5. CASE List(r)
  BY <1>5 DEF List, CountAccounts, QueryPage, At, InRows
<1>6. ~Write(r)
  BY DEF Write, createAccount, TargetGone, updateAccount, resetPassword,
     deleteAccount, At, InRows
<1> QED
  BY <1>1, <1>2, <1>3, <1>4, <1>5, <1>6 DEF Step

\* Before its page a list reads no row.
LEMMA BeforeThePage ==
  ASSUME TypeInv, NEW r \in Requests, PlaceOK(req[r]), ListPlace(req[r]),
         req[r].input.op = "list", ~(Asking(req[r]) /\ InRows(req[r])),
         Step(r) \/ Fail(r)
  PROVE  \/ Refused(r)
         \/ QueryPage(r)
         \/ /\ req'[r].input = req[r].input /\ req'[r].pc \notin {"done", "idle"}
            /\ ~(Asking(req'[r]) /\ InRows(req'[r])) /\ ListPlace(req'[r])
<1> DEFINE Early == /\ req'[r].input = req[r].input
                    /\ req'[r].pc \notin {"done", "idle"}
                    /\ ~(Asking(req'[r]) /\ InRows(req'[r]))
                    /\ ListPlace(req'[r])
<1>0. req \in [Requests -> Request] /\ req[r] \in Request
  BY DEF TypeInv, TypeOK
<1>1. CASE Fail(r)
  BY <1>1, RefusedOnFinish DEF Fail
<1>2. CASE Lookup(r)
  <2>1. SameRequest(r)
          /\ req'[r].pc \in {"absent", "bindings", "resolve", "keep", "found",
                             "unbound"}
    BY <1>2, QueryMoves, RolesMove DEF Lookup
  <2>2. req[r].pc \in {"query", "bindings", "resolve", "keep"}
    BY <1>2, RolesMove DEF Lookup, QueryAccount, At
  <2>3. req[r].operator = NoId
    BY <2>2 DEF ListPlace, Asking, InRows
  <2>4. ~Asking(req'[r])
    BY <2>1, <2>3 DEF SameRequest, Asking
  <2> QED
    BY <2>1, <2>4 DEF SameRequest, ListPlace, Answering
<1>3. CASE Authorise(r)
  <2>1. CASE \E o \in Outcomes : Finish(r, o)
    <3>1. ~AnswerSuper(r)
      BY DEF AnswerSuper, IsOwn, Op
    <3>2. CASE OperatorRefused(r)
      <4>1. OperatorRefusal(r) # "ok"
        BY DEF OperatorRefusal
      <4> QED
        BY <3>2, <4>1, RefusedOnFinish DEF OperatorRefused
    <3>3. ~OperatorFound(r)
      <4> SUFFICES ASSUME OperatorFound(r) PROVE FALSE
        OBVIOUS
      <4> DEFINE seen == req[r].seen
                 none == <<>>
                 roles == IF seen.is_super_admin THEN none ELSE req[r].roles
                 pc == IF seen.is_super_admin THEN "validate" ELSE "permit"
      <4>1. req' = [req EXCEPT ![r].operator = seen.id,
                      ![r].isSuper = seen.is_super_admin,
                      ![r].seen = NoSnapshot, ![r].roles = roles, ![r].pc = pc]
        BY <1>0 DEF OperatorFound, Request
      <4>2. pc # "done"
        OBVIOUS
      <4> HIDE DEF pc, roles
      <4>3. req'[r].pc # "done"
        BY <1>0, <4>1, <4>2 DEF Request
      <4> QED
        BY <2>1, <4>3, FinishMoves
    <3>4. CASE PermitRole(r)
      <4>1. req'[r].pc = "done"
        BY <2>1, FinishMoves
      <4>2. ~Goto(r, "match")
        BY <4>1, GotoMoves
      <4>3. RoleDisabled(r)
        BY <3>4, <4>2 DEF PermitRole, Op
      <4> QED
        BY <4>3, RefusedOnFinish DEF RoleDisabled
    <3>5. CASE MatchPermission(r)
      <4>1. req'[r].pc = "done"
        BY <2>1, FinishMoves
      <4> DEFINE none == <<>>
      <4>2. req' # [req EXCEPT ![r].pc = "validate", ![r].roles = none]
        <5> HIDE DEF none
        <5> QED
          BY <1>0, <4>1 DEF Request
      <4>3. RoleDisabled(r) \/ Finish(r, "denied")
        BY <3>5, <4>2 DEF MatchPermission, Op
      <4> QED
        BY <4>3, RefusedOnFinish DEF RoleDisabled
    <3> QED
      BY <1>3, <3>1, <3>2, <3>3, <3>4, <3>5 DEF Authorise
  <2>2. CASE OperatorFound(r)
    <3> DEFINE seen == req[r].seen
               none == <<>>
               roles == IF seen.is_super_admin THEN none ELSE req[r].roles
               pc == IF seen.is_super_admin THEN "validate" ELSE "permit"
    <3>1. req' = [req EXCEPT ![r].operator = seen.id,
                    ![r].isSuper = seen.is_super_admin,
                    ![r].seen = NoSnapshot, ![r].roles = roles, ![r].pc = pc]
      BY <1>0, <2>2 DEF OperatorFound, Request
    <3>2. pc \in {"validate", "permit"}
      OBVIOUS
    <3> HIDE DEF pc, roles
    <3>3. /\ req'[r].input = req[r].input /\ req'[r].pc = pc
          /\ req'[r].seen = NoSnapshot
      BY <1>0, <3>1 DEF Request
    <3> QED
      BY <3>2, <3>3 DEF ListPlace, Asking, InRows, Answering, NoSnapshot
  <2>3. ASSUME req[r].pc \in {"permit", "match"}, SameRequest(r),
               req'[r].seen = req[r].seen, req'[r].pc \in {"match", "validate"}
        PROVE  Early
    <3>1. req[r].seen.id = NoId
      BY <2>3 DEF ListPlace, Asking, PlaceOK, Accepted
    <3> QED
      BY <2>3, <3>1 DEF SameRequest, ListPlace, Asking, InRows, Answering
  <2>4. CASE At(r, "permit") /\ Goto(r, "match")
    BY <2>3, <2>4, GotoMoves DEF At
  <2>5. CASE LetThrough(r)
    <3> DEFINE none == <<>>
    <3>1. /\ req[r].pc = "match"
          /\ req' = [req EXCEPT ![r].pc = "validate", ![r].roles = none]
      BY <2>5 DEF LetThrough, At
    <3> HIDE DEF none
    <3>2. SameRequest(r) /\ req'[r].seen = req[r].seen /\ req'[r].pc = "validate"
      BY <1>0, <3>1 DEF SameRequest, Request
    <3> QED
      BY <2>3, <3>1, <3>2
  <2> QED
    BY <1>3, <2>1, <2>2, <2>4, <2>5, AuthoriseEffect
<1>4. ASSUME req[r].pc \in {"validate", "count"},
             req'[r].pc \in {"count", "page"}, SameRequest(r),
             req'[r].seen = req[r].seen
      PROVE  Early
  <2>1. req[r].seen.id = NoId
    BY <1>4 DEF ListPlace, Asking, PlaceOK, Accepted
  <2> QED
    BY <1>4, <2>1 DEF SameRequest, ListPlace, Asking, InRows, Answering
<1>5. CASE Check(r)
  <2>1. CASE ValidateInput(r)
    <3>1. req[r].pc = "validate" /\ Goto(r, "count")
      BY <2>1 DEF ValidateInput, At, RoleRequested, Op
    <3> QED
      BY <1>4, <3>1, GotoMoves
  <2>2. CASE RejectInput(r)
    BY <2>2, RefusedOnFinish DEF RejectInput
  <2>3. ~(CheckTarget(r) \/ CheckName(r) \/ CheckCredentials(r))
    BY DEF CheckTarget, CheckName, CheckCredentials, IsLogin, Op
  <2>4. ~(DescribeTarget(r) \/ CheckAvailable(r) \/ OpenSession(r))
    BY DEF DescribeTarget, CheckAvailable, OpenSession, At, PlaceOK, ListPlace,
       Asking, Accepted, LoggingIn
  <2> QED
    BY <1>5, <2>1, <2>2, <2>3, <2>4 DEF Check
<1>6. CASE List(r)
  <2>1. CASE CountAccounts(r)
    BY <1>4, <2>1, GotoMoves DEF CountAccounts, At
  <2>2. ~NextRow(r)
    BY DEF NextRow, Listing, AsOperator, IsLogin, Op, Asking, InRows
  <2> QED
    BY <1>6, <2>1, <2>2 DEF List
<1>7. ~Write(r)
  BY DEF Write, createAccount, TargetGone, updateAccount, resetPassword,
     deleteAccount, At, PlaceOK, ListPlace, Asking, Accepted
<1> QED
  BY <1>1, <1>2, <1>3, <1>5, <1>6, <1>7 DEF Step

-----------------------------------------------------------------------------
(* The page *)

\* The rows of a page are of different accounts of those that match, as many
\* as LIMIT and OFFSET leave.
LEMMA PageRead ==
  ASSUME TypeInv, NEW r \in Requests, QueryPage(r)
  PROVE  \/ Refused(r)
         \/ /\ SameRequest(r) /\ Asking(req[r]) /\ req[r].pc = "page"
            /\ req'[r].pc = "row" /\ req'[r].seen = req[r].seen
            /\ Waiting(req'[r]) \subseteq Matching(req[r].input)
            /\ Cardinality(Waiting(req'[r]))
                 = PageLength(req[r].input, Cardinality(Matching(req[r].input)))
<1>0. req \in [Requests -> Request] /\ req[r] \in Request
  BY DEF TypeInv, TypeOK
<1> DEFINE input == req[r].input
           ids == Matching(input)
<1>1. Asking(req[r]) /\ req[r].pc = "page"
  BY DEF QueryPage, Listing, AsOperator, IsLogin, Op, At, Asking
<1>2. CASE Finish(r, "failed")
  BY <1>2, RefusedOnFinish
<1>3. ASSUME NEW page \in Pages(input),
             req' = [req EXCEPT ![r].pc = "row",
                       ![r].rows = [k \in DOMAIN page |-> SnapshotOf(page[k])]]
      PROVE  /\ SameRequest(r) /\ req'[r].pc = "row"
             /\ req'[r].seen = req[r].seen
             /\ Waiting(req'[r]) \subseteq ids
             /\ Cardinality(Waiting(req'[r])) = PageLength(input, Cardinality(ids))
  <2> DEFINE rows == [k \in DOMAIN page |-> SnapshotOf(page[k])]
  <2>1. PICK n \in 0..input.size : page \in [1..n -> ids]
    BY DEF Pages
  <2>2. /\ Len(page) = PageLength(input, Cardinality(ids))
        /\ \A k, m \in DOMAIN page : page[k] = page[m] => k = m
    BY DEF Pages
  <2>3. n \in Nat /\ DOMAIN page = 1..n
    BY <2>1
  <2>4. Len(page) = n
    BY <2>3
  <2>5. /\ req'[r].rows = rows /\ req'[r].pc = "row"
        /\ req'[r].seen = req[r].seen /\ SameRequest(r)
    <3> HIDE DEF rows
    <3>1. req' = [req EXCEPT ![r].pc = "row", ![r].rows = rows]
      BY <1>3 DEF rows
    <3> QED
      BY <1>0, <3>1 DEF SameRequest, Request
  <2>6. \A k \in 1..n : rows[k].id = page[k]
    BY <2>3 DEF SnapshotOf
  <2>7. PICK T : T = {page[k] : k \in 1..n}
    OBVIOUS
  <2>8. Waiting(req'[r]) = T
    BY <2>3, <2>5, <2>6, <2>7 DEF Waiting
  <2>9. \A k, m \in 1..n : page[k] = page[m] => k = m
    BY <2>2, <2>3
  <2>10. Cardinality(T) = n
    <3>1. page \in [1..n -> T]
      BY <2>1, <2>7
    <3>2. page \in Bijection(1..n, T)
      BY <2>7, <2>9, <3>1 DEF Bijection, Injection, Surjection, IsInjective
    <3>3. ExistsBijection(1..n, T)
      BY <3>2 DEF ExistsBijection
    <3> QED
      BY <2>3, <3>3, FS_CountingElements
  <2>11. T \subseteq ids
    BY <2>1, <2>7
  <2> QED
    BY <2>2, <2>4, <2>5, <2>8, <2>10, <2>11
<1> QED
  BY <1>1, <1>2, <1>3 DEF QueryPage

\* The next row is one of those that waited, and the others wait on.
LEMMA RowTaken ==
  ASSUME TypeInv, NEW r \in Requests, NextRow(r), ~Refused(r)
  PROVE  /\ Asking(req[r]) /\ req'[r].input = req[r].input
         /\ req'[r].operator = req[r].operator
         /\ \/ /\ req'[r].pc = "done"
               /\ Waiting(req[r]) = {} /\ Waiting(req'[r]) = {}
            \/ /\ req'[r].pc = "bindings" /\ req'[r].seen.id \in Ids
               /\ Waiting(req[r]) = Waiting(req'[r]) \cup {req'[r].seen.id}
<1>0. req \in [Requests -> Request] /\ req[r] \in Request
  BY DEF TypeInv, TypeOK
<1>1. Asking(req[r])
  BY DEF NextRow, Listing, AsOperator, IsLogin, Op, Asking
<1>2. CASE req[r].rows = <<>>
  <2>1. Finish(r, "ok")
    BY <1>2 DEF NextRow
  <2>2. req'[r].rows = <<>>
    BY <1>0, <2>1 DEF Finish, Idle
  <2> QED
    BY <1>1, <1>2, <2>1, <2>2, FinishMoves DEF Waiting
<1>3. CASE req[r].rows # <<>>
  <2> DEFINE none == <<>>
             row == Head(req[r].rows)
             rest == Tail(req[r].rows)
  <2>1. req' = [req EXCEPT ![r].pc = "bindings", ![r].roles = none,
                  ![r].seen = row, ![r].rows = rest]
    BY <1>0, <1>3 DEF NextRow, Request
  <2>2. /\ req'[r].pc = "bindings" /\ req'[r].seen = row /\ req'[r].rows = rest
        /\ SameRequest(r)
    <3> HIDE DEF none, row, rest
    <3> QED
      BY <1>0, <2>1 DEF SameRequest, Request
  <2>3. req[r].rows \in Seq(Listed)
    BY <1>0 DEF Request
  <2>4. row.id \in Ids
    BY <1>3, <2>3 DEF Listed, Snapshot
  <2>5. /\ row = req[r].rows[1] /\ 1 \in DOMAIN req[r].rows
        /\ \A k \in DOMAIN rest : /\ k + 1 \in DOMAIN req[r].rows
                                  /\ rest[k] = req[r].rows[k + 1]
        /\ \A k \in DOMAIN req[r].rows : k # 1 => k - 1 \in DOMAIN rest
                                              /\ req[r].rows[k] = rest[k - 1]
    BY <1>3, <2>3
  <2>6. Waiting(req[r]) = Waiting(req'[r]) \cup {row.id}
    <3> HIDE DEF row, rest
    <3> QED
      BY <2>2, <2>5 DEF Waiting
  <2> QED
    BY <1>1, <2>2, <2>4, <2>6 DEF SameRequest
<1> QED
  BY <1>2, <1>3

-----------------------------------------------------------------------------
(* The invariant *)

\* A page is kept when facts are added and rows go from waiting to shown.
LEMMA PageGoesOn ==
  ASSUME NEW q, NEW p, NEW V, NEW W, NEW M, PageOf(q, V, M), V \subseteq W,
         p.input = q.input,
         Waiting(p) \cup Seen("shown", W) = Waiting(q) \cup Seen("shown", V)
  PROVE  PageOf(p, W, M)
  BY DEF PageOf, Seen

\* Of other requests, and of a list that is turned down, nothing is said.
LEMMA NothingSaid ==
  ASSUME NEW p, NEW W, p.pc # "idle",
         p.input.op # "list" \/ (p.pc = "done" /\ p.outcome # "ok")
  PROVE  ListOK(p, W)
  BY DEF ListOK, ListPlace, PageTaken, Asking, InRows, Answering

LEMMA MatchedNext ==
  \A r \in Requests : Asking(req'[r]) /\ InRows(req'[r]) =>
    /\ \A i \in Matching(req[r].input)' : <<"matched", i>> \in Facts(r)'
    /\ \A i \in Ids \ Matching(req[r].input)' : <<"unmatched", i>> \in Facts(r)'
<1>1. (\A r \in Requests : Asking(req[r]) /\ InRows(req[r]) =>
         /\ \A i \in Matching(req[r].input) : <<"matched", i>> \in Facts(r)
         /\ \A i \in Ids \ Matching(req[r].input) :
              <<"unmatched", i>> \in Facts(r))'
  BY MatchedNow, PTL
<1> QED
  BY <1>1

\* The step of a list in its page.
LEMMA PageStep ==
  ASSUME TypeInv, NEW r \in Requests, PlaceOK(req[r]), NEW V, NEW W,
         ListOK(req[r], V), Asking(req[r]), InRows(req[r]), V \subseteq W,
         Step(r) \/ Fail(r),
         req[r].seen.id \in Ids => req[r].seen.id \in Seen("shown", V),
         \A i \in Ids : i \in Seen("shown", W)
           <=> \/ i \in Seen("shown", V)
               \/ /\ Asking(req'[r]) /\ InRows(req'[r])
                  /\ i = req'[r].seen.id /\ i # NoId
  PROVE  ListOK(req'[r], W)
<1>0. PICK M \in SUBSET Ids : PageOf(req[r], V, M)
  BY DEF ListOK, PageTaken
<1>1. CASE Refused(r)
  BY <1>1, NothingSaid DEF Refused
<1>2. CASE NextRow(r) /\ ~Refused(r)
  <2>1. /\ Asking(req'[r]) /\ req'[r].input = req[r].input
        /\ req'[r].pc \in {"done", "bindings"}
    BY <1>2, RowTaken DEF Asking
  <2>2. Waiting(req'[r]) \cup Seen("shown", W)
          = Waiting(req[r]) \cup Seen("shown", V)
    <3>1. CASE req'[r].pc = "done"
      <4>1. Waiting(req'[r]) = Waiting(req[r])
        BY <1>2, <3>1, RowTaken
      <4>2. Seen("shown", W) = Seen("shown", V)
        BY <3>1 DEF InRows, Seen
      <4> QED
        BY <4>1, <4>2
    <3>2. CASE req'[r].pc = "bindings"
      <4> DEFINE i == req'[r].seen.id
      <4>1. i \in Ids /\ Waiting(req[r]) = Waiting(req'[r]) \cup {i}
        BY <1>2, <3>2, RowTaken
      <4>2. i # NoId /\ InRows(req'[r])
        BY <3>2, <4>1, ConstantsAssumption DEF InRows
      <4>3. Seen("shown", W) = Seen("shown", V) \cup {i}
        BY <2>1, <4>1, <4>2 DEF Seen
      <4> QED
        BY <4>1, <4>3
    <3> QED
      BY <2>1, <3>1, <3>2
  <2>3. PageOf(req'[r], W, M)
    BY <1>0, <2>1, <2>2, PageGoesOn
  <2>4. req'[r].pc = "done" => Waiting(req'[r]) = {}
    BY <1>2, RowTaken
  <2>5. ListPlace(req'[r]) /\ (req'[r].pc # "done" => PageTaken(req'[r]))
    BY <2>1, <2>4 DEF ListPlace, PageTaken, InRows, Answering
  <2> QED
    BY <2>1, <2>3, <2>5 DEF ListOK
<1>3. CASE /\ SameRequest(r) /\ InRows(req'[r]) /\ req'[r].pc # "row"
           /\ req'[r].rows = req[r].rows /\ req'[r].seen = req[r].seen
  <2>1. Waiting(req'[r]) = Waiting(req[r])
    BY <1>3 DEF Waiting
  <2>2. Seen("shown", W) = Seen("shown", V)
    BY <1>3 DEF Seen
  <2>3. PageOf(req'[r], W, M)
    BY <1>0, <1>3, <2>1, <2>2, PageGoesOn DEF SameRequest
  <2>4. Asking(req'[r]) /\ PageTaken(req'[r]) /\ ListPlace(req'[r])
    BY <1>3 DEF SameRequest, Asking, PageTaken, ListPlace, InRows, Answering
  <2> QED
    BY <1>3, <2>3, <2>4 DEF ListOK, InRows
<1> QED
  BY <1>1, <1>2, <1>3, InThePage

\* The step of a list before its page, or the page query itself.
LEMMA EarlyStep ==
  ASSUME TypeInv, NEW r \in Requests, PlaceOK(req[r]), NEW V, NEW W,
         ListOK(req[r], V), req[r].input.op = "list", req[r].pc # "done",
         ~(Asking(req[r]) /\ InRows(req[r])), Step(r) \/ Fail(r),
         Going(req'[r]) => Facts(r)' \subseteq W,
         \A i \in Ids : i \in Seen("shown", W)
           <=> \/ i \in Seen("shown", V)
               \/ /\ Asking(req'[r]) /\ InRows(req'[r])
                  /\ i = req'[r].seen.id /\ i # NoId
  PROVE  ListOK(req'[r], W)
<1>0. Seen("shown", V) = {} /\ ListPlace(req[r])
  BY DEF ListOK, PageTaken, Answering
<1>1. CASE Refused(r)
  BY <1>1, NothingSaid DEF Refused
<1>2. CASE /\ req'[r].input = req[r].input /\ req'[r].pc \notin {"done", "idle"}
           /\ ~(Asking(req'[r]) /\ InRows(req'[r])) /\ ListPlace(req'[r])
  <2>1. Seen("shown", W) = {}
    BY <1>0, <1>2 DEF Seen
  <2> QED
    BY <1>2, <2>1 DEF ListOK, PageTaken, Answering
<1>3. CASE QueryPage(r) /\ ~Refused(r)
  <2>1. /\ SameRequest(r) /\ Asking(req[r]) /\ req[r].pc = "page"
        /\ req'[r].pc = "row" /\ req'[r].seen = req[r].seen
        /\ Waiting(req'[r]) \subseteq Matching(req[r].input)
        /\ Cardinality(Waiting(req'[r]))
             = PageLength(req[r].input, Cardinality(Matching(req[r].input)))
    BY <1>3, PageRead
  <2>2. Asking(req'[r]) /\ InRows(req'[r]) /\ Going(req'[r])
    BY <2>1 DEF SameRequest, Asking, InRows, Going
  <2>3. req'[r].seen.id = NoId
    BY <1>0, <2>1 DEF ListPlace
  <2>4. Seen("shown", W) = {}
    BY <1>0, <2>3 DEF Seen
  <2>5. Matching(req[r].input)' = Matching(req[r].input)
    BY <1>3, <2>1 DEF QueryPage, tables, Matching, Live, SameRequest
  <2>6. PICK M : M = Matching(req[r].input)
    OBVIOUS
  <2>7. M \in SUBSET Ids
    BY <2>6 DEF Matching, Live
  <2>8. M \subseteq Seen("matched", W) /\ Ids \ M \subseteq Seen("unmatched", W)
    BY <2>2, <2>5, <2>6, <2>7, MatchedNext DEF Seen
  <2>9. Waiting(req'[r]) \cup Seen("shown", W) = Waiting(req'[r])
    BY <2>4
  <2>10. PageOf(req'[r], W, M)
    BY <2>1, <2>6, <2>8, <2>9 DEF PageOf, SameRequest
  <2>11. ListPlace(req'[r]) /\ PageTaken(req'[r])
    BY <2>1, <2>2, <2>3 DEF ListPlace, PageTaken, Answering
  <2> QED
    BY <2>1, <2>7, <2>10, <2>11 DEF ListOK
<1> QED
  BY <1>0, <1>1, <1>2, <1>3, BeforeThePage


LEMMA ListStep ==
  ASSUME PageInv, [HNext]_hvars
  PROVE  PageInv'
<1>1. [Next]_vars /\ TypeInv /\ HInv'
  BY HNextIsNext, HStepInv DEF PageInv, HInv
<1>2. ASSUME NEW r \in Requests
      PROVE  ListOK(req'[r], witness'[r])
  <2>0. req \in [Requests -> Request] /\ req[r] \in Request
    BY <1>1 DEF TypeInv, TypeOK
  <2>1. PICK V : V = witness[r]
    OBVIOUS
  <2>2. PICK W : W = witness'[r]
    OBVIOUS
  <2>3. /\ ListOK(req[r], V) /\ PlaceOK(req[r])
        /\ Going(req[r]) => Facts(r) \subseteq V
    BY <2>1 DEF PageInv, HInv, EvidenceKept, Kept, WitnessedNow
  <2>4. PlaceOK(req'[r]) /\ (Going(req'[r]) => Facts(r)' \subseteq W)
    BY <1>1, <2>2 DEF HInv, EvidenceKept, Kept, WitnessedNow, PlaceOK, Going,
       LoggingIn, Accepted
  <2>5. CASE UNCHANGED hvars
    <3>1. req'[r] = req[r] /\ W = V
      BY <2>1, <2>2, <2>5 DEF hvars, vars
    <3> QED
      BY <2>2, <2>3, <3>1
  <2>6. CASE HNext /\ (req'[r].pc = "idle" \/ req'[r].outcome \notin {"none", "ok"})
    <3>1. W = {}
      BY <2>2, <2>6 DEF HNext, Observe
    <3>2. req'[r].pc \in {"idle", "done"} /\ ~Answering(req'[r])
      BY <2>4, <2>6 DEF PlaceOK, Answering
    <3>3. ListOK(req'[r], W)
      BY <3>1, <3>2 DEF ListOK, ListPlace, PageTaken, Asking, InRows, Seen
    <3> QED
      BY <2>2, <3>3
  <2>7. CASE HNext /\ req'[r].pc # "idle" /\ req'[r].outcome \in {"none", "ok"}
    <3>1. V \subseteq W
      BY <2>1, <2>2, <2>7, WitnessGrows
    <3>2. \A i \in Ids : i \in Seen("shown", W)
            <=> \/ i \in Seen("shown", V)
                \/ /\ Asking(req'[r]) /\ InRows(req'[r])
                   /\ i = req'[r].seen.id /\ i # NoId
      BY <2>1, <2>2, <2>7, ShownAfter DEF Seen
    <3>3. Asking(req[r]) /\ InRows(req[r]) /\ req[r].seen.id \in Ids
            => req[r].seen.id \in Seen("shown", V)
      BY <2>3, ShownNow, ConstantsAssumption DEF Seen, Going, InRows
    <3>4. CASE req'[r] = req[r]
      <4>1. Seen("shown", W) = Seen("shown", V)
        BY <3>2, <3>3, <3>4 DEF Seen
      <4>2. PageTaken(req[r]) => \E M \in SUBSET Ids : PageOf(req[r], W, M)
        BY <2>3, <3>1, <4>1, PageGoesOn DEF ListOK
      <4>3. ListOK(req[r], W)
        BY <2>3, <2>7, <3>4, <4>1, <4>2 DEF ListOK
      <4> QED
        BY <2>2, <3>4, <4>3
    <3>5. CASE Start(r)
      <4>1. PICK input \in Inputs :
              req' = [req EXCEPT ![r].pc = "query", ![r].input = input]
        BY <3>5 DEF Start, Arrive
      <4>2. req[r].pc = "idle" /\ V = {} /\ req[r].operator = NoId
        BY <2>3, <3>5 DEF Start, Arrive, At, ListOK, PlaceOK
      <4>3. req'[r].pc = "query" /\ req'[r].operator = NoId
        BY <2>0, <4>1, <4>2 DEF Request
      <4>4. Seen("shown", W) = {}
        BY <3>2, <4>2, <4>3 DEF Seen, InRows
      <4>5. ListOK(req'[r], W)
        BY <4>3, <4>4 DEF ListOK, ListPlace, PageTaken, Asking, Answering
      <4> QED
        BY <2>2, <4>5
    <3>6. ~Reply(r)
      <4>1. Reply(r) => req'[r] = Idle
        BY <2>0 DEF Reply
      <4> QED
        BY <2>7, <4>1 DEF Idle
    <3>7. CASE Step(r) \/ Fail(r)
      <4>1. req'[r].input = req[r].input
        BY <1>1, <3>7, InputStays, FinishMoves DEF Fail
      <4>2. CASE req[r].input.op # "list"
        BY <2>7, <4>1, <4>2, NothingSaid
      <4>3. CASE Asking(req[r]) /\ InRows(req[r])
        <5>1. ListOK(req'[r], W)
          BY <1>1, <2>3, <3>1, <3>2, <3>3, <3>7, <4>3, PageStep
        <5> QED
          BY <2>2, <5>1
      <4>4. CASE /\ req[r].input.op = "list"
                 /\ ~(Asking(req[r]) /\ InRows(req[r]))
        <5>1. req[r].pc # "done"
          BY <3>7, NotWhenDone
        <5>2. ListOK(req'[r], W)
          BY <1>1, <2>3, <2>4, <3>2, <3>7, <4>4, <5>1, EarlyStep
        <5> QED
          BY <2>2, <5>2
      <4> QED
        BY <4>2, <4>3, <4>4 DEF Asking
    <3> QED
      BY <1>1, <3>4, <3>5, <3>6, <3>7, OthersKeep
  <2> QED
    BY <2>5, <2>6, <2>7
<1> QED
  BY <1>1, <1>2 DEF PageInv, ListOK, ListPlace, PageTaken, Asking, InRows,
     Answering, PageOf, Waiting, Seen


LEMMA ListInvariant == HSpec => []PageInv
<1>1. HInit => PageInv
  <2> SUFFICES ASSUME HInit PROVE PageInv
    OBVIOUS
  <2>1. \A r \in Requests : req[r] = Idle /\ witness[r] = {}
    BY DEF HInit, Init
  <2>2. \A r \in Requests : ListOK(req[r], witness[r])
    BY <2>1 DEF ListOK, ListPlace, PageTaken, Asking, InRows, Answering, Idle,
       NoInput
  <2> QED
    BY <2>2, HInitInv DEF PageInv
<1>2. PageInv /\ [HNext]_hvars => PageInv'
  BY ListStep
<1> QED
  BY <1>1, <1>2, PTL DEF HSpec
-----------------------------------------------------------------------------
(* What is promised *)

\* As many accounts are shown as the page takes of those that matched when it
\* was read, which are at least those that matched throughout and at most those
\* that ever matched.
LEMMA PageBounds ==
  ASSUME NEW input \in Inputs, input.op = "list",
         (input.page - 1) * input.size < 2^(IntBits - 1),
         NEW always, NEW M \in SUBSET Ids, NEW ever \in SUBSET Ids,
         always \subseteq M, M \subseteq ever
  PROVE  /\ PageLength(input, Cardinality(always))
              <= PageLength(input, Cardinality(M))
         /\ PageLength(input, Cardinality(M))
              <= PageLength(input, Cardinality(ever))
<1>1. IsFiniteSet(ever) /\ IsFiniteSet(M) /\ IsFiniteSet(always)
  BY IdsAssumption, FS_Subset
<1>2. /\ Cardinality(always) <= Cardinality(M)
      /\ Cardinality(M) <= Cardinality(ever)
  BY <1>1, FS_Subset
<1>3. /\ Cardinality(always) \in Nat /\ Cardinality(M) \in Nat
      /\ Cardinality(ever) \in Nat
  BY <1>1, FS_CardinalityType
<1>4. Offset(input) \in Nat /\ input.size \in Nat
  BY OffsetExact, PagesFromOne
<1> QED
  BY <1>2, <1>3, <1>4, LengthGrows

\* A list answers its page although it reads its rows one after the other while
\* accounts come, go and change: of what the page query saw, which the evidence
\* of the request bounds from both sides.
THEOREM ListsAnswerTheirPage == HSpec => []ListAnswersItsPage
<1>1. PageInv => ListAnswersItsPage
  <2> SUFFICES ASSUME PageInv, NEW r \in Requests, Op(r) = "list",
                      req[r].outcome = "ok"
               PROVE  LET input == req[r].input
                          skipped == (input.page - 1) * input.size
                          Witnessed(fact) ==
                            {i \in Ids : <<fact, i>> \in witness[r]}
                          ShownOf(n) ==
                            IF n <= skipped THEN 0
                            ELSE IF n - skipped < input.size THEN n - skipped
                            ELSE input.size
                          always == Witnessed("matched") \ Witnessed("unmatched")
                      IN /\ Witnessed("shown") \subseteq Witnessed("matched")
                         /\ skipped < 2^(IntBits - 1) =>
                              /\ Cardinality(Witnessed("shown"))
                                   >= ShownOf(Cardinality(always))
                              /\ Cardinality(Witnessed("shown"))
                                   <= ShownOf(Cardinality(Witnessed("matched")))
    BY DEF ListAnswersItsPage
  <2> DEFINE input == req[r].input
             skipped == (input.page - 1) * input.size
             shown == Seen("shown", witness[r])
             ever == Seen("matched", witness[r])
             always == ever \ Seen("unmatched", witness[r])
  <2>1. /\ req[r] \in Request /\ PlaceOK(req[r])
        /\ ListOK(req[r], witness[r]) /\ input.op = "list"
    BY DEF PageInv, HInv, TypeInv, TypeOK, EvidenceKept, Kept, Op
  <2>2. input \in Inputs
    BY <2>1 DEF Request, NoInput
  <2>3. PageTaken(req[r])
    BY <2>1 DEF PlaceOK, ListOK, ListPlace, PageTaken, Answering
  <2>4. PICK M \in SUBSET Ids : PageOf(req[r], witness[r], M)
    BY <2>1, <2>3 DEF ListOK
  <2>5. Waiting(req[r]) = {}
    BY <2>1, <2>3 DEF ListOK, ListPlace, PageTaken, PlaceOK, Answering
  <2>6. /\ shown \subseteq M /\ M \subseteq ever /\ always \subseteq M
        /\ Cardinality(shown) = PageLength(input, Cardinality(M))
    BY <2>4, <2>5 DEF PageOf, Seen
  <2>7. ASSUME skipped < 2^(IntBits - 1)
        PROVE  /\ Cardinality(shown) >= PageLength(input, Cardinality(always))
               /\ Cardinality(shown) <= PageLength(input, Cardinality(ever))
               /\ Offset(input) = skipped
    <3>1. ever \in SUBSET Ids
      BY DEF Seen
    <3>2. /\ PageLength(input, Cardinality(always)) <= Cardinality(shown)
          /\ Cardinality(shown) <= PageLength(input, Cardinality(ever))
      <4> HIDE DEF always, ever
      <4> QED
        BY <2>1, <2>2, <2>6, <2>7, <3>1, PageBounds
    <3> QED
      BY <2>1, <2>2, <2>7, <3>2, OffsetExact
  <2> DEFINE ShownOf(n) == IF n <= skipped THEN 0
                           ELSE IF n - skipped < input.size THEN n - skipped
                           ELSE input.size
  <2>8. ASSUME skipped < 2^(IntBits - 1)
        PROVE  /\ Cardinality(shown) >= ShownOf(Cardinality(always))
               /\ Cardinality(shown) <= ShownOf(Cardinality(ever))
    <3>1. \A n : PageLength(input, n) = ShownOf(n)
      BY <2>7, <2>8 DEF PageLength
    <3> QED
      BY <2>7, <2>8, <3>1
  <2>9. shown \subseteq ever
    BY <2>6
  <2> QED
    BY <2>8, <2>9 DEF Seen
<1> QED
  BY <1>1, ListInvariant, PTL
=============================================================================
