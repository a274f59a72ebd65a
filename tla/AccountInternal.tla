---------------------------- MODULE AccountInternal ----------------------------
(***************************************************************************)
(* The internal endpoints: method calls, scheduled tasks triggered by hand *)
(* and the self test, which serves the requests of its cases on its own    *)
(* goroutine, through the same handlers. Every goroutine has a stack of    *)
(* handlers, the first for a request of the runtime, the next for a case.  *)
(*                                                                         *)
(* What CreateTemporaryAdmin does is in AccountService; here it succeeds,  *)
(* fails or panics. Business handlers answer a case, as it expects or not, *)
(* or panic. Of templates, paths and the texts of answers only one thing   *)
(* is kept: that working on them may panic.                                *)
(***************************************************************************)
EXTENDS Integers, Sequences, FiniteSets

CONSTANTS
  Clients,   \* goroutines of net/http
  Requests,  \* what the runtime passes on, with its verdict
  Suite,     \* the cases of tests/*.test.json, in their order
  NoOne

\* mark is X-Internal-Authenticated; "" is a header or variable that is absent.
Request == [route : {"selftest", "trigger", "method", "business", "unrouted"},
            body : {"malformed", "unknown", "known"},
            token : {"", "internal", "invalid", "secret"}, mark : BOOLEAN]

Answers == {"unauthorized", "bad", "missing", "stream", "ok", "error", "panic"}

\* fragile: its request or what it expects may not be made without a panic (a
\* query httptest.NewRequest refuses, a template that panics).
Case == [kind : {"http", "sse", "websocket", "file_upload"},
         request : Request, expect : SUBSET Answers, fragile : BOOLEAN]

ASSUME InternalAssumption ==
  Suite \in Seq(Case) /\ Requests \subseteq Request /\ NoOne \notin Clients

VARIABLES
  runtimeToken,  \* RUNTIME_INTERNAL_TOKEN
  selftestMu, triggerMu,
  stack,         \* the handlers a goroutine is in, the innermost last
  answered       \* what its last request was answered, until the next, and
                 \* the results there were (an error does not show them)

ivars == <<runtimeToken, selftestMu, triggerMu, stack, answered>>

\* results: of the cases run so far.
Frame == [request : Request, pc : {"begin", "call", "lock", "task", "cases"},
          results : Seq(BOOLEAN)]

Handler(request) == [request |-> request, pc |-> "begin", results |-> <<>>]

NothingYet == [route |-> "business", answer |-> "ok", results |-> <<>>]

IInit ==
  /\ runtimeToken \in {"", "secret"}
  /\ selftestMu = NoOne /\ triggerMu = NoOne
  /\ stack = [c \in Clients |-> <<>>]
  /\ answered = [c \in Clients |-> NothingYet]

Top(c) == stack[c][Len(stack[c])]
Under(c) == SubSeq(stack[c], 1, Len(stack[c]) - 1)
At(c, pc) == stack[c] # <<>> /\ Top(c).pc = pc
Route(c) == Top(c).request.route
Internal == {"selftest", "trigger", "method"}

Goto(c, pc) ==
  /\ stack' = [stack EXCEPT ![c] = Append(Under(c), [Top(c) EXCEPT !.pc = pc])]
  /\ UNCHANGED answered

CaseOf(frame) == Suite[Len(frame.results) + 1]

\* runSingleCase, once it has an answer.
Compared(frame, answer) ==
  [frame EXCEPT !.results = Append(@, answer \in CaseOf(frame).expect)]

\* The innermost handler returns: to the self test that called it or, from
\* the outermost, to the runtime.
Answer(c, answer) ==
  LET under == Under(c)
      caller == under[Len(under)]
  IN IF under = <<>>
     THEN /\ stack' = [stack EXCEPT ![c] = <<>>]
          /\ answered' = [answered EXCEPT ![c] =
               [route |-> Route(c), answer |-> answer,
                results |-> Top(c).results]]
     ELSE /\ stack' = [stack EXCEPT ![c] =
               [under EXCEPT ![Len(under)] = Compared(caller, answer)]]
          /\ UNCHANGED answered
-----------------------------------------------------------------------------
(* Every handler *)

Receive(c) ==
  /\ stack[c] = <<>>
  /\ \E request \in Requests :
       stack' = [stack EXCEPT ![c] = <<Handler(request)>>]
  /\ answered' = [answered EXCEPT ![c] = NothingYet]
  /\ UNCHANGED <<runtimeToken, selftestMu, triggerMu>>

Refuse(c) ==
  /\ At(c, "begin") /\ Route(c) \in Internal /\ ~Top(c).request.mark
  /\ Answer(c, "unauthorized")
  /\ UNCHANGED <<runtimeToken, selftestMu, triggerMu>>

\* Mutation of Reject: what was asked comes back instead of an error.
RejectEchoes(c) ==
  /\ At(c, "begin") /\ Route(c) \in {"trigger", "method"}
  /\ Top(c).request.mark /\ Top(c).request.body # "known"
  /\ Answer(c, Top(c).request.body)
  /\ UNCHANGED <<runtimeToken, selftestMu, triggerMu>>

\* A body that does not parse or names no task or method.
Reject(c) ==
  /\ At(c, "begin") /\ Route(c) \in {"trigger", "method"}
  /\ Top(c).request.mark /\ Top(c).request.body # "known"
  /\ Answer(c, CASE Route(c) = "method" -> "error"
                 [] Top(c).request.body = "malformed" -> "bad"
                 [] Top(c).request.body = "unknown" -> "missing")
  /\ UNCHANGED <<runtimeToken, selftestMu, triggerMu>>

Dispatch(c) ==
  /\ At(c, "begin") /\ Route(c) \in Internal /\ Top(c).request.mark
  /\ Route(c) # "selftest" => Top(c).request.body = "known"
  /\ Goto(c, IF Route(c) = "method" THEN "call" ELSE "lock")
  /\ UNCHANGED <<runtimeToken, selftestMu, triggerMu>>

\* The method succeeds, or fails or panics.
CallMethod(c) ==
  /\ At(c, "call")
  /\ \E answer \in {"ok", "error"} : Answer(c, answer)
  /\ UNCHANGED <<runtimeToken, selftestMu, triggerMu>>

\* Mutation of Business: a panic is not recovered where the case is run, but
\* by handleSelftestInternal.
BusinessPanicUnwinds(c) ==
  /\ At(c, "begin") /\ Route(c) = "business"
  /\ \/ /\ \E answer \in {"ok", "error"} : Answer(c, answer)
        /\ UNCHANGED selftestMu
     \/ /\ stack' = [stack EXCEPT ![c] = <<>>]
        /\ answered' = [answered EXCEPT ![c] =
             [route |-> "selftest", answer |-> "error",
              results |-> stack[c][1].results]]
        /\ selftestMu' = NoOne
  /\ UNCHANGED <<runtimeToken, triggerMu>>

\* A case on another endpoint. runSingleCase recovers from its panic.
Business(c) ==
  /\ At(c, "begin") /\ Route(c) = "business"
  /\ \E answer \in {"ok", "error", "panic"} : Answer(c, answer)
  /\ UNCHANGED <<runtimeToken, selftestMu, triggerMu>>
-----------------------------------------------------------------------------
(* The trigger *)

LockTrigger(c) ==
  /\ At(c, "lock") /\ Route(c) = "trigger" /\ triggerMu = NoOne
  /\ triggerMu' = c
  /\ Goto(c, "task")
  /\ UNCHANGED <<runtimeToken, selftestMu>>

\* Mutation of RunTask: Unlock after the task instead of deferred.
RunTaskUnlockAfter(c) ==
  /\ At(c, "task")
  /\ \E panics \in BOOLEAN :
       triggerMu' = IF panics THEN triggerMu ELSE NoOne
  /\ Answer(c, "stream")
  /\ UNCHANGED <<runtimeToken, selftestMu>>

\* Whether the task succeeds, fails or panics, a line of the stream says so.
RunTask(c) ==
  /\ At(c, "task")
  /\ triggerMu' = NoOne
  /\ Answer(c, "stream")
  /\ UNCHANGED <<runtimeToken, selftestMu>>
-----------------------------------------------------------------------------
(* The self test *)

LockSelftest(c) ==
  /\ At(c, "lock") /\ Route(c) = "selftest" /\ selftestMu = NoOne
  /\ selftestMu' = c
  /\ Goto(c, "cases")
  /\ UNCHANGED <<runtimeToken, triggerMu>>

\* Mutation of Marked: an absent token equals an absent variable.
MarkedEmpty(request) ==
  LET token == IF request.token = "internal" THEN runtimeToken
               ELSE request.token
  IN [request EXCEPT !.token = token, !.mark = token = runtimeToken]

\* markSelftestRuntimeInternalRequest, after ${internal_token} is replaced.
Marked(request) ==
  LET token == IF request.token = "internal" THEN runtimeToken
               ELSE request.token
  IN [request EXCEPT !.token = token,
                     !.mark = token # "" /\ token = runtimeToken]

Remaining(c) == At(c, "cases") /\ Len(Top(c).results) < Len(Suite)

\* Cases of other kinds are left to the test page and count as passed; a case
\* without a handler for its method and path fails.
SkipCase(c) ==
  /\ Remaining(c)
  /\ LET case == CaseOf(Top(c)) IN
       /\ case.kind # "http" \/ case.request.route = "unrouted"
       /\ stack' = [stack EXCEPT ![c] = Append(Under(c),
            [Top(c) EXCEPT !.results = Append(@, case.kind # "http")])]
  /\ UNCHANGED <<runtimeToken, selftestMu, triggerMu, answered>>

RunCase(c) ==
  /\ Remaining(c)
  /\ LET case == CaseOf(Top(c)) IN
       /\ case.kind = "http" /\ case.request.route # "unrouted"
       /\ stack' = [stack EXCEPT ![c] =
                      Append(@, Handler(Marked(case.request)))]
  /\ UNCHANGED <<runtimeToken, selftestMu, triggerMu, answered>>

Report(c) ==
  /\ At(c, "cases") /\ ~Remaining(c)
  /\ selftestMu' = NoOne
  /\ Answer(c, "ok")
  /\ UNCHANGED <<runtimeToken, triggerMu>>

\* The request of the case that is next, or what the last one expects, is not
\* made: runSingleCase recovers from what its handler does, and no more. The
\* panic ends the whole self test, which answers the error alone.
Unmade(n) == \E k \in {n, n + 1} \cap 1..Len(Suite) :
               Suite[k].kind = "http" /\ Suite[k].fragile

SuiteUnwinds(c) ==
  /\ At(c, "cases") /\ Unmade(Len(Top(c).results))
  /\ selftestMu' = NoOne
  /\ Answer(c, "error")
  /\ UNCHANGED <<runtimeToken, triggerMu>>

Work(c) ==
  \/ Refuse(c) \/ Reject(c) \/ Dispatch(c) \/ CallMethod(c) \/ Business(c)
  \/ RunTask(c) \/ SkipCase(c) \/ RunCase(c) \/ Report(c) \/ SuiteUnwinds(c)

INext ==
  \E c \in Clients : Receive(c) \/ Work(c) \/ LockTrigger(c) \/ LockSelftest(c)

ISpec == IInit /\ [][INext]_ivars

\* Handlers return. A goroutine that waits for a sync.Mutex gets it in the end:
\* after a millisecond the mutex is handed over in order of arrival.
IFairness ==
  \A c \in Clients : /\ WF_ivars(Work(c))
                     /\ SF_ivars(LockTrigger(c)) /\ SF_ivars(LockSelftest(c))

IFairSpec == ISpec /\ IFairness
-----------------------------------------------------------------------------
(* What is promised *)

ITypeOK ==
  /\ runtimeToken \in {"", "secret"}
  /\ selftestMu \in Clients \cup {NoOne} /\ triggerMu \in Clients \cup {NoOne}
  /\ stack \in [Clients -> Seq(Frame)]
  /\ answered \in [Clients -> [route : {"selftest", "trigger", "method",
                                        "business", "unrouted"},
                               answer : Answers, results : Seq(BOOLEAN)]]

\* A mutex is held by the goroutine that has a handler between Lock and Unlock,
\* and only by it: one suite and one task at a time, and whatever panics or is
\* refused inside, the mutex is free once the handler is over.
InSuite(c) == \E k \in DOMAIN stack[c] : stack[c][k].pc = "cases"
InTask(c) == \E k \in DOMAIN stack[c] : stack[c][k].pc = "task"
MutexesMatch ==
  \A c \in Clients : /\ selftestMu = c <=> InSuite(c)
                     /\ triggerMu = c <=> InTask(c)

\* A case gets past the check of an internal endpoint only with the token of
\* the environment, and never when that has none.
CasesAuthenticated ==
  \A c \in Clients : \A k \in DOMAIN stack[c] :
    k > 1 /\ stack[c][k].pc # "begin" =>
      /\ stack[c][k].request.token = runtimeToken
      /\ runtimeToken # ""

\* Whatever the handlers of its cases do, a self test that was let in ends with
\* a report on every case, in which the cases that do not depend on business
\* handlers (left to the test page, or refused) have passed. A panicking
\* handler fails its case alone; the self test fails as a whole only where the
\* request or the expectation of a case cannot be made.
Foreseeable(case) ==
  \/ case.kind # "http"
  \/ /\ case.request.route \in Internal /\ case.expect = {"unauthorized"}
     /\ case.request.token \in {"", "invalid"}
ReportsComplete ==
  \A c \in Clients :
    LET a == answered[c] IN
    a.route = "selftest" /\ a.answer # "unauthorized" =>
      \/ /\ a.answer = "ok" /\ Len(a.results) = Len(Suite)
         /\ \A k \in 1..Len(Suite) : Foreseeable(Suite[k]) => a.results[k]
      \/ a.answer = "error" /\ Unmade(Len(a.results))

\* Every request is answered: no goroutine waits for ever, not even a self
\* test with cases on the self test's own endpoint.
EveryRequestAnswered ==
  \A c \in Clients : stack[c] # <<>> ~> stack[c] = <<>>
=============================================================================
