------------------------- MODULE AccountInternalProofs -------------------------
(***************************************************************************)
(* The safety properties of AccountInternal, for any number of goroutines  *)
(* and any suite. The inductive invariant InternalInv says what a stack of *)
(* handlers can look like: it has at most two, since the mutex keeps a     *)
(* second self test out, and the second serves the case the first is at.   *)
(***************************************************************************)
EXTENDS AccountInternal, SequenceTheorems, TLAPS

\* The cases run so far that depend on no business handler have passed.
PassedSoFar(results) ==
  \A k \in 1..Len(results) : Foreseeable(Suite[k]) => results[k]

\* A handler is past its dispatch only on its own route.
FrameOK(f) ==
  /\ f.pc = "call" => f.request.route = "method"
  /\ f.pc = "lock" => f.request.route \in {"trigger", "selftest"}
  /\ f.pc = "task" => f.request.route = "trigger"
  /\ f.pc = "cases" => f.request.route = "selftest"
  /\ f.pc # "cases" => f.results = <<>>
  /\ Len(f.results) <= Len(Suite)
  /\ PassedSoFar(f.results)

\* A handler under another is a self test, the other serves its current case.
Nested(f, g) ==
  /\ f.pc = "cases" /\ Len(f.results) < Len(Suite)
  /\ CaseOf(f).kind = "http"
  /\ g.request = Marked(CaseOf(f).request)
  /\ g.pc # "cases"
  /\ g.pc # "begin" => g.request.mark

StackOK(s) ==
  /\ Len(s) \in {0, 1, 2}
  /\ \A k \in 1..Len(s) : FrameOK(s[k])
  /\ Len(s) = 2 => Nested(s[1], s[2])

\* What ReportsComplete says of one answer.
AnswerOK(a) ==
  a.route = "selftest" /\ a.answer # "unauthorized" =>
    \/ /\ a.answer = "ok" /\ Len(a.results) = Len(Suite)
       /\ \A k \in 1..Len(Suite) : Foreseeable(Suite[k]) => a.results[k]
    \/ a.answer = "error" /\ Unmade(Len(a.results))

InternalInv ==
  /\ ITypeOK
  /\ MutexesMatch
  /\ \A c \in Clients : StackOK(stack[c]) /\ AnswerOK(answered[c])
-----------------------------------------------------------------------------
(* Stacks *)

\* A stack of one sound handler, and of two of which the first is at its case.
LEMMA StackOfOne ==
  ASSUME NEW s, Len(s) = 1, FrameOK(s[1])
  PROVE  StackOK(s)
  <1>1. \A k \in 1..Len(s) : k = 1  OBVIOUS
  <1> QED  BY <1>1 DEF StackOK

LEMMA StackOfTwo ==
  ASSUME NEW s, Len(s) = 2, FrameOK(s[1]), FrameOK(s[2]), Nested(s[1], s[2])
  PROVE  StackOK(s)
  <1>1. \A k \in 1..Len(s) : k = 1 \/ k = 2  OBVIOUS
  <1> QED  BY <1>1 DEF StackOK

\* Replacing the last element.
LEMMA SwapLast ==
  ASSUME NEW S, NEW s \in Seq(S), s # <<>>, NEW f \in S
  PROVE  LET t == Append(SubSeq(s, 1, Len(s) - 1), f) IN
         /\ t \in Seq(S) /\ Len(t) = Len(s) /\ t[Len(s)] = f
         /\ \A k \in 1..(Len(s) - 1) : t[k] = s[k]
  <1> DEFINE u == SubSeq(s, 1, Len(s) - 1)
  <1>1. Len(s) \in Nat \ {0} /\ \A k \in 1..(Len(s) - 1) : s[k] \in S
    BY EmptySeq
  <1>2. u \in Seq(S) /\ Len(u) = Len(s) - 1 /\ \A k \in 1..(Len(s) - 1) : u[k] = s[k]
    <2> DEFINE n == Len(s) - 1
    <2>1. n \in Nat /\ \A k \in 1..n : s[k] \in S
      BY <1>1
    <2> HIDE DEF n
    <2>2. LET v == SubSeq(s, 1, n) IN
            /\ v \in Seq(S) /\ Len(v) = IF 1 <= n THEN n - 1 + 1 ELSE 0
            /\ \A k \in 1..(n - 1 + 1) : v[k] = s[1 + k - 1]
      BY <2>1, SubSeqProperties
    <2>3. \A k \in 1..n : 1 + k - 1 = k
      BY <2>1
    <2>4. LET v == SubSeq(s, 1, n) IN
            v \in Seq(S) /\ Len(v) = n /\ \A k \in 1..n : v[k] = s[k]
      BY <2>1, <2>2, <2>3
    <2> QED  BY <2>4 DEF n
  <1> HIDE DEF u
  <1>3. LET t == Append(u, f) IN
          /\ t \in Seq(S) /\ Len(t) = Len(s) /\ t[Len(s)] = f
          /\ \A k \in 1..(Len(s) - 1) : t[k] = s[k]
    BY <1>1, <1>2
  <1> QED  BY <1>3 DEF u

\* A stack that is one or two handlers deep.
LEMMA Depth ==
  ASSUME ITypeOK, NEW c \in Clients, StackOK(stack[c]), stack[c] # <<>>
  PROVE  /\ stack[c] \in Seq(Frame) /\ Len(stack[c]) \in {1, 2}
         /\ Top(c) = stack[c][Len(stack[c])] /\ Top(c) \in Frame
         /\ FrameOK(Top(c)) /\ stack[c][1] \in Frame /\ FrameOK(stack[c][1])
  <1>1. stack[c] \in Seq(Frame)
    BY DEF ITypeOK
  <1>2. Len(stack[c]) \in {1, 2}
    BY <1>1, EmptySeq DEF StackOK
  <1>3. {1, Len(stack[c])} \subseteq 1..Len(stack[c])
    BY <1>2
  <1>4. \A k \in 1..Len(stack[c]) : stack[c][k] \in Frame /\ FrameOK(stack[c][k])
    BY <1>1 DEF StackOK
  <1> QED  BY <1>1, <1>2, <1>3, <1>4 DEF Top

LEMMA GotoEffect ==
  ASSUME ITypeOK, NEW c \in Clients, StackOK(stack[c]), stack[c] # <<>>,
         NEW pc \in {"begin", "call", "lock", "task", "cases"}, Goto(c, pc)
  PROVE  /\ stack' \in [Clients -> Seq(Frame)]
         /\ Len(stack'[c]) = Len(stack[c])
         /\ stack'[c][Len(stack[c])] = [Top(c) EXCEPT !.pc = pc]
         /\ Len(stack[c]) = 2 => stack'[c][1] = stack[c][1]
         /\ \A d \in Clients \ {c} : stack'[d] = stack[d]
         /\ answered' = answered
  <1>1. [Top(c) EXCEPT !.pc = pc] \in Frame
    BY Depth DEF Frame
  <1>2. stack'[c] = Append(SubSeq(stack[c], 1, Len(stack[c]) - 1),
                           [Top(c) EXCEPT !.pc = pc])
    BY DEF Goto, Under, ITypeOK
  <1>3. stack[c] \in Seq(Frame)  BY Depth
  <1>4. /\ stack'[c] \in Seq(Frame) /\ Len(stack'[c]) = Len(stack[c])
        /\ stack'[c][Len(stack[c])] = [Top(c) EXCEPT !.pc = pc]
        /\ \A k \in 1..(Len(stack[c]) - 1) : stack'[c][k] = stack[c][k]
    BY <1>1, <1>2, <1>3, SwapLast
  <1>5. Len(stack[c]) = 2 => 1 \in 1..(Len(stack[c]) - 1)  OBVIOUS
  <1>6. /\ stack' \in [Clients -> Seq(Frame)]
        /\ \A d \in Clients \ {c} : stack'[d] = stack[d]
        /\ answered' = answered
    BY <1>4 DEF Goto, ITypeOK
  <1> QED  BY <1>4, <1>5, <1>6

\* The outermost handler answers the runtime.
LEMMA AnswerOutermost ==
  ASSUME ITypeOK, NEW c \in Clients, Len(stack[c]) = 1, NEW answer \in Answers,
         Answer(c, answer)
  PROVE  /\ stack' = [stack EXCEPT ![c] = <<>>]
         /\ answered' = [answered EXCEPT ![c] =
              [route |-> Route(c), answer |-> answer, results |-> Top(c).results]]
  <1>1. Under(c) = <<>>
    BY SubSeqEmpty DEF Under
  <1> QED  BY <1>1 DEF Answer

\* A case's handler answers the self test.
LEMMA AnswerCase ==
  ASSUME ITypeOK, NEW c \in Clients, Len(stack[c]) = 2, NEW answer \in Answers,
         Answer(c, answer)
  PROVE  /\ stack' = [stack EXCEPT ![c] = <<Compared(stack[c][1], answer)>>]
         /\ answered' = answered
  <1>1. stack[c] \in Seq(Frame)  BY DEF ITypeOK
  <1>2. Under(c) = <<stack[c][1]>>
    <2>1. /\ Under(c) \in Seq(Frame) /\ Len(Under(c)) = 1
          /\ Under(c)[1] = stack[c][1]
      BY <1>1, SubSeqProperties DEF Under
    <2>2. \A k \in 1..1 : k = 1  OBVIOUS
    <2>3. /\ <<stack[c][1]>> \in Seq(Frame) /\ Len(<<stack[c][1]>>) = 1
          /\ <<stack[c][1]>>[1] = stack[c][1]
      BY <1>1
    <2> QED  BY <2>1, <2>2, <2>3, SeqEqual
  <1>3. Under(c) # <<>> /\ Len(Under(c)) = 1 /\ Under(c)[1] = stack[c][1]
    BY <1>2
  <1>4. [Under(c) EXCEPT ![1] = Compared(stack[c][1], answer)]
          = <<Compared(stack[c][1], answer)>>
    BY <1>2
  <1> QED  BY <1>3, <1>4 DEF Answer
-----------------------------------------------------------------------------
(* What keeps the invariant *)

\* The mutexes by the first and the last handler of a stack.
LEMMA Where ==
  ASSUME NEW s \in Seq(Frame), StackOK(s)
  PROVE  /\ (\E k \in DOMAIN s : s[k].pc = "cases")
              <=> (s # <<>> /\ s[1].pc = "cases")
         /\ (\E k \in DOMAIN s : s[k].pc = "task")
              <=> (s # <<>> /\ s[Len(s)].pc = "task")
  <1>1. DOMAIN s = 1..Len(s) /\ (s = <<>> <=> Len(s) = 0)
    BY EmptySeq
  <1>2. CASE Len(s) = 0
    BY <1>1, <1>2
  <1>3. CASE Len(s) = 1
    <2>1. 1..Len(s) = {1}  BY <1>3
    <2> QED  BY <1>1, <1>3, <2>1
  <1>4. CASE Len(s) = 2
    <2>1. 1..Len(s) = {1, 2}  BY <1>4
    <2>2. s[1].pc = "cases" /\ s[2].pc # "cases"
      BY <1>4 DEF StackOK, Nested
    <2> QED  BY <1>1, <1>4, <2>1, <2>2
  <1> QED  BY <1>2, <1>3, <1>4 DEF StackOK

\* A step of one goroutine keeps the invariant if what it leaves of its own is
\* right.
LEMMA OwnStep ==
  ASSUME InternalInv, NEW c \in Clients,
         runtimeToken' = runtimeToken,
         selftestMu' \in {selftestMu, c, NoOne}, triggerMu' \in {triggerMu, c, NoOne},
         selftestMu' # selftestMu => selftestMu \in {c, NoOne},
         triggerMu' # triggerMu => triggerMu \in {c, NoOne},
         stack' \in [Clients -> Seq(Frame)],
         \A d \in Clients \ {c} : stack'[d] = stack[d],
         answered' \in [Clients -> [route : {"selftest", "trigger", "method",
                                             "business", "unrouted"},
                                    answer : Answers, results : Seq(BOOLEAN)]],
         \A d \in Clients \ {c} : answered'[d] = answered[d],
         StackOK(stack'[c]), AnswerOK(answered'[c]),
         selftestMu' = c <=> (stack'[c] # <<>> /\ stack'[c][1].pc = "cases"),
         triggerMu' = c
           <=> (stack'[c] # <<>> /\ stack'[c][Len(stack'[c])].pc = "task")
  PROVE  InternalInv'
  <1>1. ITypeOK'
    BY DEF ITypeOK, InternalInv
  <1>2. \A d \in Clients : StackOK(stack'[d]) /\ AnswerOK(answered'[d])
    BY DEF InternalInv
  <1>3. \A d \in Clients : (StackOK(stack[d]))' /\ (AnswerOK(answered[d]))'
    <2>1. ASSUME NEW d \in Clients  PROVE (StackOK(stack[d]))'
      <3>1. StackOK(stack'[d])  BY <1>2
      <3> QED  BY <3>1 DEF StackOK, Nested, Marked
    <2>2. ASSUME NEW d \in Clients  PROVE (AnswerOK(answered[d]))'
      BY <1>2
    <2> QED  BY <2>1, <2>2
  <1>4. MutexesMatch'
    <2> SUFFICES ASSUME NEW d \in Clients
                 PROVE  /\ selftestMu' = d <=> InSuite(d)'
                        /\ triggerMu' = d <=> InTask(d)'
      BY DEF MutexesMatch
    <2>1. CASE d = c
      <3>1. stack'[c] \in Seq(Frame)  OBVIOUS
      <3> QED  BY <2>1, <3>1, Where DEF InSuite, InTask
    <2>2. CASE d # c
      <3>1. /\ selftestMu' = d <=> selftestMu = d
            /\ triggerMu' = d <=> triggerMu = d
        BY <2>2, InternalAssumption
      <3>2. InSuite(d)' <=> InSuite(d)
        BY <2>2 DEF InSuite
      <3>3. InTask(d)' <=> InTask(d)
        BY <2>2 DEF InTask
      <3> QED  BY <3>1, <3>2, <3>3 DEF InternalInv, MutexesMatch
    <2> QED  BY <2>1, <2>2
  <1> QED  BY <1>1, <1>3, <1>4 DEF InternalInv

\* A self test goes on to its next case with a result that is as foreseen.
LEMMA NextResult ==
  ASSUME NEW f \in Frame, FrameOK(f), f.pc = "cases",
         Len(f.results) < Len(Suite), NEW b \in BOOLEAN,
         Foreseeable(CaseOf(f)) => b
  PROVE  LET g == [f EXCEPT !.results = Append(@, b)] IN
         g \in Frame /\ FrameOK(g) /\ g.pc = "cases"
  <1> DEFINE g == [f EXCEPT !.results = Append(@, b)]
             n == Len(f.results)
  <1>1. f.results \in Seq(BOOLEAN) /\ n \in Nat /\ Len(Suite) \in Nat
    BY InternalAssumption DEF Frame
  <1>2. /\ g.results = Append(f.results, b) /\ g.pc = "cases"
        /\ g.request = f.request /\ g \in Frame
    BY <1>1 DEF Frame
  <1>3. /\ Len(g.results) = n + 1 /\ g.results[n + 1] = b
        /\ \A k \in 1..n : g.results[k] = f.results[k]
    BY <1>1, <1>2
  <1>4. PassedSoFar(g.results)
    <2> SUFFICES ASSUME NEW k \in 1..(n + 1), Foreseeable(Suite[k])
                 PROVE  g.results[k]
      BY <1>3 DEF PassedSoFar
    <2>1. CASE k = n + 1
      BY <1>3, <2>1 DEF CaseOf
    <2>2. CASE k # n + 1
      <3>1. k \in 1..n  BY <1>1, <2>2
      <3> QED  BY <1>3, <3>1 DEF FrameOK, PassedSoFar
    <2> QED  BY <2>1, <2>2
  <1> QED  BY <1>1, <1>2, <1>3, <1>4 DEF FrameOK

\* The handler of a case that is refused by everything but the handler itself
\* has not got past the check of the mark.
LEMMA ForeseenIsUnmarked ==
  ASSUME InternalInv, NEW c \in Clients, Len(stack[c]) = 2,
         Foreseeable(CaseOf(stack[c][1]))
  PROVE  /\ Top(c).pc = "begin" /\ ~Top(c).request.mark
         /\ Route(c) \in Internal
         /\ CaseOf(stack[c][1]).expect = {"unauthorized"}
  <1> DEFINE case == CaseOf(stack[c][1])
  <1>1. Nested(stack[c][1], stack[c][2]) /\ Top(c) = stack[c][2]
    BY DEF InternalInv, StackOK, Top
  <1>2. /\ case.request.route \in Internal /\ case.expect = {"unauthorized"}
        /\ case.request.token \in {"", "invalid"}
    BY <1>1 DEF Foreseeable, Nested
  <1>3. case \in Case
    <2>1. Len(stack[c][1].results) + 1 \in 1..Len(Suite)
      <3>1. stack[c][1] \in Frame
        <4>1. stack[c] \in Seq(Frame)
          BY DEF InternalInv, ITypeOK
        <4>2. 1 \in 1..Len(stack[c])
          OBVIOUS
        <4> QED  BY <4>1, <4>2
      <3> QED  BY <1>1, <3>1, InternalAssumption DEF Nested, Frame
    <2> QED  BY <2>1, InternalAssumption DEF CaseOf
  <1>4. /\ Marked(case.request).mark = FALSE
        /\ Marked(case.request).route = case.request.route
    BY <1>2, <1>3 DEF Marked, Case, Request, InternalInv, ITypeOK
  <1> QED  BY <1>1, <1>2, <1>4 DEF Nested, Route

\* Every step that answers: it must give back the mutex of the handler that
\* ends, and answer what is foreseen of a case or of the self test.
LEMMA AnswerKeepsInv ==
  ASSUME InternalInv, NEW c \in Clients, stack[c] # <<>>,
         NEW answer \in Answers, Answer(c, answer),
         runtimeToken' = runtimeToken,
         selftestMu' = IF Top(c).pc = "cases" THEN NoOne ELSE selftestMu,
         triggerMu' = IF Top(c).pc = "task" THEN NoOne ELSE triggerMu,
         Len(stack[c]) = 1 =>
           AnswerOK([route |-> Route(c), answer |-> answer,
                     results |-> Top(c).results]),
         Len(stack[c]) = 2 =>
           (Top(c).pc = "begin" /\ ~Top(c).request.mark
              /\ Route(c) \in Internal => answer = "unauthorized")
  PROVE  InternalInv'
  <1>1. ITypeOK /\ MutexesMatch /\ StackOK(stack[c]) /\ AnswerOK(answered[c])
    BY DEF InternalInv
  <1>2. /\ stack[c] \in Seq(Frame) /\ Len(stack[c]) \in {1, 2}
        /\ Top(c) = stack[c][Len(stack[c])] /\ Top(c) \in Frame
        /\ FrameOK(Top(c)) /\ stack[c][1] \in Frame /\ FrameOK(stack[c][1])
    BY <1>1, Depth
  <1>3. /\ selftestMu = c <=> stack[c][1].pc = "cases"
        /\ triggerMu = c <=> Top(c).pc = "task"
    BY <1>1, <1>2, Where DEF MutexesMatch, InSuite, InTask
  <1>4. NoOne \notin Clients
    BY InternalAssumption
  <1>5. CASE Len(stack[c]) = 1
    <2>1. /\ stack' = [stack EXCEPT ![c] = <<>>]
          /\ answered' = [answered EXCEPT ![c] =
               [route |-> Route(c), answer |-> answer, results |-> Top(c).results]]
      BY <1>1, <1>5, AnswerOutermost
    <2>2. stack'[c] = <<>> /\ stack' \in [Clients -> Seq(Frame)]
      <3>1. <<>> \in Seq(Frame)  BY EmptySeq
      <3>2. stack \in [Clients -> Seq(Frame)]  BY <1>1 DEF ITypeOK
      <3> QED  BY <2>1, <3>1, <3>2
    <2>3. StackOK(stack'[c])
      BY <2>2 DEF StackOK
    <2>4. AnswerOK(answered'[c])
      BY <1>1, <1>5, <2>1 DEF ITypeOK
    <2>5. answered' \in [Clients -> [route : {"selftest", "trigger", "method",
                                              "business", "unrouted"},
                                     answer : Answers, results : Seq(BOOLEAN)]]
      BY <1>1, <1>2, <2>1 DEF ITypeOK, Frame, Request, Route
    <2>6. selftestMu' # c /\ triggerMu' # c
      BY <1>2, <1>3, <1>4, <1>5
    <2>7. /\ \A d \in Clients \ {c} : stack'[d] = stack[d]
          /\ \A d \in Clients \ {c} : answered'[d] = answered[d]
      BY <1>1, <2>1 DEF ITypeOK
    <2> QED
      BY <1>2, <1>3, <1>5, <2>2, <2>3, <2>4, <2>5, <2>6, <2>7, OwnStep
  <1>6. CASE Len(stack[c]) = 2
    <2> DEFINE f == stack[c][1]
    <2>1. /\ stack' = [stack EXCEPT ![c] = <<Compared(f, answer)>>]
          /\ answered' = answered
      BY <1>1, <1>6, AnswerCase
    <2>2. f.pc = "cases" /\ Len(f.results) < Len(Suite) /\ Top(c).pc # "cases"
      BY <1>1, <1>2, <1>6 DEF StackOK, Nested
    <2>3. Foreseeable(CaseOf(f)) => answer \in CaseOf(f).expect
      BY <1>6, ForeseenIsUnmarked
    <2>4. Compared(f, answer) \in Frame /\ FrameOK(Compared(f, answer))
            /\ Compared(f, answer).pc = "cases"
      <3> DEFINE b == answer \in CaseOf(f).expect
      <3>1. b \in BOOLEAN  OBVIOUS
      <3>2. Foreseeable(CaseOf(f)) => b  BY <2>3
      <3>3. Compared(f, answer) = [f EXCEPT !.results = Append(@, b)]
        BY DEF Compared
      <3> HIDE DEF b
      <3>4. LET g == [f EXCEPT !.results = Append(@, b)] IN
              g \in Frame /\ FrameOK(g) /\ g.pc = "cases"
        BY <1>2, <2>2, <3>1, <3>2, NextResult
      <3> QED  BY <3>3, <3>4
    <2>5. /\ stack'[c] = <<Compared(f, answer)>>
          /\ stack' \in [Clients -> Seq(Frame)]
      <3> DEFINE h == Compared(f, answer)
      <3>1. h \in Frame  BY <2>4
      <3> HIDE DEF h
      <3>2. <<h>> \in Seq(Frame)  BY <3>1
      <3>3. stack \in [Clients -> Seq(Frame)]  BY <1>1 DEF ITypeOK
      <3>4. stack' = [stack EXCEPT ![c] = <<h>>]  BY <2>1 DEF h
      <3>5. stack'[c] = <<h>> /\ stack' \in [Clients -> Seq(Frame)]
        BY <3>2, <3>3, <3>4
      <3> QED  BY <3>5 DEF h
    <2>6. StackOK(stack'[c])
      BY <2>4, <2>5 DEF StackOK
    <2>7. selftestMu' = c /\ triggerMu' # c
      BY <1>2, <1>3, <1>4, <2>2
    <2>8. stack'[c] # <<>> /\ stack'[c][1].pc = "cases" /\ Len(stack'[c]) = 1
      BY <2>4, <2>5
    <2>9. /\ selftestMu' = selftestMu
          /\ triggerMu' \in {triggerMu, NoOne}
          /\ triggerMu' # triggerMu => triggerMu = c
      BY <1>3, <2>2
    <2>10. /\ \A d \in Clients \ {c} : stack'[d] = stack[d]
           /\ answered' \in [Clients ->
                [route : {"selftest", "trigger", "method", "business", "unrouted"},
                 answer : Answers, results : Seq(BOOLEAN)]]
      BY <1>1, <2>1 DEF ITypeOK
    <2> QED
      BY <1>1, <2>1, <2>5, <2>6, <2>7, <2>8, <2>9, <2>10, OwnStep
  <1> QED  BY <1>2, <1>5, <1>6

\* Every step within a handler: it takes the mutex of where it goes.
LEMMA GotoKeepsInv ==
  ASSUME InternalInv, NEW c \in Clients, stack[c] # <<>>,
         NEW pc \in {"call", "lock", "task", "cases"}, Goto(c, pc),
         runtimeToken' = runtimeToken,
         Top(c).pc \in {"begin", "lock"},
         pc = "call" => Route(c) = "method",
         pc = "lock" => Route(c) \in {"trigger", "selftest"},
         pc = "task" => Route(c) = "trigger" /\ triggerMu = NoOne,
         pc = "cases" => Route(c) = "selftest" /\ selftestMu = NoOne,
         Len(stack[c]) = 2 => Top(c).request.mark,
         selftestMu' = IF pc = "cases" THEN c ELSE selftestMu,
         triggerMu' = IF pc = "task" THEN c ELSE triggerMu
  PROVE  InternalInv'
  <1> DEFINE g == [Top(c) EXCEPT !.pc = pc]
             n == Len(stack[c])
  <1>1. ITypeOK /\ MutexesMatch /\ StackOK(stack[c]) /\ AnswerOK(answered[c])
    BY DEF InternalInv
  <1>2. /\ stack[c] \in Seq(Frame) /\ n \in {1, 2}
        /\ Top(c) = stack[c][n] /\ Top(c) \in Frame
        /\ FrameOK(Top(c)) /\ stack[c][1] \in Frame /\ FrameOK(stack[c][1])
    BY <1>1, Depth
  <1>3. /\ selftestMu = c <=> stack[c][1].pc = "cases"
        /\ triggerMu = c <=> Top(c).pc = "task"
    BY <1>1, <1>2, Where DEF MutexesMatch, InSuite, InTask
  <1>4. NoOne \notin Clients
    BY InternalAssumption
  <1>5. /\ stack' \in [Clients -> Seq(Frame)]
        /\ Len(stack'[c]) = n /\ stack'[c][n] = g
        /\ n = 2 => stack'[c][1] = stack[c][1]
        /\ \A d \in Clients \ {c} : stack'[d] = stack[d]
        /\ answered' = answered
    BY <1>1, GotoEffect
  <1>6. /\ g \in Frame /\ g.pc = pc /\ g.request = Top(c).request
        /\ g.results = Top(c).results
    BY <1>2 DEF Frame
  <1>7. FrameOK(g)
    BY <1>2, <1>6 DEF FrameOK, Route
  <1>8. n = 2 => Nested(stack[c][1], Top(c)) /\ selftestMu = c
    BY <1>1, <1>2, <1>3 DEF StackOK, Nested
  <1>9. n = 2 => Nested(stack[c][1], g)
    BY <1>4, <1>6, <1>8 DEF Nested
  <1>10. StackOK(stack'[c])
    <2>1. CASE n = 1
      BY <1>5, <1>7, <2>1, StackOfOne
    <2>2. CASE n = 2
      <3>1. FrameOK(stack[c][1])
        BY <1>1, <2>2 DEF StackOK
      <3> QED  BY <1>5, <1>7, <1>9, <2>2, <3>1, StackOfTwo
    <2> QED  BY <1>2, <2>1, <2>2
  <1>11. stack'[c] # <<>>
    BY <1>2, <1>5
  <1>12. selftestMu' = c <=> stack'[c][1].pc = "cases"
    BY <1>2, <1>3, <1>4, <1>5, <1>6, <1>8
  <1>13. triggerMu' = c <=> stack'[c][n].pc = "task"
    BY <1>2, <1>3, <1>5, <1>6
  <1>14. answered' \in [Clients ->
           [route : {"selftest", "trigger", "method", "business", "unrouted"},
            answer : Answers, results : Seq(BOOLEAN)]]
    BY <1>1, <1>5 DEF ITypeOK
  <1>15. /\ selftestMu' \in {selftestMu, c} /\ triggerMu' \in {triggerMu, c}
         /\ selftestMu' # selftestMu => selftestMu \in {c, NoOne}
         /\ triggerMu' # triggerMu => triggerMu \in {c, NoOne}
    OBVIOUS
  <1>16. /\ AnswerOK(answered'[c])
         /\ \A d \in Clients \ {c} : answered'[d] = answered[d]
    BY <1>1, <1>5
  <1> QED
    BY <1>5, <1>10, <1>11, <1>12, <1>13, <1>14, <1>15, <1>16, OwnStep

\* A handler that is called: by the runtime, or by a self test for a case.
LEMMA NewHandler ==
  ASSUME NEW request \in Request
  PROVE  /\ Handler(request) \in Frame /\ FrameOK(Handler(request))
         /\ Handler(request).pc = "begin" /\ Handler(request).request = request
  <1>1. <<>> \in Seq(BOOLEAN) /\ Len(<<>>) = 0
    BY EmptySeq
  <1>2. Len(Suite) \in Nat
    BY InternalAssumption
  <1> QED  BY <1>1, <1>2 DEF Handler, Frame, FrameOK, PassedSoFar

LEMMA ReceiveKeepsInv ==
  ASSUME InternalInv, NEW c \in Clients, Receive(c)
  PROVE  InternalInv'
  <1>1. ITypeOK /\ MutexesMatch
    BY DEF InternalInv
  <1>2. PICK request \in Requests :
          stack' = [stack EXCEPT ![c] = <<Handler(request)>>]
    BY DEF Receive
  <1> DEFINE h == Handler(request)
  <1>3. h \in Frame /\ FrameOK(h) /\ h.pc = "begin"
    BY NewHandler, InternalAssumption
  <1> HIDE DEF h
  <1>4. stack'[c] = <<h>> /\ stack' \in [Clients -> Seq(Frame)]
    <2>1. stack' = [stack EXCEPT ![c] = <<h>>]  BY <1>2 DEF h
    <2>2. stack \in [Clients -> Seq(Frame)]  BY <1>1 DEF ITypeOK
    <2>3. <<h>> \in Seq(Frame)  BY <1>3
    <2> QED  BY <2>1, <2>2, <2>3
  <1>5. StackOK(stack'[c])
    BY <1>3, <1>4 DEF StackOK
  <1>6. ~InSuite(c) /\ ~InTask(c)
    <2>1. stack[c] = <<>> /\ DOMAIN <<>> = {}
      BY DEF Receive
    <2> QED  BY <2>1 DEF InSuite, InTask
  <1>7. selftestMu # c /\ triggerMu # c
    BY <1>1, <1>6 DEF MutexesMatch
  <1>8. answered' \in [Clients ->
          [route : {"selftest", "trigger", "method", "business", "unrouted"},
           answer : Answers, results : Seq(BOOLEAN)]]
    <2>1. <<>> \in Seq(BOOLEAN)  BY EmptySeq
    <2> QED  BY <1>1, <2>1 DEF Receive, ITypeOK, NothingYet, Answers
  <1>9. AnswerOK(answered'[c])
    BY <1>1 DEF Receive, ITypeOK, NothingYet, AnswerOK
  <1>10. /\ \A d \in Clients \ {c} : stack'[d] = stack[d]
         /\ \A d \in Clients \ {c} : answered'[d] = answered[d]
    BY <1>1, <1>2 DEF Receive, ITypeOK
  <1>11. /\ runtimeToken' = runtimeToken /\ selftestMu' = selftestMu
         /\ triggerMu' = triggerMu
    BY DEF Receive
  <1>12. stack'[c][1].pc = "begin" /\ stack'[c][Len(stack'[c])].pc = "begin"
    BY <1>3, <1>4
  <1> QED
    BY <1>4, <1>5, <1>7, <1>8, <1>9, <1>10, <1>11, <1>12, OwnStep

\* Refuse, Reject, CallMethod, Business, RunTask and Report answer.
LEMMA RefuseKeepsInv ==
  ASSUME InternalInv, NEW c \in Clients, Refuse(c)
  PROVE  InternalInv'
  <1>1. /\ stack[c] # <<>> /\ Top(c).pc = "begin" /\ Answer(c, "unauthorized")
        /\ UNCHANGED <<runtimeToken, selftestMu, triggerMu>>
    BY DEF Refuse, At
  <1>2. "unauthorized" \in Answers
    BY DEF Answers
  <1>3. AnswerOK([route |-> Route(c), answer |-> "unauthorized",
                  results |-> Top(c).results])
    BY DEF AnswerOK
  <1> QED  BY <1>1, <1>2, <1>3, AnswerKeepsInv

LEMMA RejectKeepsInv ==
  ASSUME InternalInv, NEW c \in Clients, Reject(c)
  PROVE  InternalInv'
  <1> DEFINE answer == CASE Route(c) = "method" -> "error"
                         [] Top(c).request.body = "malformed" -> "bad"
                         [] Top(c).request.body = "unknown" -> "missing"
  <1>1. /\ stack[c] # <<>> /\ Top(c).pc = "begin" /\ Answer(c, answer)
        /\ Route(c) \in {"trigger", "method"} /\ Top(c).request.mark
        /\ Top(c).request.body # "known"
        /\ UNCHANGED <<runtimeToken, selftestMu, triggerMu>>
    BY DEF Reject, At
  <1>2. Top(c).request.body \in {"malformed", "unknown", "known"}
    BY <1>1, Depth DEF InternalInv, Frame, Request
  <1>3. answer \in Answers
    BY <1>1, <1>2 DEF Answers
  <1> HIDE DEF answer
  <1>4. AnswerOK([route |-> Route(c), answer |-> answer,
                  results |-> Top(c).results])
    BY <1>1 DEF AnswerOK
  <1> QED  BY <1>1, <1>3, <1>4, AnswerKeepsInv

LEMMA CallMethodKeepsInv ==
  ASSUME InternalInv, NEW c \in Clients, CallMethod(c)
  PROVE  InternalInv'
  <1>1. /\ stack[c] # <<>> /\ Top(c).pc = "call"
        /\ UNCHANGED <<runtimeToken, selftestMu, triggerMu>>
    BY DEF CallMethod, At
  <1>2. PICK answer \in {"ok", "error"} : Answer(c, answer)
    BY DEF CallMethod
  <1>3. answer \in Answers
    BY DEF Answers
  <1>4. Route(c) = "method"
    BY <1>1, Depth DEF InternalInv, FrameOK, Route
  <1>5. AnswerOK([route |-> Route(c), answer |-> answer,
                  results |-> Top(c).results])
    BY <1>4 DEF AnswerOK
  <1> QED  BY <1>1, <1>2, <1>3, <1>5, AnswerKeepsInv

LEMMA BusinessKeepsInv ==
  ASSUME InternalInv, NEW c \in Clients, Business(c)
  PROVE  InternalInv'
  <1>1. /\ stack[c] # <<>> /\ Top(c).pc = "begin" /\ Route(c) = "business"
        /\ UNCHANGED <<runtimeToken, selftestMu, triggerMu>>
    BY DEF Business, At
  <1>2. PICK answer \in {"ok", "error", "panic"} : Answer(c, answer)
    BY DEF Business
  <1>3. answer \in Answers
    BY DEF Answers
  <1>4. AnswerOK([route |-> Route(c), answer |-> answer,
                  results |-> Top(c).results])
    BY <1>1 DEF AnswerOK
  <1>5. Route(c) \notin Internal
    BY <1>1 DEF Internal
  <1> QED  BY <1>1, <1>2, <1>3, <1>4, <1>5, AnswerKeepsInv

LEMMA RunTaskKeepsInv ==
  ASSUME InternalInv, NEW c \in Clients, RunTask(c)
  PROVE  InternalInv'
  <1>1. /\ stack[c] # <<>> /\ Top(c).pc = "task" /\ Answer(c, "stream")
        /\ triggerMu' = NoOne
        /\ UNCHANGED <<runtimeToken, selftestMu>>
    BY DEF RunTask, At
  <1>2. "stream" \in Answers
    BY DEF Answers
  <1>3. Route(c) = "trigger"
    BY <1>1, Depth DEF InternalInv, FrameOK, Route
  <1>4. AnswerOK([route |-> Route(c), answer |-> "stream",
                  results |-> Top(c).results])
    BY <1>3 DEF AnswerOK
  <1> QED  BY <1>1, <1>2, <1>4, AnswerKeepsInv

LEMMA ReportKeepsInv ==
  ASSUME InternalInv, NEW c \in Clients, Report(c)
  PROVE  InternalInv'
  <1>1. /\ stack[c] # <<>> /\ Top(c).pc = "cases" /\ Answer(c, "ok")
        /\ ~(Len(Top(c).results) < Len(Suite)) /\ selftestMu' = NoOne
        /\ UNCHANGED <<runtimeToken, triggerMu>>
    BY DEF Report, Remaining, At
  <1>2. "ok" \in Answers
    BY DEF Answers
  <1>3. FrameOK(Top(c)) /\ Top(c) \in Frame
    BY <1>1, Depth DEF InternalInv
  <1>4. Len(Top(c).results) = Len(Suite)
    <2>1. Len(Top(c).results) \in Nat /\ Len(Suite) \in Nat
      BY <1>3, InternalAssumption DEF Frame
    <2> QED  BY <1>1, <1>3, <2>1 DEF FrameOK
  <1>5. AnswerOK([route |-> Route(c), answer |-> "ok",
                  results |-> Top(c).results])
    BY <1>3, <1>4 DEF AnswerOK, FrameOK, PassedSoFar
  <1> QED  BY <1>1, <1>2, <1>5, AnswerKeepsInv

LEMMA SuiteUnwindsKeepsInv ==
  ASSUME InternalInv, NEW c \in Clients, SuiteUnwinds(c)
  PROVE  InternalInv'
  <1>1. /\ stack[c] # <<>> /\ Top(c).pc = "cases" /\ Answer(c, "error")
        /\ Unmade(Len(Top(c).results)) /\ selftestMu' = NoOne
        /\ UNCHANGED <<runtimeToken, triggerMu>>
    BY DEF SuiteUnwinds, At
  <1>2. "error" \in Answers
    BY DEF Answers
  <1>3. AnswerOK([route |-> Route(c), answer |-> "error",
                  results |-> Top(c).results])
    BY <1>1 DEF AnswerOK
  <1> QED  BY <1>1, <1>2, <1>3, AnswerKeepsInv

\* Dispatch, LockTrigger and LockSelftest stay in their handler.
LEMMA DispatchKeepsInv ==
  ASSUME InternalInv, NEW c \in Clients, Dispatch(c)
  PROVE  InternalInv'
  <1> DEFINE pc == IF Route(c) = "method" THEN "call" ELSE "lock"
  <1>1. /\ stack[c] # <<>> /\ Top(c).pc = "begin" /\ Goto(c, pc)
        /\ Route(c) \in Internal /\ Top(c).request.mark
        /\ UNCHANGED <<runtimeToken, selftestMu, triggerMu>>
    BY DEF Dispatch, At
  <1>2. pc \in {"call", "lock"}
    OBVIOUS
  <1>3. pc = "call" => Route(c) = "method"
    OBVIOUS
  <1>4. pc = "lock" => Route(c) \in {"trigger", "selftest"}
    BY <1>1 DEF Internal
  <1> HIDE DEF pc
  <1> QED  BY <1>1, <1>2, <1>3, <1>4, GotoKeepsInv

\* A handler past its dispatch that serves a case has the mark.
LEMMA PastDispatch ==
  ASSUME InternalInv, NEW c \in Clients, Len(stack[c]) = 2, Top(c).pc # "begin"
  PROVE  Top(c).request.mark
  BY DEF InternalInv, StackOK, Nested, Top

LEMMA LockTriggerKeepsInv ==
  ASSUME InternalInv, NEW c \in Clients, LockTrigger(c)
  PROVE  InternalInv'
  <1>1. /\ stack[c] # <<>> /\ Top(c).pc = "lock" /\ Goto(c, "task")
        /\ Route(c) = "trigger" /\ triggerMu = NoOne /\ triggerMu' = c
        /\ UNCHANGED <<runtimeToken, selftestMu>>
    BY DEF LockTrigger, At
  <1> QED  BY <1>1, PastDispatch, GotoKeepsInv

LEMMA LockSelftestKeepsInv ==
  ASSUME InternalInv, NEW c \in Clients, LockSelftest(c)
  PROVE  InternalInv'
  <1>1. /\ stack[c] # <<>> /\ Top(c).pc = "lock" /\ Goto(c, "cases")
        /\ Route(c) = "selftest" /\ selftestMu = NoOne /\ selftestMu' = c
        /\ UNCHANGED <<runtimeToken, triggerMu>>
    BY DEF LockSelftest, At
  <1> QED  BY <1>1, PastDispatch, GotoKeepsInv

\* A goroutine whose self test goes through its cases is in no other handler,
\* and holds the mutex.
LEMMA AtCases ==
  ASSUME InternalInv, NEW c \in Clients, Remaining(c)
  PROVE  /\ stack[c] = <<Top(c)>> /\ Top(c) \in Frame /\ FrameOK(Top(c))
         /\ Top(c).pc = "cases" /\ Len(Top(c).results) < Len(Suite)
         /\ CaseOf(Top(c)) \in Case
         /\ selftestMu = c /\ triggerMu # c
  <1>1. ITypeOK /\ MutexesMatch /\ StackOK(stack[c])
    BY DEF InternalInv
  <1>2. /\ stack[c] # <<>> /\ Top(c).pc = "cases"
        /\ Len(Top(c).results) < Len(Suite)
    BY DEF Remaining, At
  <1>3. /\ stack[c] \in Seq(Frame) /\ Len(stack[c]) \in {1, 2}
        /\ Top(c) = stack[c][Len(stack[c])] /\ Top(c) \in Frame
        /\ FrameOK(Top(c))
    BY <1>1, <1>2, Depth
  <1>4. Len(stack[c]) = 1
    BY <1>1, <1>2, <1>3 DEF StackOK, Nested
  <1>5. stack[c] = <<Top(c)>>
    <2> DEFINE f == Top(c)
    <2>1. f \in Frame /\ stack[c][1] = f  BY <1>3, <1>4
    <2> HIDE DEF f
    <2>2. <<f>> \in Seq(Frame) /\ Len(<<f>>) = 1 /\ <<f>>[1] = f
      BY <2>1
    <2>3. \A k \in 1..1 : k = 1  OBVIOUS
    <2>4. stack[c] = <<f>>
      BY <1>3, <1>4, <2>1, <2>2, <2>3, SeqEqual
    <2> QED  BY <2>4 DEF f
  <1>6. CaseOf(Top(c)) \in Case
    <2>1. Len(Top(c).results) + 1 \in 1..Len(Suite)
      BY <1>2, <1>3, InternalAssumption DEF Frame
    <2> QED  BY <2>1, InternalAssumption DEF CaseOf
  <1>7. selftestMu = c /\ triggerMu # c
    BY <1>1, <1>2, <1>3, <1>4, Where DEF MutexesMatch, InSuite, InTask
  <1> QED  BY <1>2, <1>3, <1>5, <1>6, <1>7

LEMMA SkipCaseKeepsInv ==
  ASSUME InternalInv, NEW c \in Clients, SkipCase(c)
  PROVE  InternalInv'
  <1> DEFINE f == Top(c)
             b == CaseOf(f).kind # "http"
             g == [f EXCEPT !.results = Append(@, b)]
  <1>1. /\ stack[c] = <<f>> /\ f \in Frame /\ FrameOK(f)
        /\ f.pc = "cases" /\ Len(f.results) < Len(Suite)
        /\ selftestMu = c /\ triggerMu # c
    BY AtCases DEF SkipCase
  <1>2. ITypeOK /\ AnswerOK(answered[c])
    BY DEF InternalInv
  <1>3. /\ stack' = [stack EXCEPT ![c] = Append(Under(c), g)]
        /\ CaseOf(f).kind # "http" \/ CaseOf(f).request.route = "unrouted"
        /\ UNCHANGED <<runtimeToken, selftestMu, triggerMu, answered>>
    BY DEF SkipCase
  <1>4. Foreseeable(CaseOf(f)) => b
    BY <1>3 DEF Foreseeable, Internal
  <1>5. b \in BOOLEAN
    OBVIOUS
  <1> HIDE DEF b
  <1>6. g \in Frame /\ FrameOK(g) /\ g.pc = "cases"
    BY <1>1, <1>4, <1>5, NextResult
  <1> HIDE DEF f, g
  <1>7. Under(c) = <<>>
    <2>1. Len(stack[c]) = 1  BY <1>1
    <2> QED  BY <2>1, SubSeqEmpty DEF Under
  <1>8. Append(<<>>, g) = <<g>> /\ <<g>> \in Seq(Frame)
    BY <1>6
  <1>9. /\ stack'[c] = <<g>> /\ stack' \in [Clients -> Seq(Frame)]
        /\ \A d \in Clients \ {c} : stack'[d] = stack[d]
    BY <1>2, <1>3, <1>7, <1>8 DEF ITypeOK
  <1>10. StackOK(stack'[c])
    BY <1>6, <1>9 DEF StackOK
  <1>11. /\ stack'[c] # <<>> /\ stack'[c][1].pc = "cases"
         /\ stack'[c][Len(stack'[c])].pc = "cases"
    BY <1>6, <1>9
  <1> QED
    BY <1>1, <1>2, <1>3, <1>9, <1>10, <1>11, OwnStep DEF ITypeOK

LEMMA RunCaseKeepsInv ==
  ASSUME InternalInv, NEW c \in Clients, RunCase(c)
  PROVE  InternalInv'
  <1> DEFINE f == Top(c)
             request == Marked(CaseOf(f).request)
             h == Handler(request)
  <1>1. /\ stack[c] = <<f>> /\ f \in Frame /\ FrameOK(f)
        /\ f.pc = "cases" /\ Len(f.results) < Len(Suite)
        /\ CaseOf(f) \in Case /\ selftestMu = c /\ triggerMu # c
    BY AtCases DEF RunCase
  <1>2. ITypeOK /\ AnswerOK(answered[c])
    BY DEF InternalInv
  <1>3. /\ stack' = [stack EXCEPT ![c] = Append(@, h)]
        /\ CaseOf(f).kind = "http"
        /\ UNCHANGED <<runtimeToken, selftestMu, triggerMu, answered>>
    BY DEF RunCase
  <1>4. request \in Request
    BY <1>1, <1>2 DEF Marked, Case, Request, ITypeOK
  <1> HIDE DEF request
  <1>5. h \in Frame /\ FrameOK(h) /\ h.pc = "begin" /\ h.request = request
    BY <1>4, NewHandler
  <1>6. Nested(f, h)
    BY <1>1, <1>3, <1>5 DEF Nested, request
  <1> HIDE DEF f, h
  <1> DEFINE t == Append(<<f>>, h)
  <1>7. t \in Seq(Frame) /\ Len(t) = 2 /\ t[1] = f /\ t[2] = h
    <2>1. <<f>> \in Seq(Frame) /\ Len(<<f>>) = 1 /\ <<f>>[1] = f
      BY <1>1
    <2> QED  BY <1>5, <2>1
  <1> HIDE DEF t
  <1>8. /\ stack'[c] = t /\ stack' \in [Clients -> Seq(Frame)]
        /\ \A d \in Clients \ {c} : stack'[d] = stack[d]
    BY <1>1, <1>2, <1>3, <1>7 DEF ITypeOK, t
  <1>9. StackOK(stack'[c])
    <2>1. \A k \in 1..2 : k = 1 \/ k = 2  OBVIOUS
    <2> QED  BY <1>1, <1>5, <1>6, <1>7, <1>8, <2>1 DEF StackOK
  <1>10. /\ stack'[c] # <<>> /\ stack'[c][1].pc = "cases"
         /\ stack'[c][Len(stack'[c])].pc = "begin"
    <2>1. t # <<>> /\ t[1].pc = "cases" /\ t[2].pc = "begin" /\ Len(t) = 2
      <3>1. t # <<>>  BY <1>7
      <3>2. t[1].pc = "cases"  BY <1>1, <1>7
      <3>3. t[2].pc = "begin"  BY <1>5, <1>7
      <3> QED  BY <1>7, <3>1, <3>2, <3>3
    <2> QED  BY <1>8, <2>1
  <1> QED
    BY <1>1, <1>2, <1>3, <1>8, <1>9, <1>10, OwnStep DEF ITypeOK
-----------------------------------------------------------------------------
(* The theorems *)

LEMMA Initially ==
  ASSUME IInit
  PROVE  InternalInv
  <1>1. <<>> \in Seq(Frame) /\ <<>> \in Seq(BOOLEAN) /\ Len(<<>>) = 0
    BY EmptySeq
  <1>2. ITypeOK
    BY <1>1 DEF IInit, ITypeOK, NothingYet, Answers
  <1>3. MutexesMatch
    <2>1. \A c \in Clients : stack[c] = <<>>  BY DEF IInit
    <2>2. DOMAIN <<>> = {}  OBVIOUS
    <2>3. \A c \in Clients : ~InSuite(c) /\ ~InTask(c)
      BY <2>1, <2>2 DEF InSuite, InTask
    <2> QED  BY <2>3, InternalAssumption DEF IInit, MutexesMatch
  <1>4. \A c \in Clients : StackOK(stack[c]) /\ AnswerOK(answered[c])
    <2>1. 1..0 = {}  OBVIOUS
    <2>2. StackOK(<<>>)  BY <1>1, <2>1 DEF StackOK
    <2>3. AnswerOK(NothingYet)  BY DEF AnswerOK, NothingYet
    <2> QED  BY <2>2, <2>3 DEF IInit
  <1> QED  BY <1>2, <1>3, <1>4 DEF InternalInv

LEMMA NextKeepsInv ==
  ASSUME InternalInv, [INext]_ivars
  PROVE  InternalInv'
  <1>1. ASSUME NEW c \in Clients, Work(c)  PROVE InternalInv'
    BY <1>1, RefuseKeepsInv, RejectKeepsInv, DispatchKeepsInv,
       CallMethodKeepsInv, BusinessKeepsInv, RunTaskKeepsInv,
       SkipCaseKeepsInv, RunCaseKeepsInv, ReportKeepsInv, SuiteUnwindsKeepsInv
       DEF Work
  <1>2. CASE INext
    BY <1>1, <1>2, ReceiveKeepsInv, LockTriggerKeepsInv, LockSelftestKeepsInv
       DEF INext
  <1>3. CASE UNCHANGED ivars
    BY <1>3, ZenonT(30) DEF ivars, InternalInv, ITypeOK, MutexesMatch, InSuite, InTask,
                StackOK, Nested, Marked
  <1> QED  BY <1>2, <1>3

THEOREM InternalInvariant == ISpec => []InternalInv
  BY Initially, NextKeepsInv, PTL DEF ISpec

\* Mutexes, stacks and answers keep their types.
THEOREM InternalTypeCorrect == ISpec => []ITypeOK
  <1>1. InternalInv => ITypeOK
    BY DEF InternalInv
  <1> QED  BY <1>1, InternalInvariant, PTL

\* A mutex is held by exactly the goroutine between its Lock and Unlock.
THEOREM MutexesGivenBack == ISpec => []MutexesMatch
  <1>1. InternalInv => MutexesMatch
    BY DEF InternalInv
  <1> QED  BY <1>1, InternalInvariant, PTL

\* Only cases with the environment's token get into an internal endpoint.
THEOREM CasesNeedTheToken == ISpec => []CasesAuthenticated
  <1>1. ASSUME InternalInv  PROVE CasesAuthenticated
    <2> SUFFICES ASSUME NEW c \in Clients, NEW k \in DOMAIN stack[c],
                        k > 1, stack[c][k].pc # "begin"
                 PROVE  /\ stack[c][k].request.token = runtimeToken
                        /\ runtimeToken # ""
      BY DEF CasesAuthenticated
    <2>1. StackOK(stack[c]) /\ stack[c] \in Seq(Frame)
      BY <1>1 DEF InternalInv, ITypeOK
    <2>2. k = 2 /\ Len(stack[c]) = 2
      BY <2>1 DEF StackOK
    <2>3. Nested(stack[c][1], stack[c][2]) /\ stack[c][2].request.mark
      BY <2>1, <2>2 DEF StackOK, Nested
    <2> DEFINE request == CaseOf(stack[c][1]).request
    <2>4. stack[c][2].request = Marked(request) /\ Marked(request).mark
      BY <2>3 DEF Nested
    <2>5. request \in Request
      <3>1. stack[c][1] \in Frame
        BY <2>1, <2>2
      <3>2. Len(stack[c][1].results) + 1 \in 1..Len(Suite)
        BY <2>3, <3>1, InternalAssumption DEF Nested, Frame
      <3>3. CaseOf(stack[c][1]) \in Case
        BY <3>2, InternalAssumption DEF CaseOf
      <3> QED  BY <3>3 DEF Case
    <2> HIDE DEF request
    <2>6. Marked(request).token = runtimeToken /\ runtimeToken # ""
      BY <2>4, <2>5 DEF Marked, Request
    <2> QED  BY <2>2, <2>4, <2>6
  <1> QED  BY <1>1, InternalInvariant, PTL

\* Every self test that was let in reports on every case, or met a case whose
\* request or expectation cannot be made.
THEOREM SelftestsReport == ISpec => []ReportsComplete
  <1>1. InternalInv => ReportsComplete
    BY DEF InternalInv, ReportsComplete, AnswerOK
  <1> QED  BY <1>1, InternalInvariant, PTL
=============================================================================
