------------------------- MODULE NativeTesterProofs -------------------------
(***************************************************************************)
(* The native tester, for any number of tests, any nesting of the expect   *)
(* macros and any number of statements.                                    *)
(***************************************************************************)
EXTENDS NativeTester, TLAPS

\* A test is the outermost call in progress or none is: main has left its
\* first UOSIO_TEST behind exactly when what is running runs in a test.
TestOutermost == stack # <<>> => (InTest <=> at # 0)

IInv ==
  /\ TypeOK
  /\ TestOutermost
  /\ JumpTargetLive
  /\ EachTestJudged
  /\ FailureIsReported

-----------------------------------------------------------------------------
(* The calls in progress.                                                  *)

\* Entering a call: one more frame, the others as they were.
LEMMA Entered ==
  ASSUME TypeOK, NEW kind \in Kinds, Enter(kind)
  PROVE  /\ stack' \in Seq(Frame)
         /\ Len(stack') = Depth + 1
         /\ \A d \in 1 .. Depth : stack'[d] = stack[d]
         /\ stack'[Depth + 1] = [kind |-> kind, out |-> disabled]
<1>1. [kind |-> kind, out |-> disabled] \in Frame
  BY DEF TypeOK, Frame
<1> QED BY <1>1 DEF TypeOK, Enter, Depth

\* Leaving calls, by a return or by a longjmp: what is left is as it was.
LEMMA LeftTo ==
  ASSUME TypeOK, NEW d \in 0 .. Depth, LeaveTo(d)
  PROVE  /\ stack' \in Seq(Frame)
         /\ Len(stack') = d
         /\ \A e \in 1 .. d : stack'[e] = stack[e]
  BY DEF TypeOK, LeaveTo, Depth

-----------------------------------------------------------------------------
(* The two ways an assert ends.                                            *)

\* longjmp(env): the test is reported as failed, or the program ends.
LEMMA HaltKeepsInv ==
  ASSUME IInv, Running, Halt, env_ptr' = "env", left' \in 0 .. Statements,
         flaws' \subseteq Kinds \cup {"CHECK_EQUAL"}
  PROVE  IInv'
<1>1. /\ stack' \in Seq(Frame) /\ Len(stack') = 0 /\ stack' = <<>>
  <2>1. 0 \in 0 .. Depth /\ LeaveTo(0)
    BY DEF IInv, TypeOK, Halt, Depth
  <2>2. stack' \in Seq(Frame) /\ Len(stack') = 0
    BY <2>1, LeftTo DEF IInv
  <2> QED BY <2>2
<1>2. env = at /\ at' = at /\ env' = env /\ test_env' = test_env
  BY DEF IInv, JumpTargetLive, Halt
<1>3. TestOutermost' /\ JumpTargetLive'
  BY <1>1, <1>2 DEF TestOutermost, JumpTargetLive
<1>4. CASE env = 0
  <2>1. exit' = "aborted" /\ UNCHANGED <<has_failed, disabled, report>>
    BY <1>4 DEF Halt
  <2>2. TypeOK'
    BY <1>1, <1>2, <2>1, NativeTesterAssumption DEF IInv, TypeOK, Depth
  <2>3. EachTestJudged'
    BY <1>2, <1>4, <2>1, NativeTesterAssumption DEF IInv, TypeOK, EachTestJudged
  <2>4. FailureIsReported'
    BY <2>1 DEF FailureIsReported
  <2> QED BY <1>3, <2>2, <2>3, <2>4 DEF IInv
<1>5. CASE env # 0
  <2>1. /\ report' = [report EXCEPT ![env] = "failed"]
        /\ has_failed' = TRUE /\ disabled' = FALSE /\ exit' = exit
    BY <1>5 DEF Halt
  <2>2. TypeOK'
    <3>1. report' \in [1 .. Tests -> {"none", "passed", "failed"}]
      BY <2>1 DEF IInv, TypeOK
    <3>2. has_failed' \in BOOLEAN /\ disabled' \in BOOLEAN
      BY <2>1
    <3> QED BY <1>1, <1>2, <2>1, <3>1, <3>2, NativeTesterAssumption
            DEF IInv, TypeOK, Depth
  <2>3. EachTestJudged'
    <3>1. ~InTest'
      BY <1>1 DEF InTest
    <3> QED BY <1>2, <1>5, <2>1, <3>1, NativeTesterAssumption
            DEF IInv, TypeOK, EachTestJudged
  <2>4. FailureIsReported'
    BY <2>1 DEF FailureIsReported
  <2> QED BY <1>3, <2>2, <2>3, <2>4 DEF IInv
<1> QED BY <1>4, <1>5

\* What remains of the calls after the one at depth d > 1, or before the first
\* test: the same test, if any, is running.
LEMMA LeaveKeepsTest ==
  ASSUME IInv, NEW d \in 1 .. Depth, stack[d].kind # "TEST", LeaveTo(d - 1),
         UNCHANGED <<at, report>>
  PROVE  /\ stack' \in Seq(Frame) /\ Len(stack') = d - 1 /\ Len(stack') <= MaxDepth
         /\ \A e \in 1 .. d - 1 : stack'[e] = stack[e]
         /\ InTest' <=> InTest
         /\ TestOutermost' /\ EachTestJudged'
<1>1. Depth \in Nat /\ Depth <= MaxDepth /\ MaxDepth \in Nat /\ d - 1 \in 0 .. Depth
  BY NativeTesterAssumption DEF IInv, TypeOK, Depth
<1>2. /\ stack' \in Seq(Frame) /\ Len(stack') = d - 1
      /\ \A e \in 1 .. d - 1 : stack'[e] = stack[e]
  BY <1>1, LeftTo DEF IInv
<1>3. InTest' <=> InTest
  <2>1. CASE d = 1
    <3>1. stack' = <<>> /\ stack # <<>> /\ stack[1].kind # "TEST"
      BY <1>1, <1>2, <2>1 DEF Depth
    <3> QED BY <3>1 DEF InTest
  <2>2. CASE d # 1
    <3>1. stack' # <<>> /\ stack # <<>> /\ stack'[1] = stack[1]
      BY <1>1, <1>2, <2>2 DEF Depth
    <3> QED BY <3>1 DEF InTest
  <2> QED BY <2>1, <2>2
<1>4. stack # <<>>
  BY <1>1 DEF Depth
<1>5. TestOutermost'
  BY <1>3, <1>4 DEF IInv, TestOutermost
<1>6. EachTestJudged'
  BY <1>3 DEF IInv, EachTestJudged
<1> QED BY <1>1, <1>2, <1>3, <1>5, <1>6

\* expect_assert after func, whichever way func ended: a REQUIRE that fails
\* goes on to the test's buffer, a CHECK is taken into account.
LEMMA JudgeKeepsInv ==
  ASSUME IInv, Running, NEW d \in 1 .. Depth, stack[d].kind \in AssertMacros,
         NEW passed \in BOOLEAN, NEW out \in BOOLEAN, Judge(d, passed, out),
         left' \in 0 .. Statements
  PROVE  IInv'
<1>1. env_ptr' = "env" /\ Flawed(stack[d].kind, passed)
  BY DEF Judge
<1>2. flaws' \subseteq Kinds \cup {"CHECK_EQUAL"}
  BY <1>1 DEF IInv, TypeOK, Flawed, Kinds
<1>3. CASE stack[d].kind = "REQUIRE_ASSERT" /\ ~passed
  <2>1. Halt
    BY <1>3 DEF Judge
  <2> QED BY <1>1, <1>2, <2>1, HaltKeepsInv
<1>4. CASE ~(stack[d].kind = "REQUIRE_ASSERT" /\ ~passed)
  <2>1. /\ LeaveTo(d - 1) /\ disabled' = out
        /\ has_failed' = IF stack[d].kind = "CHECK_ASSERT"
                         THEN Accumulated(passed) ELSE has_failed
        /\ UNCHANGED <<at, env, test_env, report, exit>>
    BY <1>4 DEF Judge
  <2>2. stack[d].kind # "TEST"
    BY DEF AssertMacros
  <2>3. /\ stack' \in Seq(Frame) /\ Len(stack') <= MaxDepth
        /\ TestOutermost' /\ EachTestJudged'
    BY <2>1, <2>2, LeaveKeepsTest
  <2>4. has_failed' \in BOOLEAN
    BY <2>1 DEF IInv, TypeOK, Accumulated
  <2>5. TypeOK'
    BY <1>1, <1>2, <2>1, <2>3, <2>4 DEF IInv, TypeOK, Depth
  <2>6. JumpTargetLive'
    BY <1>1, <2>1 DEF IInv, JumpTargetLive
  <2>7. FailureIsReported'
    <3>1. CASE passed
      <4>1. flaws' = flaws /\ report' = report /\ exit' = exit
        BY <1>1, <2>1, <3>1 DEF Flawed
      <4>2. has_failed' = has_failed
        BY <2>1, <3>1 DEF IInv, TypeOK, Accumulated
      <4> QED BY <4>1, <4>2 DEF IInv, FailureIsReported
    <3>2. CASE ~passed
      <4>1. stack[d].kind = "CHECK_ASSERT"
        BY <1>4, <3>2 DEF AssertMacros
      <4>2. "CHECK_ASSERT" \in flaws'
        BY <1>1, <3>2, <4>1 DEF Flawed
      <4> QED BY <4>2 DEF FailureIsReported
    <3> QED BY <3>1, <3>2
  <2> QED BY <2>3, <2>5, <2>6, <2>7 DEF IInv
<1> QED BY <1>3, <1>4

-----------------------------------------------------------------------------
(* The actions.                                                            *)

LEMMA InitInv == Init => IInv
<1> SUFFICES ASSUME Init PROVE IInv
  OBVIOUS
<1>1. stack = <<>> /\ Depth = 0 /\ ~InTest
  BY DEF Init, Depth, InTest
<1>2. TypeOK
  <2>1. has_failed \in BOOLEAN /\ disabled \in BOOLEAN
    BY DEF Init
  <2>2. report \in [1 .. Tests -> {"none", "passed", "failed"}]
    BY DEF Init
  <2> QED BY <1>1, <2>1, <2>2, NativeTesterAssumption DEF Init, TypeOK
<1>3. TestOutermost /\ JumpTargetLive
  BY <1>1 DEF Init, TestOutermost, JumpTargetLive
<1>4. EachTestJudged
  BY NativeTesterAssumption DEF Init, EachTestJudged
<1>5. FailureIsReported
  BY DEF Init, FailureIsReported
<1> QED BY <1>2, <1>3, <1>4, <1>5 DEF IInv

\* Between tests env is in force, so the new test's setjmp goes there.
LEMMA RunTestInv == ASSUME IInv, RunTest PROVE IInv'
<1>1. stack = <<>> /\ Depth = 0 /\ at < Tests /\ at \in Nat /\ Tests \in Nat
  BY NativeTesterAssumption DEF RunTest, IInv, TypeOK, Depth
<1>2. env_ptr = "env"
  BY <1>1 DEF IInv, TypeOK, JumpTargetLive
<1>3. /\ at' = at + 1 /\ env' = at + 1
      /\ UNCHANGED <<test_env, env_ptr, has_failed, disabled, report, flaws, left, exit>>
  BY <1>2 DEF RunTest
<1>4. /\ stack' \in Seq(Frame) /\ Len(stack') = 1
      /\ stack'[1] = [kind |-> "TEST", out |-> disabled]
  BY <1>1, Entered DEF RunTest, IInv, Kinds
<1>5. InTest'
  BY <1>4 DEF InTest
<1>6. TypeOK'
  BY <1>1, <1>3, <1>4, NativeTesterAssumption DEF IInv, TypeOK, Depth
<1>7. TestOutermost' /\ JumpTargetLive'
  BY <1>1, <1>2, <1>3, <1>5 DEF TestOutermost, JumpTargetLive
<1>8. EachTestJudged'
  <2>1. ~InTest
    BY <1>1 DEF InTest
  <2> QED BY <1>1, <1>3, <1>5, <2>1 DEF IInv, EachTestJudged
<1>9. FailureIsReported'
  BY <1>3 DEF IInv, FailureIsReported
<1> QED BY <1>6, <1>7, <1>8, <1>9 DEF IInv

LEMMA EndTestInv == ASSUME IInv, EndTest PROVE IInv'
<1>1. /\ InTest /\ Depth = 1 /\ stack # <<>> /\ stack[1].kind = "TEST"
      /\ report' = [report EXCEPT ![at] = "passed"] /\ disabled' = FALSE
      /\ UNCHANGED <<at, env, test_env, env_ptr, has_failed, flaws, left, exit>>
  BY DEF EndTest, InTest
<1>2. at \in 1 .. Tests
  BY <1>1, NativeTesterAssumption DEF IInv, TypeOK, TestOutermost
<1>3. stack' \in Seq(Frame) /\ Len(stack') = 0 /\ stack' = <<>>
  <2>1. stack' \in Seq(Frame) /\ Len(stack') = 0
    BY <1>1, LeftTo DEF IInv, EndTest
  <2> QED BY <2>1
<1>4. env_ptr = "env"
  <2>1. 1 .. Depth = {1} /\ stack[1].kind \notin AssertMacros
    BY <1>1 DEF AssertMacros
  <2> QED BY <2>1 DEF IInv, TypeOK, JumpTargetLive
<1>5. report' \in [1 .. Tests -> {"none", "passed", "failed"}]
  BY <1>1 DEF IInv, TypeOK
<1>6. TypeOK'
  <2>1. disabled' \in BOOLEAN
    BY <1>1
  <2> QED BY <1>1, <1>3, <1>5, <2>1, NativeTesterAssumption DEF IInv, TypeOK, Depth
<1>7. TestOutermost' /\ JumpTargetLive'
  BY <1>1, <1>3, <1>4 DEF IInv, TestOutermost, JumpTargetLive
<1>8. EachTestJudged'
  <2>1. ~InTest'
    BY <1>3 DEF InTest
  <2> QED BY <1>1, <1>2, <2>1 DEF IInv, TypeOK, EachTestJudged
<1>9. FailureIsReported'
  <2>1. ASSUME NEW t \in 1 .. Tests, report'[t] = "failed"
        PROVE  report[t] = "failed"
    BY <1>1, <1>2, <2>1 DEF IInv, TypeOK
  <2> QED BY <1>1, <2>1 DEF IInv, FailureIsReported
<1> QED BY <1>6, <1>7, <1>8, <1>9 DEF IInv

LEMMA ReturnFromMainInv == ASSUME IInv, ReturnFromMain PROVE IInv'
<1>1. /\ exit = "running" /\ exit' \in {"failure", "success"}
      /\ UNCHANGED <<at, stack, env, test_env, env_ptr, has_failed, disabled, report,
                     flaws, left>>
  BY DEF ReturnFromMain, Running
<1>2. TypeOK'
  BY <1>1 DEF IInv, TypeOK, Depth
<1>3. TestOutermost' /\ JumpTargetLive' /\ EachTestJudged'
  BY <1>1 DEF IInv, TestOutermost, JumpTargetLive, EachTestJudged, InTest, Depth
<1>4. FailureIsReported'
  BY <1>1 DEF IInv, FailureIsReported
<1> QED BY <1>2, <1>3, <1>4 DEF IInv

\* A statement uses up one of those the program may still execute.
LEMMA StatementCounts ==
  ASSUME IInv, Statement
  PROVE  left' \in 0 .. Statements /\ Running /\ (stack # <<>> \/ at = 0)
  BY NativeTesterAssumption DEF IInv, TypeOK, Statement, InTest

LEMMA SilenceInv == ASSUME IInv, NEW b \in BOOLEAN, silence_output(b) PROVE IInv'
<1>1. /\ left' \in 0 .. Statements /\ disabled' = b
      /\ UNCHANGED <<at, stack, env, test_env, env_ptr, has_failed, report, flaws, exit>>
  BY StatementCounts DEF silence_output
<1>2. TypeOK'
  BY <1>1 DEF IInv, TypeOK, Depth
<1>3. TestOutermost' /\ JumpTargetLive' /\ EachTestJudged' /\ FailureIsReported'
  BY <1>1 DEF IInv, TestOutermost, JumpTargetLive, EachTestJudged,
              FailureIsReported, InTest, Depth
<1> QED BY <1>2, <1>3 DEF IInv

LEMMA FailCheckEqualInv == ASSUME IInv, FailCheckEqual PROVE IInv'
<1>1. /\ left' \in 0 .. Statements /\ has_failed' = TRUE
      /\ flaws' = flaws \cup {"CHECK_EQUAL"}
      /\ UNCHANGED <<at, stack, env, test_env, env_ptr, disabled, report, exit>>
  BY StatementCounts DEF FailCheckEqual
<1>2. has_failed' \in BOOLEAN
  BY <1>1
<1>3. TypeOK'
  BY <1>1, <1>2 DEF IInv, TypeOK, Depth
<1>4. TestOutermost' /\ JumpTargetLive' /\ EachTestJudged' /\ FailureIsReported'
  BY <1>1 DEF IInv, TestOutermost, JumpTargetLive, EachTestJudged,
              FailureIsReported, InTest, Depth
<1> QED BY <1>3, <1>4 DEF IInv

\* Entering an expect macro, in a test or before the first: the same test, if
\* any, is running.
LEMMA EnterKeepsTest ==
  ASSUME IInv, NEW kind \in AssertMacros \cup PrintMacros, Statement,
         Depth < MaxDepth, Enter(kind), UNCHANGED <<at, report>>
  PROVE  /\ stack' \in Seq(Frame) /\ Len(stack') = Depth + 1
         /\ Len(stack') <= MaxDepth
         /\ \A d \in 1 .. Depth : stack'[d] = stack[d]
         /\ stack'[Depth + 1].kind = kind
         /\ TestOutermost' /\ EachTestJudged'
<1>1. Depth \in Nat /\ MaxDepth \in Nat /\ kind \in Kinds
  BY NativeTesterAssumption DEF IInv, TypeOK, Depth, Kinds
<1>2. /\ stack' \in Seq(Frame) /\ Len(stack') = Depth + 1
      /\ \A d \in 1 .. Depth : stack'[d] = stack[d]
      /\ stack'[Depth + 1] = [kind |-> kind, out |-> disabled]
  BY <1>1, Entered DEF IInv
<1>3. InTest' <=> InTest
  <2>1. CASE stack = <<>>
    <3>1. Depth = 0 /\ stack'[1].kind = kind /\ kind # "TEST"
      BY <1>2, <2>1 DEF Depth, AssertMacros, PrintMacros
    <3> QED BY <2>1, <3>1 DEF InTest
  <2>2. CASE stack # <<>>
    <3>1. 1 \in 1 .. Depth /\ stack' # <<>>
      BY <1>1, <1>2, <2>2 DEF IInv, TypeOK, Depth
    <3> QED BY <1>2, <2>2, <3>1 DEF InTest
  <2> QED BY <2>1, <2>2
<1>4. TestOutermost'
  BY <1>3, StatementCounts DEF IInv, TestOutermost, InTest
<1>5. EachTestJudged'
  BY <1>3 DEF IInv, EachTestJudged
<1> QED BY <1>1, <1>2, <1>4, <1>5

LEMMA ExpectAssertInv ==
  ASSUME IInv, NEW k \in AssertMacros, ExpectAssert(k) PROVE IInv'
<1>1. /\ left' \in 0 .. Statements
      /\ Depth < MaxDepth /\ Enter(k) /\ env_ptr' = "test_env"
      /\ test_env' = Depth + 1
      /\ UNCHANGED <<at, env, has_failed, disabled, report, flaws, exit>>
  BY StatementCounts DEF ExpectAssert
<1>2. /\ stack' \in Seq(Frame) /\ Len(stack') = Depth + 1
      /\ Len(stack') <= MaxDepth
      /\ stack'[Depth + 1].kind = k
      /\ TestOutermost' /\ EachTestJudged'
  BY <1>1, EnterKeepsTest DEF ExpectAssert
<1>3. Depth \in Nat /\ MaxDepth \in Nat
  BY NativeTesterAssumption DEF IInv, TypeOK, Depth
<1>4. TypeOK'
  BY <1>1, <1>2, <1>3 DEF IInv, TypeOK, Depth
<1>5. JumpTargetLive'
  BY <1>1, <1>2, <1>3 DEF IInv, JumpTargetLive, Depth
<1>6. FailureIsReported'
  BY <1>1 DEF IInv, FailureIsReported
<1> QED BY <1>2, <1>4, <1>5, <1>6 DEF IInv

\* expect_print is entered inside whatever expect_assert is in force.
LEMMA ExpectPrintInv ==
  ASSUME IInv, NEW k \in PrintMacros, ExpectPrint(k) PROVE IInv'
<1>1. /\ left' \in 0 .. Statements
      /\ Depth < MaxDepth /\ Enter(k)
      /\ UNCHANGED <<at, env, test_env, env_ptr, has_failed, disabled, report, flaws, exit>>
  BY StatementCounts DEF ExpectPrint
<1>2. /\ stack' \in Seq(Frame) /\ Len(stack') = Depth + 1
      /\ Len(stack') <= MaxDepth
      /\ \A d \in 1 .. Depth : stack'[d] = stack[d]
      /\ stack'[Depth + 1].kind = k
      /\ TestOutermost' /\ EachTestJudged'
  BY <1>1, EnterKeepsTest DEF ExpectPrint
<1>3. Depth \in Nat /\ MaxDepth \in Nat /\ k \notin AssertMacros
  BY NativeTesterAssumption DEF IInv, TypeOK, Depth, PrintMacros, AssertMacros
<1>4. TypeOK'
  BY <1>1, <1>2, <1>3 DEF IInv, TypeOK, Depth
<1>5. JumpTargetLive'
  <2>1. CASE env_ptr = "test_env"
    <3>1. test_env \in 1 .. Depth /\ stack'[test_env].kind \in AssertMacros
      BY <1>2, <2>1 DEF IInv, JumpTargetLive
    <3>2. ASSUME NEW d \in test_env + 1 .. Depth + 1
          PROVE  stack'[d].kind \notin AssertMacros
      <4>1. CASE d = Depth + 1
        BY <1>2, <1>3, <4>1
      <4>2. CASE d # Depth + 1
        <5>1. d \in test_env + 1 .. Depth /\ d \in 1 .. Depth
          BY <1>3, <3>1, <4>2
        <5> QED BY <1>2, <2>1, <5>1 DEF IInv, JumpTargetLive
      <4> QED BY <4>1, <4>2
    <3> QED BY <1>1, <1>2, <1>3, <3>1, <3>2 DEF IInv, JumpTargetLive, Depth
  <2>2. CASE env_ptr # "test_env"
    BY <1>1, <2>2 DEF IInv, JumpTargetLive
  <2> QED BY <2>1, <2>2
<1>6. FailureIsReported'
  BY <1>1 DEF IInv, FailureIsReported
<1> QED BY <1>2, <1>4, <1>5, <1>6 DEF IInv

LEMMA ReturnToExpectAssertInv == ASSUME IInv, ReturnToExpectAssert PROVE IInv'
<1>1. /\ Running /\ stack # <<>> /\ Top.kind \in AssertMacros
      /\ Judge(Depth, FALSE, Top.out) /\ left' = left
  BY DEF ReturnToExpectAssert
<1>2. Depth \in 1 .. Depth /\ stack[Depth] \in Frame
  BY <1>1 DEF IInv, TypeOK, Depth
<1>3. Top.out \in BOOLEAN
  BY <1>2 DEF Frame, Top
<1>4. left' \in 0 .. Statements /\ stack[Depth].kind \in AssertMacros
  BY <1>1 DEF IInv, TypeOK, Top
<1> QED BY <1>1, <1>2, <1>3, <1>4, JudgeKeepsInv

LEMMA FailAssertInv == ASSUME IInv, FailAssert PROVE IInv'
<1>1. Running /\ left' \in 0 .. Statements
  BY StatementCounts DEF FailAssert
<1>2. CASE env_ptr = "env" /\ Halt /\ UNCHANGED <<env_ptr, flaws>>
  BY <1>1, <1>2, HaltKeepsInv DEF IInv, TypeOK
<1>3. CASE env_ptr = "test_env" /\ \E passed \in BOOLEAN : Judge(test_env, passed, disabled)
  <2>1. test_env \in 1 .. Depth /\ stack[test_env].kind \in AssertMacros
    BY <1>3 DEF IInv, JumpTargetLive
  <2>2. disabled \in BOOLEAN
    BY DEF IInv, TypeOK
  <2> QED BY <1>1, <1>3, <2>1, <2>2, JudgeKeepsInv
<1> QED BY <1>2, <1>3 DEF FailAssert

LEMMA ReturnToExpectPrintInv == ASSUME IInv, ReturnToExpectPrint PROVE IInv'
<1>1. PICK passed \in BOOLEAN :
        /\ Top.kind = "CHECK_PRINT" \/ passed
        /\ Flawed(Top.kind, passed)
        /\ has_failed' = IF Top.kind = "CHECK_PRINT" THEN Accumulated(passed)
                                                     ELSE has_failed
  BY DEF ReturnToExpectPrint
<1>2. /\ stack # <<>> /\ Top.kind \in PrintMacros /\ LeaveTo(Depth - 1)
      /\ UNCHANGED <<at, env, test_env, env_ptr, disabled, report, left, exit>>
  BY DEF ReturnToExpectPrint
<1>3. /\ Depth \in 1 .. Depth /\ stack[Depth].kind # "TEST"
      /\ stack[Depth].kind \notin AssertMacros
  BY <1>2 DEF IInv, TypeOK, Depth, Top, PrintMacros, AssertMacros
<1>4. /\ stack' \in Seq(Frame) /\ Len(stack') = Depth - 1 /\ Len(stack') <= MaxDepth
      /\ \A e \in 1 .. Depth - 1 : stack'[e] = stack[e]
      /\ TestOutermost' /\ EachTestJudged'
  BY <1>2, <1>3, LeaveKeepsTest
<1>5. flaws' \subseteq Kinds \cup {"CHECK_EQUAL"}
  BY <1>1, <1>2 DEF IInv, TypeOK, Flawed, Kinds
<1>6. has_failed' \in BOOLEAN
  BY <1>1 DEF IInv, TypeOK, Accumulated
<1>7. TypeOK'
  BY <1>2, <1>4, <1>5, <1>6 DEF IInv, TypeOK, Depth
<1>8. JumpTargetLive'
  <2>1. Depth \in Nat
    BY DEF IInv, TypeOK, Depth
  <2>2. env_ptr = "test_env" => test_env \in 1 .. Depth - 1
    BY <1>3, <2>1 DEF IInv, TypeOK, JumpTargetLive
  <2>3. Len(stack') = Depth - 1
    BY <1>4
  <2>4. env_ptr = "test_env" => stack'[test_env].kind \in AssertMacros
    BY <1>4, <2>2 DEF IInv, JumpTargetLive
  <2>5. env_ptr = "test_env" =>
          \A d \in test_env + 1 .. Depth - 1 : stack'[d].kind \notin AssertMacros
    <3>1. ASSUME env_ptr = "test_env", NEW d \in test_env + 1 .. Depth - 1
          PROVE  stack'[d].kind \notin AssertMacros
      <4>1. d \in 1 .. Depth - 1 /\ d \in test_env + 1 .. Depth
        BY <2>1, <2>2, <3>1
      <4> QED BY <1>4, <3>1, <4>1 DEF IInv, JumpTargetLive
    <3> QED BY <3>1
  <2> QED BY <1>2, <2>2, <2>3, <2>4, <2>5 DEF IInv, JumpTargetLive, Depth
<1>9. FailureIsReported'
  <2>1. CASE passed
    <3>1. flaws' = flaws /\ report' = report /\ exit' = exit
      BY <1>1, <1>2, <2>1 DEF Flawed
    <3>2. has_failed' = has_failed
      BY <1>1, <2>1 DEF IInv, TypeOK, Accumulated
    <3> QED BY <3>1, <3>2 DEF IInv, FailureIsReported
  <2>2. CASE ~passed
    <3>1. "CHECK_PRINT" \in flaws'
      BY <1>1, <2>2 DEF Flawed
    <3> QED BY <3>1 DEF FailureIsReported
  <2> QED BY <2>1, <2>2
<1> QED BY <1>4, <1>7, <1>8, <1>9 DEF IInv

LEMMA FailRequirePrintInv == ASSUME IInv, FailRequirePrint PROVE IInv'
<1>1. Running /\ left' \in 0 .. Statements
  BY DEF FailRequirePrint, IInv, TypeOK
<1>2. CASE env_ptr = "env" /\ Halt /\ Flawed("REQUIRE_PRINT", FALSE) /\ UNCHANGED env_ptr
  <2>1. flaws' \subseteq Kinds \cup {"CHECK_EQUAL"}
    BY <1>2 DEF IInv, TypeOK, Flawed, Kinds, PrintMacros
  <2> QED BY <1>1, <1>2, <2>1, HaltKeepsInv
<1>3. CASE env_ptr = "test_env" /\ \E passed \in BOOLEAN : Judge(test_env, passed, FALSE)
  <2>1. test_env \in 1 .. Depth /\ stack[test_env].kind \in AssertMacros
    BY <1>3 DEF IInv, JumpTargetLive
  <2> QED BY <1>1, <1>3, <2>1, JudgeKeepsInv
<1> QED BY <1>2, <1>3 DEF FailRequirePrint

LEMMA StutterInv == ASSUME IInv, UNCHANGED vars PROVE IInv'
<1>1. UNCHANGED <<at, stack, env, test_env, env_ptr, has_failed, disabled, report,
                  flaws, left, exit>>
  BY DEF vars
<1>2. TypeOK'
  BY <1>1 DEF IInv, TypeOK, Depth
<1> QED BY <1>1, <1>2 DEF IInv, TestOutermost, JumpTargetLive, EachTestJudged,
                          FailureIsReported, InTest, Depth

\* One step of the program, whichever macro or function takes it.
LEMMA StepInv == ASSUME IInv, [Next]_vars PROVE IInv'
<1>1. CASE RunTest BY <1>1, RunTestInv
<1>2. CASE EndTest BY <1>2, EndTestInv
<1>3. CASE ReturnFromMain BY <1>3, ReturnFromMainInv
<1>4. CASE \E b \in BOOLEAN : silence_output(b) BY <1>4, SilenceInv
<1>5. CASE FailCheckEqual BY <1>5, FailCheckEqualInv
<1>6. CASE \E k \in AssertMacros : ExpectAssert(k) BY <1>6, ExpectAssertInv
<1>7. CASE ReturnToExpectAssert BY <1>7, ReturnToExpectAssertInv
<1>8. CASE FailAssert BY <1>8, FailAssertInv
<1>9. CASE \E k \in PrintMacros : ExpectPrint(k) BY <1>9, ExpectPrintInv
<1>10. CASE ReturnToExpectPrint BY <1>10, ReturnToExpectPrintInv
<1>11. CASE FailRequirePrint BY <1>11, FailRequirePrintInv
<1>12. CASE UNCHANGED vars BY <1>12, StutterInv
<1> QED BY <1>1, <1>2, <1>3, <1>4, <1>5, <1>6, <1>7, <1>8, <1>9, <1>10, <1>11, <1>12
        DEF Next

-----------------------------------------------------------------------------
(* The inductive invariant holds of every reachable state of the tester.   *)
THEOREM InvHolds == Spec => []IInv
<1>1. IInv /\ [Next]_vars => IInv'
  BY StepInv
<1> QED BY InitInv, <1>1, PTL DEF Spec

(* The variables of the tester keep their types and the nesting its bound. *)
THEOREM TypeCorrect == Spec => []TypeOK
<1>1. IInv => TypeOK
  BY DEF IInv
<1> QED BY InvHolds, <1>1, PTL

(* longjmp through ___env_ptr always finds the frame that called setjmp,   *)
(* and the innermost one: for any nesting of tests and expect macros.      *)
THEOREM JumpsAreLive == Spec => []JumpTargetLive
<1>1. IInv => JumpTargetLive
  BY DEF IInv
<1> QED BY InvHolds, <1>1, PTL

(* Whatever asserts fail, every UOSIO_TEST main has left has one verdict,  *)
(* and no later one has.                                                   *)
THEOREM TestsAreJudged == Spec => []EachTestJudged
<1>1. IInv => EachTestJudged
  BY DEF IInv
<1> QED BY InvHolds, <1>1, PTL

(* A failure is in the status main returns, unless a CHECK_ASSERT or a     *)
(* CHECK_PRINT failed too: their &= clears it.                             *)
THEOREM FailuresAreReported == Spec => []FailureIsReported
<1>1. IInv => FailureIsReported
  BY DEF IInv
<1> QED BY InvHolds, <1>1, PTL

=============================================================================
