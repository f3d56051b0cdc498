---------------------------- MODULE NativeTester ----------------------------
(***************************************************************************)
(* The native tester: the macros of native/uosio/tester.hpp over the two   *)
(* jump buffers of native/crt.cpp, with uosio_assert of intrinsics.cpp.    *)
(*                                                                         *)
(* main runs Tests tests in order and returns has_failed().  What it does  *)
(* before the first test, and what the tests do, is up to their author:    *)
(* any statement may come next, at any depth of functions passed to the    *)
(* expect macros.  Between two tests main is taken to do nothing: an       *)
(* assert there would go back to the UOSIO_TEST before it and so run the   *)
(* same code again.  A failed assert is a longjmp through ___env_ptr.      *)
(* Messages and captured output are reduced to the verdict of the          *)
(* predicate that compares them.                                           *)
(***************************************************************************)
EXTENDS Naturals, Sequences

CONSTANTS Tests,       \* number of UOSIO_TEST lines in main
          MaxDepth,    \* bound: nesting of test, expect_assert, expect_print
          Statements   \* bound: statements the whole program executes

ASSUME NativeTesterAssumption ==
  Tests \in Nat /\ MaxDepth \in Nat \ {0} /\ Statements \in Nat

VARIABLES
  at,          \* the UOSIO_TEST line main is on or has left; 0 before the first
  stack,       \* active tests and expect calls, the innermost last
  env,         \* what env restores: _wrap_main (0) or a UOSIO_TEST line
  test_env,    \* what test_env restores: a depth of the stack
  env_ptr,     \* ___env_ptr
  has_failed,  \* ___has_failed
  disabled,    \* ___disable_output
  report,      \* what was last printed of each test
  flaws,       \* the check macros that have found something wrong
  left,        \* statements left to execute
  exit         \* "running", or how the program ended

vars == <<at, stack, env, test_env, env_ptr, has_failed, disabled, report, flaws,
          left, exit>>

AssertMacros == {"CHECK_ASSERT", "REQUIRE_ASSERT"}
PrintMacros == {"CHECK_PRINT", "REQUIRE_PRINT"}
Kinds == {"TEST"} \cup AssertMacros \cup PrintMacros

\* A call in progress, with the disable_out of its entry.
Frame == [kind : Kinds, out : BOOLEAN]

\* _wrap_main: the flags are cleared and env is set before main runs.
Init ==
  /\ at = 0 /\ stack = <<>>
  /\ env = 0 /\ test_env = 0 /\ env_ptr = "env"
  /\ has_failed = FALSE /\ disabled = FALSE
  /\ report = [t \in 1 .. Tests |-> "none"]
  /\ flaws = {}
  /\ left = Statements
  /\ exit = "running"

Depth == Len(stack)
Top == stack[Depth]
Enter(kind) == stack' = Append(stack, [kind |-> kind, out |-> disabled])
LeaveTo(d) == stack' = SubSeq(stack, 1, d)
InTest == stack # <<>> /\ stack[1].kind = "TEST"

Running == exit = "running"

\* One more statement of the author's code, in a test or before the first.
Statement ==
  /\ Running /\ left > 0
  /\ InTest \/ at = 0
  /\ left' = left - 1

-----------------------------------------------------------------------------
(* longjmp(env): back in main, in the branch of UOSIO_TEST that reports the *)
(* failure; or, before the first test, out of _wrap_main with -1.  Mutants: *)
(* the flag or the report is forgotten.                                     *)
HaltUnflagged ==
  /\ LeaveTo(0)
  /\ \/ env = 0 /\ exit' = "aborted" /\ UNCHANGED <<disabled, report>>
     \/ /\ env # 0
        /\ report' = [report EXCEPT ![env] = "failed"]
        /\ disabled' = FALSE
        /\ UNCHANGED exit
  /\ UNCHANGED <<at, env, test_env, has_failed>>
HaltUnreported ==
  /\ LeaveTo(0)
  /\ \/ env = 0 /\ exit' = "aborted" /\ UNCHANGED <<has_failed, disabled>>
     \/ env # 0 /\ has_failed' = TRUE /\ disabled' = FALSE /\ UNCHANGED exit
  /\ UNCHANGED <<at, env, test_env, report>>
Halt ==
  /\ LeaveTo(0)
  /\ \/ /\ env = 0
        /\ exit' = "aborted"
        /\ UNCHANGED <<has_failed, disabled, report>>
     \/ /\ env # 0
        /\ report' = [report EXCEPT ![env] = "failed"]
        /\ has_failed' = TRUE
        /\ disabled' = FALSE
        /\ UNCHANGED exit
  /\ UNCHANGED <<at, env, test_env>>

\* UOSIO_TEST(X): setjmp(*___env_ptr), then X().
RunTest ==
  /\ Running /\ stack = <<>> /\ at < Tests
  /\ at' = at + 1
  /\ Enter("TEST")
  /\ IF env_ptr = "env" THEN env' = at + 1 /\ UNCHANGED test_env
                        ELSE test_env' = 0 /\ UNCHANGED env
  /\ UNCHANGED <<env_ptr, has_failed, disabled, report, flaws, left, exit>>

\* UOSIO_TEST_END: output is switched on and stays on.
EndTest ==
  /\ Running /\ InTest /\ Depth = 1
  /\ LeaveTo(0)
  /\ report' = [report EXCEPT ![at] = "passed"]
  /\ disabled' = FALSE
  /\ UNCHANGED <<at, env, test_env, env_ptr, has_failed, flaws, left, exit>>

\* return has_failed();
ReturnFromMain ==
  /\ Running /\ stack = <<>> /\ at = Tests
  /\ exit' = IF has_failed THEN "failure" ELSE "success"
  /\ UNCHANGED <<at, stack, env, test_env, env_ptr, has_failed, disabled, report,
                 flaws, left>>

silence_output(b) ==
  /\ Statement
  /\ disabled' = b
  /\ UNCHANGED <<at, stack, env, test_env, env_ptr, has_failed, report, flaws, exit>>

\* CHECK_EQUAL with unequal operands.
FailCheckEqual ==
  /\ Statement
  /\ has_failed' = TRUE
  /\ flaws' = flaws \cup {"CHECK_EQUAL"}
  /\ UNCHANGED <<at, stack, env, test_env, env_ptr, disabled, report, exit>>

-----------------------------------------------------------------------------
(* CHECK_ASSERT and REQUIRE_ASSERT.                                        *)

\* Mutant: setjmp comes before __set_env_test, and what env restores is then
\* no UOSIO_TEST line but the call at this depth, written Tests + its depth.
ExpectAssertLate(kind) ==
  /\ Statement
  /\ Depth < MaxDepth
  /\ Enter(kind)
  /\ env_ptr' = "test_env"
  /\ IF env_ptr = "env" THEN env' = Tests + Depth + 1 /\ UNCHANGED test_env
                        ELSE test_env' = Depth + 1 /\ UNCHANGED env
  /\ UNCHANGED <<at, has_failed, disabled, report, flaws, exit>>

\* expect_assert up to the call of func.
ExpectAssert(kind) ==
  /\ Statement
  /\ Depth < MaxDepth
  /\ Enter(kind)
  /\ env_ptr' = "test_env"
  /\ test_env' = Depth + 1
  /\ UNCHANGED <<at, env, has_failed, disabled, report, flaws, exit>>

\* ___has_failed &= expect_...(true, ...)
Accumulated(passed) == has_failed /\ passed

Flawed(kind, passed) == flaws' = IF passed THEN flaws ELSE flaws \cup {kind}

\* What follows func in the expect_assert at depth d: REQUIRE asserts on a
\* failure, with env in force again; CHECK accumulates.  Mutants: __reset_env
\* is forgotten on the way to that assert, which then lands here again, or on
\* the way out.
JudgeUnresetRequire(d, passed, out) ==
  IF stack[d].kind = "REQUIRE_ASSERT" /\ ~passed
  THEN UNCHANGED <<at, stack, env, test_env, env_ptr, has_failed, disabled, report,
                   flaws, exit>>
  ELSE /\ env_ptr' = "env" /\ LeaveTo(d - 1) /\ disabled' = out
       /\ Flawed(stack[d].kind, passed)
       /\ UNCHANGED <<at, env, test_env, has_failed, report, exit>>
JudgeUnreset(d, passed, out) ==
  /\ Flawed(stack[d].kind, passed)
  /\ LeaveTo(d - 1)
  /\ UNCHANGED <<at, env, test_env, env_ptr, has_failed, disabled, report, exit>>
Judge(d, passed, out) ==
  /\ env_ptr' = "env"
  /\ Flawed(stack[d].kind, passed)
  /\ IF stack[d].kind = "REQUIRE_ASSERT" /\ ~passed
     THEN Halt
     ELSE /\ LeaveTo(d - 1)
          /\ disabled' = out
          /\ has_failed' = IF stack[d].kind = "CHECK_ASSERT"
                           THEN Accumulated(passed) ELSE has_failed
          /\ UNCHANGED <<at, env, test_env, report, exit>>

\* func returned: no assert has occurred.  disable_out dates from before func.
ReturnToExpectAssert ==
  /\ Running /\ stack # <<>> /\ Top.kind \in AssertMacros
  /\ Judge(Depth, FALSE, Top.out)
  /\ UNCHANGED left

\* uosio_assert(false, ...) in the author's code, or REQUIRE_EQUAL with unequal
\* operands: longjmp(*___env_ptr, 1).  disable_out is read again after setjmp.
FailAssert ==
  /\ Statement
  /\ \/ env_ptr = "env" /\ Halt /\ UNCHANGED <<env_ptr, flaws>>
     \/ /\ env_ptr = "test_env"
        /\ \E passed \in BOOLEAN : Judge(test_env, passed, disabled)

-----------------------------------------------------------------------------
(* CHECK_PRINT and REQUIRE_PRINT: expect_print sets no jump buffer.        *)

ExpectPrint(kind) ==
  /\ Statement
  /\ Depth < MaxDepth
  /\ Enter(kind)
  /\ UNCHANGED <<at, env, test_env, env_ptr, has_failed, disabled, report, flaws, exit>>

\* func returned; CHECK, or the output is as expected.
ReturnToExpectPrint ==
  /\ Running /\ stack # <<>> /\ Top.kind \in PrintMacros
  /\ LeaveTo(Depth - 1)
  /\ \E passed \in BOOLEAN :
       /\ Top.kind = "CHECK_PRINT" \/ passed
       /\ Flawed(Top.kind, passed)
       /\ has_failed' = IF Top.kind = "CHECK_PRINT" THEN Accumulated(passed)
                                                    ELSE has_failed
  /\ UNCHANGED <<at, env, test_env, env_ptr, disabled, report, left, exit>>

\* REQUIRE_PRINT, the output is wrong: uosio::check asserts with output on,
\* through ___env_ptr, which an expect_assert around this one may have set.
FailRequirePrint ==
  /\ Running /\ stack # <<>> /\ Top.kind = "REQUIRE_PRINT"
  /\ UNCHANGED left
  /\ \/ /\ env_ptr = "env" /\ Halt
        /\ Flawed("REQUIRE_PRINT", FALSE)
        /\ UNCHANGED env_ptr
     \/ /\ env_ptr = "test_env"
        /\ \E passed \in BOOLEAN : Judge(test_env, passed, FALSE)

-----------------------------------------------------------------------------
Next ==
  \/ RunTest \/ EndTest \/ ReturnFromMain
  \/ \E b \in BOOLEAN : silence_output(b)
  \/ FailCheckEqual
  \/ \E k \in AssertMacros : ExpectAssert(k)
  \/ ReturnToExpectAssert \/ FailAssert
  \/ \E k \in PrintMacros : ExpectPrint(k)
  \/ ReturnToExpectPrint \/ FailRequirePrint

\* One thread runs the program, and the author's functions return.
Spec == Init /\ [][Next]_vars /\ WF_vars(Next)

-----------------------------------------------------------------------------
(* Type invariant.                                                         *)
TypeOK ==
  /\ at \in 0 .. Tests /\ env \in 0 .. Tests
  /\ stack \in Seq(Frame) /\ Depth <= MaxDepth
  /\ test_env \in 0 .. MaxDepth /\ env_ptr \in {"env", "test_env"}
  /\ has_failed \in BOOLEAN /\ disabled \in BOOLEAN
  /\ report \in [1 .. Tests -> {"none", "passed", "failed"}]
  /\ flaws \subseteq (Kinds \cup {"CHECK_EQUAL"})
  /\ left \in 0 .. Statements
  /\ exit \in {"running", "aborted", "success", "failure"}

(* A failed assert never jumps into a function that has returned: when     *)
(* ___env_ptr is test_env, an expect_assert is active in the frame it was  *)
(* set in, and no other has been entered since; env is that of the last    *)
(* UOSIO_TEST, and in force between tests.                                 *)
JumpTargetLive ==
  /\ env = at
  /\ env_ptr = "test_env" =>
       /\ test_env \in 1 .. Depth
       /\ stack[test_env].kind \in AssertMacros
       /\ \A d \in test_env + 1 .. Depth : stack[d].kind \notin AssertMacros

(* No test is skipped and none is judged early, whatever jumps over what:  *)
(* exactly the tests main has left have a verdict.                         *)
EachTestJudged ==
  \A t \in 1 .. Tests :
    report[t] # "none" <=> (t < at \/ (t = at /\ ~InTest))

(* As long as no CHECK_ASSERT or CHECK_PRINT has failed, any other failure *)
(* - an assert that ends a test, a REQUIRE macro, CHECK_EQUAL - stays      *)
(* visible in the status that main will return.                            *)
FailureIsReported ==
  /\ flaws \cap {"CHECK_ASSERT", "CHECK_PRINT"} = {}
  /\ flaws # {} \/ \E t \in 1 .. Tests : report[t] = "failed"
  => has_failed \/ exit = "aborted"

(* The program ends, whichever asserts fail and wherever they land: an     *)
(* assert raised by the expect macros never comes back to them.            *)
Terminates == <>(exit # "running")
=============================================================================
