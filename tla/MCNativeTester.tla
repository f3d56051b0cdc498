--------------------------- MODULE MCNativeTester ---------------------------
(***************************************************************************)
(* Small test programs: a few tests and a few statements, nested enough    *)
(* for an expect_assert inside an expect_assert inside a test.             *)
(***************************************************************************)
EXTENDS NativeTester
=============================================================================
