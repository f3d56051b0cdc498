---------------------------- MODULE MCActionData ----------------------------
(***************************************************************************)
(* Bytes of three bits, groups of two, words of five.  The values of each  *)
(* type lie on both sides of a group's limit; together the signatures use  *)
(* every type in every wrapper.                                            *)
(***************************************************************************)
EXTENDS ActionData

P(wrap, type) == [wrap |-> wrap, type |-> type]

MCSignatures ==
  { <<P("plain", "int"), P("plain", "unsigned_int"), P("extension", "signed_int"),
      P("ignore", "string")>>,
    <<P("plain", "string"), P("plain", "set"), P("extension", "optional")>>,
    <<P("plain", "signed_int"), P("plain", "variant"), P("extension", "int"),
      P("extension", "string")>>,
    <<P("plain", "optional"), P("ignore", "variant"), P("ignore", "set")>>,
    <<P("extension", "unsigned_int"), P("ignore", "int")>> }

MCValues ==
  [t \in Types |->
     CASE t = "int" -> {0, 42}
       [] t = "unsigned_int" -> {0, 3, 4, 31}
       [] t = "signed_int" -> {-16, -3, 0, 15}
       [] t = "string" -> {<<>>, <<5>>, <<7, 0, 1, 2>>}
       [] t = "optional" -> {<<>>, <<7>>}
       [] t = "set" -> {{}, {0, 4, 31}}
       [] t = "variant" -> {[index |-> 0, val |-> 63], [index |-> 1, val |-> <<1, 2>>]}]
=============================================================================
