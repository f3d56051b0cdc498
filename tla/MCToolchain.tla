---------------------------- MODULE MCToolchain -----------------------------
(***************************************************************************)
(* Contracts of one, two and three sources for Toolchain: actions under    *)
(* their own and another name, redeclared methods, the header of another   *)
(* contract, a method named as a built-in type, handlers of one or two     *)
(* accounts and of any, with and without each hook.  Every call of two     *)
(* accounts' contracts is tried on each.                                   *)
(***************************************************************************)
EXTENDS Toolchain

MCBuiltin == {"int32", "name", "symbol"}
MCCodeOrder == <<"*", "other", "token", "uosio">>

Act(method, action, params) ==
  [kind |-> "action", own |-> TRUE, class |-> "C", method |-> method, code |-> "",
   action |-> action, params |-> params]
On(code, action, method) ==
  [kind |-> "notify", own |-> TRUE, class |-> "C", method |-> method, code |-> code,
   action |-> action, params |-> <<>>]

Open == Act("open", "open", <<"int32">>)
Pay == Act("pay", "send", <<"int32", "name">>)
TheirOpen == [Open EXCEPT !.own = FALSE, !.class = "D"]
TheirPing == [Act("ping", "ping", <<>>) EXCEPT !.own = FALSE, !.class = "D"]
TokenMoved == On("token", "moved", "on_token")
TokenOpen == On("token", "open", "on_open")
OtherMoved == On("other", "moved", "on_other")
AnyMoved == On(ANY, "moved", "on_any")
AnySend == On(ANY, "send", "on_send")
SysError == On(UOSIO, ONERROR, "on_error")

From(methods) == [methods |-> methods, other |-> <<>>]
With(section, id, def) == [section |-> section, object |-> [id |-> id, def |-> def]]

\* An action that has a parameter of the type.
UserOf == [s |-> "uses", v |-> "usev", w |-> "usew"]
Using(id) ==
  IF id \in DOMAIN UserOf THEN <<Act(UserOf[id], UserOf[id], <<id>>)>> ELSE <<>>
Holding(other) ==
  [methods |-> <<Open>> \o (IF other = <<>> THEN <<>> ELSE Using(other[1].object.id)),
   other |-> other]

ActionParts == {<<Open>>, <<TheirPing, Open, Pay>>, <<Open, Pay, Open>>}
NotifyParts ==
  {<<>>, <<AnyMoved>>, <<AnySend, AnyMoved>>, <<TokenMoved, AnyMoved>>, <<TokenMoved>>,
   <<TokenOpen, AnySend, TokenMoved, AnyMoved>>, <<SysError, AnyMoved>>,
   <<TokenMoved, OtherMoved, AnyMoved>>}
OneSource == {<<From(a \o n)>> : a \in ActionParts, n \in NotifyParts}

TwoSources ==
  {<<From(<<Open>> \o n), From(b)>> :
     n \in {<<>>, <<AnyMoved>>, <<TokenMoved, AnyMoved>>},
     b \in {<<Pay>>, <<Open>>, <<Open, AnyMoved>>, <<AnySend, Pay>>}}

\* Objects that agree, differ, or differ in an order that is not compared,
\* with what they name; last, the record of a table of another contract, which
\* nothing names, so that neither it nor the typedef it uses is in the ABI.
Struct(id, base, fields) == With("structs", id, [base |-> base, fields |-> fields])
Others ==
  {<<With("variants", "v", <<"int32">>)>>, <<With("variants", "v", <<"int32", "name">>)>>,
   <<Struct("s", "", <<"int32", "name">>)>>, <<Struct("s", "", <<"name", "int32">>)>>,
   <<Struct("s", "b", <<"name", "int32">>), Struct("b", "", <<>>)>>,
   <<With("tables", "t", "s"), Struct("s", "", <<"int32", "name">>)>>,
   <<With("types", "w", "int32")>>, <<With("types", "w", "name")>>,
   <<With("ricardian_clauses", "c", "text")>>,
   <<Struct("u", "", <<"y">>), With("types", "y", "int32")>>,
   <<Struct("u", "", <<"y">>), With("types", "y", "name")>>}
TwoTexts ==
  <<With("ricardian_clauses", "d", "text"), With("ricardian_clauses", "d", "other text")>>
Clashing == {<<x, y>> \in Others \X Others : x[1].object.id = y[1].object.id}
ToMerge ==
  {<<Holding(x), Holding(y)>> : x, y \in Others}
  \cup {<<Holding(p[1]), Holding(<<>>), Holding(p[2])>> : p \in Clashing}
  \cup {<<Holding(<<>>), Holding(p[1]), Holding(p[2])>> : p \in Clashing}
  \cup {<<Holding(<<>>), Holding(TwoTexts)>>, <<Holding(TwoTexts), Holding(<<>>)>>}

Contract(sources, separate, pre, post, dtors) ==
  [sources |-> sources, separate |-> separate, pre |-> pre, post |-> post, dtors |-> dtors]

MCPrograms ==
  {Contract(s, FALSE, pre, post, dtors) :
     s \in OneSource \cup {<<From(<<AnyMoved>>)>>, <<From(<<TheirOpen, Open>>)>>,
                           <<From(<<Open, Act("other", "open", <<>>)>>)>>,
                           <<From(<<Open, Act("symbol", "issue", <<"name">>)>>)>>},
     pre, post, dtors \in BOOLEAN}
  \cup {Contract(s, separate, FALSE, post, TRUE) :
          s \in TwoSources, separate, post \in BOOLEAN}
  \cup {Contract(s, separate, FALSE, FALSE, FALSE) : s \in ToMerge, separate \in BOOLEAN}

\* The account the contract is on, where the action was first received, its name.
MCCalls ==
  {c \in [receiver : {"me", UOSIO}, code : {"me", "token", "other", UOSIO},
          action : {"open", "send", "moved", ONERROR}, accepted : {"true", "false"}] :
     c.accepted = "false" => c.code = c.receiver /\ c.action = "open"}

\* The contract of the guide's first example of on_notify.
GuideProgram ==
  {Contract(<<From(<<Open, TokenMoved>>)>>, FALSE, FALSE, FALSE, TRUE)}
=============================================================================
