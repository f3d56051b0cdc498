------------------------------ MODULE Dispatch ------------------------------
(***************************************************************************)
(* The body of apply(receiver, code, action) that the linker writes for a  *)
(* contract without an entry of its own: Writer::createDispatchFunction of *)
(* the patched lld.  The bytes are abstracted to instructions, the         *)
(* constant, the local and the comparison before an IF to its condition.   *)
(*                                                                         *)
(* How WebAssembly reads such a body is not in the repository: Validated   *)
(* and Jumps say what a node does with IF, ELSE, END and a call.           *)
(***************************************************************************)
EXTENDS Integers, SequencesExt

CONSTANT CodeOrder   \* the accounts in the order of std::map's string keys

\* A std::map has each key once.
ASSUME CodeOrderAssumption ==
  CodeOrder \in Seq(ToSet(CodeOrder)) /\ IsInjective(CodeOrder)

ANY == "*"           \* the account of an on_notify("*::action")
UOSIO == "uosio"     \* the system account
ONERROR == "onerror" \* its notification of a failed deferred transaction

If(local, rel, operand) == [op |-> "IF", arg |-> <<local, rel, operand>>]
Else == [op |-> "ELSE", arg |-> <<>>]
End == [op |-> "END", arg |-> <<>>]
Call(function) == [op |-> "CALL", arg |-> function]

Ctors == <<"__wasm_call_ctors">>
Dtors == <<"__cxa_finalize">>
PreDispatch == <<"pre_dispatch">>
PostDispatch == <<"post_dispatch">>
NoAction == <<"uosio_assert_code", "UOSIO_ERROR_NO_ACTION">>
OnErrorAssert == <<"uosio_assert_code", "UOSIO_ERROR_ONERROR">>
Asserts == {NoAction, OnErrorAssert}

When(condition, instructions) == IF condition THEN instructions ELSE <<>>
Ends(n) == [i \in 1 .. n |-> End]


\* create_if: one stub, called when the action has its name.
create_if(h, need_else) ==
  When(need_else, <<Else>>) \o <<If("action", "EQ", h.action), Call(h.function)>>

IfChain(handlers) ==
  FlattenSeq([i \in 1 .. Len(handlers) |-> create_if(handlers[i], i > 1)])

\* The std::set has_dispatched: a stub named by several objects counts once.
InsertOnce(dispatched, stub) ==
  IF stub \in ToSet(dispatched) THEN dispatched ELSE Append(dispatched, stub)

HasDispatched(stubs) ==
  LET dispatched[i \in 0 .. Len(stubs)] ==
        IF i = 0 THEN <<>> ELSE InsertOnce(dispatched[i - 1], stubs[i])
  IN dispatched[Len(stubs)]

\* What is in S of a sequence, in its order.
Keep(s, S) ==
  LET kept[i \in 0 .. Len(s)] ==
        IF i = 0 THEN <<>> ELSE IF s[i] \in S THEN Append(kept[i - 1], s[i]) ELSE kept[i - 1]
  IN kept[Len(s)]

create_action_dispatch(actions, post) ==
  LET acts == HasDispatched(actions)
  IN IfChain(acts)
     \o When(acts # <<>>, <<Else>>)
     \o <<If("receiver", "NE", UOSIO), Call(NoAction)>>
     \o When(post, <<Else, Call(PostDispatch)>>)
     \o <<End>>
     \o Ends(Len(acts))

\* notify_handlers[code]: the stubs of one account, in the order of the objects.
NotifyHandlers(notify, code) ==
  Keep(HasDispatched(notify), {h \in ToSet(notify) : h.code = code})

\* The accounts that have handlers of their own.
NotifyCodes(notify) ==
  Keep(CodeOrder, {h.code : h \in ToSet(notify)} \ {ANY})

OnErrorCheck(notify) ==
  LET hs == NotifyHandlers(notify, UOSIO)
  IN When(\A i \in DOMAIN hs : hs[i].action # ONERROR,
          <<If("code", "EQ", UOSIO), If("action", "EQ", ONERROR),
            Call(OnErrorAssert), End, End>>)

\* The stubs of one account.  The IF on the account itself stays open here.
CodeGroup(notify, code, need_else) ==
  LET hs == NotifyHandlers(notify, code)
  IN When(need_else, <<Else>>)
     \o <<If("code", "EQ", code)>> \o IfChain(hs) \o Ends(Len(hs))

\* Mutant: the ELSE of post_dispatch is not ended.
create_notify_dispatch_open(notify, post) ==
  LET codes == NotifyCodes(notify)
      wild == NotifyHandlers(notify, ANY)
  IN OnErrorCheck(notify)
     \o FlattenSeq([i \in 1 .. Len(codes) |-> CodeGroup(notify, codes[i], i > 1)])
     \o When(codes # <<>>, <<Else>>)
     \o IfChain(wild)
     \o When(post, <<Else, Call(PostDispatch)>>)
     \o Ends(Len(wild))

create_notify_dispatch(notify, post) ==
  LET codes == NotifyCodes(notify)
      wild == NotifyHandlers(notify, ANY)
  IN OnErrorCheck(notify)
     \o FlattenSeq([i \in 1 .. Len(codes) |-> CodeGroup(notify, codes[i], i > 1)])
     \o When(codes # <<>>, <<Else>>)
     \o IfChain(wild)
     \o When(post, <<Else, Call(PostDispatch), End>>)
     \o Ends(Len(wild))

\* What the objects being linked hold, o.pre, o.post and o.dtors telling which
\* of the three symbols the symbol table has.
createDispatchFunction(o) ==
  <<Call(Ctors)>>
  \o When(o.pre, <<Call(PreDispatch), If("pre_dispatch", "EQ", "true")>>)
  \o <<If("receiver", "EQ", "code")>>
  \o create_action_dispatch(o.actions, o.post)
  \o <<Else>>
  \o create_notify_dispatch(o.notify, o.post)
  \o <<End>>
  \o When(o.dtors, <<Call(Dtors)>>)
  \o When(o.pre, <<End>>)
  \o <<End>>
-----------------------------------------------------------------------------
(***************************************************************************)
(* WebAssembly.                                                            *)
(***************************************************************************)

\* One instruction of the validation: the blocks that are open, and whether
\* every instruction so far was allowed where it stands.
Validate(state, instr) ==
  LET top == IF state.blocks = <<>> THEN "none" ELSE Last(state.blocks)
      legal == CASE instr.op = "ELSE" -> top = "IF"
                 [] OTHER -> top # "none"
      blocks == IF ~legal THEN state.blocks
                ELSE CASE instr.op = "IF" -> Append(state.blocks, "IF")
                       [] instr.op = "ELSE" -> Append(Front(state.blocks), "ELSE")
                       [] instr.op = "END" -> Front(state.blocks)
                       [] OTHER -> state.blocks
  IN [blocks |-> blocks, legal |-> state.legal /\ legal]

\* Every IF has at most one ELSE and its END, and the last END is the function's.
Validated(body) ==
  LET state[i \in 0 .. Len(body)] ==
        IF i = 0 THEN [blocks |-> <<"function">>, legal |-> TRUE]
        ELSE Validate(state[i - 1], body[i])
  IN state[Len(body)].legal /\ state[Len(body)].blocks = <<>>

\* The block that an IF or ELSE at i opens: the instructions up to its END,
\* and the ELSE of its own when it has one (0 when not).
Block(body, i) ==
  LET Scan(s, j) ==
        IF s.end # 0 THEN s
        ELSE CASE body[j].op = "IF" -> [s EXCEPT !.depth = @ + 1]
               [] body[j].op = "END" /\ s.depth > 0 -> [s EXCEPT !.depth = @ - 1]
               [] body[j].op = "END" /\ s.depth = 0 -> [s EXCEPT !.end = j]
               [] body[j].op = "ELSE" /\ s.depth = 0 -> [s EXCEPT !.else = j]
               [] OTHER -> s
  IN FoldLeft(Scan, [depth |-> 0, else |-> 0, end |-> 0],
              [j \in 1 .. Len(body) - i |-> i + j])

\* Where a false IF goes on: after its ELSE, or at its END.
ElseOrEnd(body, i) ==
  LET b == Block(body, i) IN IF b.else = 0 THEN b.end ELSE b.else + 1

\* Where each instruction goes on, an IF when its condition does not hold.
Jumps(body) ==
  [i \in 1 .. Len(body) |->
     CASE body[i].op = "IF" -> ElseOrEnd(body, i)
       [] body[i].op = "ELSE" -> Block(body, i).end
       [] OTHER -> i + 1]
=============================================================================
