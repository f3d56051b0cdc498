----------------------------- MODULE Toolchain ------------------------------
(***************************************************************************)
(* From the sources of a contract to the handler an action reaches.        *)
(*                                                                         *)
(* uosio-cpp runs abigen and then codegen over each source, one process    *)
(* for all of them or, when a build compiles them one by one, one process  *)
(* each; both keep what they found in singletons.  uosio-ld writes the     *)
(* dispatcher and merges the ABIs, and a node then runs apply.             *)
(*                                                                         *)
(* A source is the methods with an action or on_notify attribute in the    *)
(* order clang visits them, those of included headers too, and the other   *)
(* ABI objects that abigen finds in it.  Names are valid UOSIO names.      *)
(***************************************************************************)
EXTENDS Dispatch, AbiMerge

CONSTANTS Programs,   \* the contracts: their sources, hooks and how they are built
          Calls,      \* the arguments of apply and what pre_dispatch returns
          Builtin     \* the names is_builtin_type finds, as they are or translated

\* There is a source, and its actions are methods: a struct with the attribute,
\* an action of the ABI that codegen has no stub for, is left out.
ASSUME ProgramsAssumption ==
  \A p \in Programs :
    /\ {p.pre, p.post, p.dtors} \subseteq BOOLEAN
    /\ p.sources \in Seq(ToSet(p.sources)) /\ p.sources # <<>>
    /\ \A s \in ToSet(p.sources) :
         /\ s.methods \in Seq(ToSet(s.methods)) /\ s.other \in Seq(ToSet(s.other))
         /\ \A m \in ToSet(s.methods) :
              m.kind = "action" \/ (m.kind = "notify" /\ m.code \in ToSet(CodeOrder))
         /\ \A o \in ToSet(s.other) : o.section \in Sections \ {"actions"}

VARIABLES
  prog,    \* the contract at hand
  phase,   \* where the tools are
  src,     \* the source being compiled
  decl,    \* the methods of it codegen has visited
  ag,      \* abigen::_abi
  cg,      \* codegen::actions and codegen::notify_handlers
  stubs,   \* the dispatch stubs written for this source
  objs,    \* the objects, in the order of the link
  body,    \* the body of apply
  abi,     \* the ABI of the merger
  merged,  \* the number of objects' ABIs merged into it
  jump,    \* where a node goes on from the IFs and ELSEs of the body
  call,    \* the arguments of apply
  ip,      \* the instruction apply is at
  trace    \* the functions apply has called

vars == <<prog, phase, src, decl, ag, cg, stubs, objs, body, abi, merged, jump, call, ip, trace>>
compiling == <<src, decl, ag, cg, stubs, objs>>
linking == <<body, abi, merged>>
running == <<call, ip, trace>>

NoStubs == [actions |-> <<>>, notify |-> <<>>]
NoNames == [actions |-> {}, notify |-> {}]
NoCall == [receiver |-> "", code |-> "", action |-> "", accepted |-> "true"]

\* The tools have done their work, which nothing changes from here on.
Installed == {"deployed", "rejected"}

Init ==
  /\ prog \in Programs
  /\ phase = "abigen" /\ src = 1 /\ decl = 0
  /\ ag = EmptyABI /\ cg = NoNames
  /\ stubs = NoStubs /\ objs = <<>>
  /\ body = <<>> /\ jump = <<>> /\ abi = EmptyABI /\ merged = 0
  /\ call = NoCall /\ ip = 0 /\ trace = <<>>
-----------------------------------------------------------------------------
(***************************************************************************)
(* uosio-cpp.                                                              *)
(***************************************************************************)
Source == prog.sources[src]

\* std::set::insert: an object whose name is there already is not replaced.
Insert(section, x) ==
  IF \E y \in section : y.id = x.id THEN section ELSE section \cup {x}

StructOf(m) == [id |-> m.method, def |-> [base |-> "", fields |-> m.params]]
ActionOf(m) == [id |-> m.action, def |-> m.method]

\* UosioMethodMatcher::run with add_struct and add_action.
MatchMethod(a, m) ==
  IF m.kind = "action" /\ m.own
  THEN [a EXCEPT !["structs"] = Insert(@, StructOf(m)),
                 !["actions"] = Insert(@, ActionOf(m))]
  ELSE a

\* add_typedef, add_table, add_variant, add_clauses and add_struct for what
\* the parameters, the tables and the resource files of a source name.  Tables
\* of a multi_index and those that only have the attribute are kept together.
AddOther(a, o) ==
  [a EXCEPT ![o.section] = IF o.section = "ricardian_clauses" THEN @ \cup {o.object}
                           ELSE Insert(@, o.object)]

\* abigen starts from what it knows, nothing in a process of its own.  It meets
\* the other objects between the methods, which makes a difference only to a
\* struct that has the name of a method.
AbigenOf(a) ==
  LET n == Len(Source.methods)
      found[i \in 0 .. n + Len(Source.other)] ==
        IF i = 0 THEN a
        ELSE IF i <= n THEN MatchMethod(found[i - 1], Source.methods[i])
        ELSE AddOther(found[i - 1], Source.other[i - n])
  IN found[n + Len(Source.other)]

\* An action, a table and a typedef name a type by their def.
Users(a) == a["actions"] \cup a["tables"] \cup a["types"]

\* Mutant: an action keeps the struct that has its name, not its method's.
validate_struct_by_name(a, s) ==
  /\ s.id \notin Builtin
  /\ \/ \E t \in a["structs"] : t.def.base = s.id \/ s.id \in ToSet(t.def.fields)
     \/ \E v \in a["variants"] : s.id \in ToSet(v.def)
     \/ \E x \in a["tables"] \cup a["types"] : x.def = s.id
     \/ \E x \in a["actions"] : x.id = s.id

\* A struct goes into the ABI when something names it, unless its name is built in.
validate_struct(a, s) ==
  /\ s.id \notin Builtin
  /\ \/ \E t \in a["structs"] : t.def.base = s.id \/ s.id \in ToSet(t.def.fields)
     \/ \E v \in a["variants"] : s.id \in ToSet(v.def)
     \/ \E x \in Users(a) : x.def = s.id

\* A typedef does when it is named, by a struct only if that goes in.
validate_types(a, t) ==
  \/ \E s \in a["structs"] : validate_struct(a, s) /\ t.id \in ToSet(s.def.fields)
  \/ \E x \in Users(a) : x.def = t.id

\* abigen::to_json.
to_json(a) ==
  [a EXCEPT !["structs"] = {s \in @ : validate_struct(a, s)},
            !["types"] = {t \in @ : validate_types(a, t)}]

NextSource(obj) ==
  /\ objs' = <<obj>> \o objs      \* main puts each output before the others
  /\ src' = src + 1 /\ decl' = 0
  /\ stubs' = NoStubs
  /\ phase' = IF src = Len(prog.sources) THEN "link" ELSE "abigen"

\* generate(): the first tool run, and the end of it when there is no ABI.
Abigen ==
  /\ phase = "abigen"
  /\ ag' = AbigenOf(IF prog.separate THEN EmptyABI ELSE ag)
  /\ cg' = IF prog.separate THEN NoNames ELSE cg
  /\ IF ag' = EmptyABI
     THEN NextSource([abi |-> EmptyABI, stubs |-> NoStubs, generated |-> FALSE])
     ELSE phase' = "codegen" /\ UNCHANGED <<src, decl, stubs, objs>>
  /\ UNCHANGED <<prog, linking, jump, running>>

Method == Source.methods[decl + 1]

StubOf(m) == [code |-> m.code, action |-> m.action, function |-> <<m.method, m.class>>]

\* create_dispatch writes a stub for the methods of the contract itself.
CreateDispatch(m) ==
  stubs' = IF ~m.own THEN stubs
           ELSE IF m.kind = "action" THEN [stubs EXCEPT !.actions = Append(@, StubOf(m))]
           ELSE [stubs EXCEPT !.notify = Append(@, StubOf(m))]

\* The two strings a method leaves in cg.actions or cg.notify_handlers.
NamesOf(m) ==
  IF m.kind = "action" THEN [method |-> <<m.method>>, name |-> <<m.action>>]
  ELSE [method |-> <<m.method>>, name |-> <<m.code, m.action>>]

Known(m) == IF m.kind = "action" THEN cg.actions ELSE cg.notify

\* VisitCXXMethodDecl.
Visit ==
  /\ phase = "codegen" /\ decl < Len(Source.methods)
  /\ decl' = decl + 1
  /\ LET m == Method
         n == NamesOf(m)
     IN /\ \/ /\ n.method \in Known(m)
              /\ UNCHANGED <<stubs, phase>>
           \/ /\ n.method \notin Known(m) /\ n.name \notin Known(m)
              /\ CreateDispatch(m)
              /\ UNCHANGED phase
           \/ /\ n.method \notin Known(m) /\ n.name \in Known(m)
              /\ phase' = "codegen error"
              /\ UNCHANGED stubs
        /\ cg' = IF m.kind = "action"
                 THEN [cg EXCEPT !.actions = @ \cup {n.method, n.name}]
                 ELSE [cg EXCEPT !.notify = @ \cup {n.method, n.name}]
  /\ UNCHANGED <<prog, src, ag, objs, linking, jump, running>>

\* HandleTranslationUnit, with the text of the ABI put into the object.
EndOfSource ==
  /\ phase = "codegen" /\ decl = Len(Source.methods)
  /\ NextSource([abi |-> to_json(ag), stubs |-> stubs, generated |-> TRUE])
  /\ UNCHANGED <<prog, ag, cg, linking, jump, running>>
-----------------------------------------------------------------------------
(***************************************************************************)
(* uosio-ld.                                                               *)
(***************************************************************************)
Linked ==
  [actions |-> FlattenSeq([i \in DOMAIN objs |-> objs[i].stubs.actions]),
   notify |-> FlattenSeq([i \in DOMAIN objs |-> objs[i].stubs.notify]),
   pre |-> prog.pre, post |-> prog.post, dtors |-> prog.dtors]

\* createOutputSegments: the ABIs of the objects that have one, be it one in
\* which all sections are empty.
Abis ==
  LET abis[i \in 0 .. Len(objs)] ==
        IF i = 0 THEN <<>>
        ELSE IF objs[i].generated THEN Append(abis[i - 1], objs[i].abi) ELSE abis[i - 1]
  IN abis[Len(objs)]

\* Writer::run.  What codegen writes refers to uosio_assert_code; when it has
\* written nothing, the contract may or may not do so itself.
Link ==
  /\ phase = "link"
  /\ \/ /\ body' = createDispatchFunction(Linked)
        /\ abi' = IF Abis = <<>> THEN EmptyABI ELSE Last(Abis)
        /\ phase' = "write abi"
     \/ /\ \A i \in DOMAIN objs : ~objs[i].generated
        /\ phase' = "no dispatcher"
        /\ UNCHANGED <<body, abi>>
  /\ UNCHANGED <<prog, compiling, merged, jump, running>>

\* One turn of the loop of writeABI.
MergeNext ==
  /\ phase = "write abi" /\ merged < Len(Abis)
  /\ LET next == Abis[merged + 1]
     IN IF MergeThrows(abi, next)
        THEN phase' = "failed to write abi" /\ UNCHANGED <<abi, merged>>
        ELSE abi' = merge(abi, next) /\ merged' = merged + 1 /\ UNCHANGED phase
  /\ UNCHANGED <<prog, compiling, body, jump, running>>
-----------------------------------------------------------------------------
(***************************************************************************)
(* The node.                                                               *)
(***************************************************************************)
SetCode ==
  /\ phase = "write abi" /\ merged = Len(Abis)
  /\ IF Validated(body) THEN phase' = "deployed" /\ jump' = Jumps(body)
     ELSE phase' = "rejected" /\ UNCHANGED jump
  /\ UNCHANGED <<prog, compiling, linking, running>>

Apply(c) ==
  /\ phase = "deployed"
  /\ phase' = "apply" /\ call' = c /\ ip' = 1
  /\ UNCHANGED <<prog, compiling, linking, jump, trace>>

Instr == body[ip]

Value(operand) ==
  CASE operand = "receiver" -> call.receiver
    [] operand = "code" -> call.code
    [] operand = "action" -> call.action
    [] operand = "pre_dispatch" -> call.accepted
    [] OTHER -> operand

Holds(condition) ==
  LET equal == Value(condition[1]) = Value(condition[3])
  IN IF condition[2] = "EQ" THEN equal ELSE ~equal

CallFunction ==
  /\ phase = "apply" /\ Instr.op = "CALL"
  /\ trace' = Append(trace, Instr.arg)
  /\ phase' = IF Instr.arg \in Asserts THEN "aborted" ELSE phase
  /\ ip' = ip + 1
  /\ UNCHANGED <<prog, compiling, linking, jump, call>>

Branch ==
  /\ phase = "apply" /\ Instr.op # "CALL"
  /\ ip' = IF Instr.op = "IF" /\ Holds(Instr.arg) THEN ip + 1 ELSE jump[ip]
  /\ phase' = IF ip = Len(body) THEN "returned" ELSE phase
  /\ UNCHANGED <<prog, compiling, linking, jump, call, trace>>

Next ==
  \/ Abigen \/ Visit \/ EndOfSource
  \/ Link \/ MergeNext
  \/ SetCode \/ (\E c \in Calls : Apply(c)) \/ CallFunction \/ Branch

Spec == Init /\ [][Next]_vars
-----------------------------------------------------------------------------
(***************************************************************************)
(* Properties.                                                             *)
(***************************************************************************)
Methods == UNION {ToSet(prog.sources[i].methods) : i \in DOMAIN prog.sources}
Handlers(kind) == {m \in Methods : m.own /\ m.kind = kind}

\* No two methods share the names codegen remembers, of the contract or of a
\* header it includes, and a source with handlers has an action among them.
Plain ==
  /\ \A m, n \in Methods :
       m.kind = n.kind /\ {NamesOf(m).method, NamesOf(m).name}
                            \cap {NamesOf(n).method, NamesOf(n).name} # {} => m = n
  /\ \A i \in DOMAIN prog.sources :
       LET own == {m \in ToSet(prog.sources[i].methods) : m.own}
       IN own # {} => \E m \in own : m.kind = "action"

\* abigen finds no other struct that has the name of an action's method, and
\* no action's method has the name of a built-in type: to_json leaves out the
\* struct of one that has, and the ABI then describes another type.
Apart ==
  \A m \in Handlers("action") :
    /\ m.method \notin Builtin
    /\ \A i \in DOMAIN prog.sources : \A o \in ToSet(prog.sources[i].other) :
         o.section = "structs" => o.object.id # m.method

\* The contracts whose notification handlers, taken with their post_dispatch,
\* leave no IF open: a wildcard handler ends the chain of the accounts.
ClosingShape ==
  LET codes == {m.code : m \in Handlers("notify")}
      accounts == Cardinality(codes \ {ANY})
  IN \/ ANY \in codes /\ accounts = (IF prog.post THEN 1 ELSE 0)
     \/ codes = {} /\ ~prog.post

\* Writer::createDispatchFunction closes what it opens: for these contracts,
\* whatever their actions, hooks and number of handlers, the body it writes is
\* one a node accepts, each IF with one END and no second ELSE.
BodyCloses == phase = "rejected" => ~(Plain /\ ClosingShape)

\* The handlers whose attribute names the notification at hand, on_notify("*::action")
\* naming it for any account.
Matching ==
  {m \in Handlers("notify") : m.code \in {call.code, ANY} /\ m.action = call.action}

\* uosio::onerror, and no handler supplied for it.
ErrorUnhandled ==
  call.code = UOSIO /\ call.action = ONERROR /\ \A m \in Matching : m.code # UOSIO

FunctionOf(m) == <<m.method, m.class>>

\* What is to handle a call, by the attributes of the methods: the one method
\* with the action; any one of the handlers of a notification when there are
\* several, and post_dispatch, if there is one, when there are none.  That an
\* unknown action is no error on the system account, where post_dispatch has
\* it, is only in the code.
HandledBy ==
  LET Of(methods) == {<<FunctionOf(m)>> : m \in methods}
      actions == {m \in Handlers("action") : m.action = call.action}
      post == When(prog.post, <<PostDispatch>>)
  IN CASE call.receiver = call.code /\ actions # {} -> Of(actions)
       [] call.receiver = call.code /\ actions = {} ->
            {IF call.receiver = UOSIO THEN post ELSE <<NoAction>>}
       [] call.receiver # call.code /\ ErrorUnhandled -> {<<OnErrorAssert>>}
       [] call.receiver # call.code /\ ~ErrorUnhandled ->
            IF Matching # {} THEN Of(Matching) ELSE {post}

\* The functions apply may call, in order: a hook or the destructors around
\* what handles the call, unless that asserts.
Expected ==
  {<<Ctors>> \o When(prog.pre, <<PreDispatch>>)
     \o When(~prog.pre \/ call.accepted = "true",
             main \o When(prog.dtors /\ ToSet(main) \cap Asserts = {}, <<Dtors>>))
   : main \in HandledBy}

\* Where the dispatcher departs from the attributes, and from the guides: an
\* account with handlers of its own, none of them for this action, has them hide
\* the handler of the action for any account, and post_dispatch.
Hides ==
  LET own == {m \in Handlers("notify") : m.code = call.code}
  IN /\ call.receiver # call.code /\ ~ErrorUnhandled
     /\ own # {} /\ own \cap Matching = {}
     /\ Matching # {} \/ prog.post


\* abigen, codegen and ABIMerger agree: the ABI names the actions the sources
\* declare, and the struct of each, which to_json keeps and the merge leaves
\* alone, has the parameters of the method that codegen's stub for it calls.
AbiDescribesHandlers ==
  phase \in Installed /\ Plain /\ Apart =>
    /\ {x.id : x \in abi["actions"]} = {m.action : m \in Handlers("action")}
    /\ \A x \in abi["actions"] :
         \E i \in DOMAIN Linked.actions, m \in Handlers("action") :
           /\ Linked.actions[i] = StubOf(m)
           /\ m.action = x.id
           /\ StructOf(m) \in abi["structs"] /\ x.def = m.method

\* The ABIs in the order in which the merger meets them.
Order == IF Abis = <<>> THEN <<>> ELSE <<Last(Abis)>> \o Abis

Has(section, id, i) == \E x \in Order[i][section] : x.id = id

\* The definitions that stand: for each id those of the ABI that has it first.
\* There are two when an object has two clauses of one id.
Standing(section) ==
  UNION {{x \in Order[i][section] : \A j \in 1 .. i - 1 : ~Has(section, x.id, j)}
           : i \in DOMAIN Order}

\* Some ABI's definition is not the same as one that stands since an earlier ABI.
Conflict ==
  \E s \in Sections, i \in DOMAIN Abis : \E y \in Abis[i][s], x \in Standing(s) :
    /\ x.id = y.id /\ ~IsSame(s, x, y)
    /\ \E j \in 1 .. i : Has(s, y.id, j)

\* writeABI as a whole: it fails exactly when there is such a conflict, and
\* otherwise writes the definitions that stand and no others, however many
\* objects there are.
MergeKeepsStanding ==
  /\ phase = "failed to write abi" => Conflict
  /\ phase \in Installed => ~Conflict /\ \A s \in Sections : abi[s] = Standing(s)

\* What the guides promise: the handlers of a contract that was built can be
\* dispatched, its actions and its notification handlers.
HandlersDispatchable ==
  phase \in Installed =>
    /\ phase # "rejected"
    /\ \A m \in Handlers("action") : \E i \in DOMAIN Linked.actions : Linked.actions[i] = StubOf(m)
    /\ \A m \in Handlers("notify") : \E i \in DOMAIN Linked.notify : Linked.notify[i] = StubOf(m)
=============================================================================
